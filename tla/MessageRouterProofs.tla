--------------------------- MODULE MessageRouterProofs ---------------------------
(***************************************************************************)
(* The proofs about MessageRouter and the store it routes by, Projects:    *)
(* for any sessions, directories, hosts, requests and failures, the store  *)
(* stays well formed, a message reaches its recipient's window or none,    *)
(* and what is made for a session joins the project of that session.       *)
(*                                                                         *)
(* First what the searches of the store find and what Add, Remove and      *)
(* Update leave of it, seen as a set of entries: a session with the path   *)
(* of its project.  Then each operation of the manager (TreeStep), then    *)
(* each step of a handler.                                                 *)
(***************************************************************************)
EXTENDS MessageRouter, NaturalsInduction, WellFoundedInduction, SequenceTheorems, TLAPS

\* The sessions of the store, each with the path of its project.
Entries(ps) == UNION {{<<ps[i].path, s>> : s \in Members(ps[i])} : i \in DOMAIN ps}

\* A window made for a session, or none.
Its(w, id) == w # 0 => w \in DOMAIN windows /\ windows[w].id = id

\* A session that runs in a worktree of this machine.
Worker(s) == s.host = Local /\ s.role = "worker"

\* Its id was given out, its project is in a root directory if it is of this
\* machine, a worker bears the name of its worktree until a session is
\* renamed, and its stored window was made for it.
EntryOK(e) ==
  LET s == e[2] IN
  /\ s.id \in used
  /\ s.host = Local => e[1][2] = NoTree
  /\ Worker(s) => renamed \/ s.path[2] = s.name
  /\ Its(s.window, s.id)
EntriesInv == \A e \in Entries(projects) : EntryOK(e)

TreeInv == TreeTypeOK /\ ProjectsAreSound /\ EntriesInv /\ WorktreeHasOneSession

\* Where a message was typed: in the window that was resolved, at "enter" or
\* after, unless Claude did not hear it; only a send has a window.
Reached(r) == {w \in Windows : r \in input[w] \cup inbox[w]}
MessageOK(r) ==
  /\ Reached(r) \subseteq {w \in Windows : req[r] # NoRequest /\ req[r].win = w}
  /\ req[r] # NoRequest =>
       /\ IF req[r].kind = "send" THEN req[r].at \in {"send", "type", "enter", "delivered", "failed"}
          ELSE req[r].win = 0 /\ req[r].at \notin {"send", "type", "enter", "delivered"}
       /\ Its(req[r].win, req[r].to)
       /\ req[r].at \in {"type", "enter", "delivered"} => req[r].win # 0
       /\ Reached(r) = {} \/ req[r].at \in {"enter", "delivered"}
       /\ req[r].at \in {"enter", "delivered"} => (Reached(r) = {} <=> req[r].unheard)
       /\ req[r].at = "delivered" => req[r].unheard \/ req[r].unentered \/ r \in inbox[req[r].win]

\* A session that is not a mirror and is in no project but that.
Lives(id, path) == \A e \in Entries(projects) : e[2].id = id => e[1] = path /\ e[2].host = Local

\* A caller is not a mirror; a caller whose project was found is in it, and
\* so is what was made for it.
CallerOK(r) ==
  req[r] # NoRequest =>
    /\ req[r].from \in used /\ req[r].dir[2] = NoTree
    /\ req[r].kind # "resume" => \A e \in Entries(projects) : e[2].id = req[r].from => e[2].host = Local
JoinOK(r) ==
  /\ req[r].kind = "resume" => req[r].at # "find"
  /\ req[r].kind \in {"worker", "pm", "local"} =>
       /\ req[r].at \in {"find", "create", "rename", "prompt", "answered", "failed"}
       /\ req[r].at \in {"create", "rename", "prompt", "answered"} => byName \/ Lives(req[r].from, req[r].dir)
       /\ req[r].at \in {"rename", "prompt", "answered"} => req[r].to \in used /\ (byName \/ Lives(req[r].to, req[r].dir))

RequestOK(r) == MessageOK(r) /\ CallerOK(r) /\ JoinOK(r)
IInv == TypeOK /\ TreeInv /\ \A r \in Requests : RequestOK(r)

\* A project as Sound wants it, and two that have nothing in common.
Neat(p, lost) ==
  /\ Members(p) # {}
  /\ \A s, t \in Members(p) : s.host = t.host
  /\ \A k, l \in Slots(p) : k # l /\ InSlot(p, k).id = InSlot(p, l).id => InSlot(p, k).id \in lost
Separate(p, q) ==
  \A s \in Members(p), t \in Members(q) : s.id # t.id /\ (p.path = q.path => s.host # t.host)
Tidy(ps, lost) ==
  /\ \A i \in DOMAIN ps : Neat(ps[i], lost)
  /\ \A i, j \in DOMAIN ps : i # j => Separate(ps[i], ps[j])

-----------------------------------------------------------------------------
(* Facts about the store's searches.                                       *)

\* Numbers have a least one.
LEMMA LeastFacts ==
  ASSUME NEW I, I \subseteq Nat, I # {}
  PROVE  \E x \in I : \A y \in I : x =< y
<1> DEFINE R == OpToRel(<, Nat)
<1>1. IsWellFoundedOn(R, Nat)
  BY NatLessThanWellFounded
<1>2. \A x, y \in Nat : x < y => <<x, y>> \in R
  BY Zenon DEF OpToRel
<1> HIDE DEF R
<1>3. PICK x \in I : \A y \in I : <<y, x>> \notin R
  BY <1>1, WFMin
<1>4. x \in Nat /\ \A y \in I : y \in Nat
  OBVIOUS
<1>5. \A y \in I : ~(y < x)
  BY <1>2, <1>3, <1>4, Zenon
<1>6. QED BY <1>4, <1>5

\* The first of some places is one of them.
LEMMA FirstFacts ==
  ASSUME NEW I, I \subseteq Nat
  PROVE  /\ I = {} => FirstOf(I) = 0
         /\ I # {} => FirstOf(I) \in I /\ Min(I) \in I
<1>1. I # {} => Min(I) \in I
  BY LeastFacts DEF Min
<1>2. QED BY <1>1 DEF FirstOf

\* So is the last.
LEMMA LastFacts ==
  ASSUME NEW n \in Nat, NEW I, I \subseteq 0 .. n, I # {}
  PROVE  LastOf(I) \in I /\ Max(I) \in I
<1> DEFINE J == {n - x : x \in I}
<1>1. J \subseteq Nat /\ J # {}
  <2>1. \A x \in I : n - x \in Nat
    OBVIOUS
  <2>2. QED BY <2>1
<1>2. PICK y \in J : \A z \in J : y =< z
  BY <1>1, LeastFacts
<1>3. PICK x \in I : y = n - x
  OBVIOUS
<1>4. \A z \in I : x >= z
  <2>1. ASSUME NEW z \in I PROVE x >= z
    <3>1. n - z \in J /\ x \in Nat /\ z \in Nat
      OBVIOUS
    <3>2. y =< n - z
      BY <1>2, <3>1
    <3>3. QED BY <1>3, <3>1, <3>2
  <2>2. QED BY <2>1
<1>5. Max(I) \in I
  BY <1>4 DEF Max
<1>6. QED BY <1>5 DEF LastOf

\* What is in the places of a project.
LEMMA SlotFacts ==
  ASSUME NEW p \in Project
  PROVE  /\ Slots(p) \subseteq Nat /\ (0 \in Slots(p) <=> p.pm # NoSession)
         /\ \A k \in Slots(p) : InSlot(p, k) \in Session /\ InSlot(p, k) \in Members(p)
         /\ \A k \in Nat \ {0} : k \in Slots(p) <=> k \in 1 .. Len(p.sessions)
         /\ Members(p) \subseteq Session
         /\ \A s \in Members(p) : \E k \in Slots(p) : InSlot(p, k) = s
<1>1. p.pm \in Session \cup {NoSession} /\ p.sessions \in Seq(Session) /\ DOMAIN p.sessions = 1 .. Len(p.sessions)
      /\ Len(p.sessions) \in Nat
  BY DEF Project
<1>2. Slots(p) \subseteq Nat /\ (0 \in Slots(p) <=> p.pm # NoSession)
  BY <1>1 DEF Slots
<1>3. \A k \in Slots(p) : InSlot(p, k) \in Session
  BY <1>1 DEF Slots, InSlot
<1>4. \A k \in Nat \ {0} : k \in Slots(p) <=> k \in 1 .. Len(p.sessions)
  BY <1>1 DEF Slots
<1>5. QED BY <1>2, <1>3, <1>4 DEF Members

\* The host of a project is that of each of its sessions.
LEMMA HostFacts ==
  ASSUME NEW p \in Project, \A s, t \in Members(p) : s.host = t.host, NEW s \in Members(p)
  PROVE  ProjectHost(p) = s.host
<1> DEFINE hosted == {k \in Slots(p) : InSlot(p, k).host # Local}
<1>1. PICK k \in Slots(p) : InSlot(p, k) = s
  BY SlotFacts
<1>2. ProjectHost(p) = IF hosted = {} THEN Local ELSE InSlot(p, Min(hosted)).host
  BY DEF ProjectHost
<1>3. hosted \subseteq Nat /\ hosted \subseteq Slots(p)
  BY SlotFacts
<1>4. hosted = {} => s.host = Local
  BY <1>1
<1> HIDE DEF hosted
<1>5. hosted # {} => Min(hosted) \in Slots(p)
  BY <1>3, FirstFacts
<1>6. hosted # {} => InSlot(p, Min(hosted)) \in Members(p)
  BY <1>5, SlotFacts
<1>7. QED BY <1>2, <1>4, <1>6

\* The place of a session in its project.
LEMMA SlotOfFacts ==
  ASSUME NEW p \in Project, NEW id, Has(p, id)
  PROVE  SlotOf(p, id) \in Slots(p) /\ InSlot(p, SlotOf(p, id)).id = id
<1> DEFINE I == {k \in Slots(p) : InSlot(p, k).id = id}
<1>1. I \subseteq Nat /\ I # {}
  BY SlotFacts DEF Has
<1>2. SlotOf(p, id) = FirstOf(I)
  BY DEF SlotOf
<1>3. FirstOf(I) \in I
  BY <1>1, FirstFacts
<1>4. QED BY <1>2, <1>3

\* The project of a session.
LEMMA ProjectOfFacts ==
  ASSUME NEW ps \in Seq(Project), NEW id
  PROVE  /\ ProjectOf(ps, id) = 0 => \A i \in DOMAIN ps : ~Has(ps[i], id)
         /\ ProjectOf(ps, id) # 0 => ProjectOf(ps, id) \in DOMAIN ps /\ Has(ps[ProjectOf(ps, id)], id)
         /\ ProjectOf(ps, id) \in Nat
<1> DEFINE I == {i \in DOMAIN ps : Has(ps[i], id)}
<1>1. I \subseteq Nat /\ 0 \notin I
  OBVIOUS
<1>2. ProjectOf(ps, id) = FirstOf(I)
  BY DEF ProjectOf
<1>3. \A i \in DOMAIN ps : Has(ps[i], id) => i \in I
  OBVIOUS
<1>4. \A i \in I : i \in DOMAIN ps /\ Has(ps[i], id)
  OBVIOUS
<1> HIDE DEF I
<1>5. (I = {} => FirstOf(I) = 0) /\ (I # {} => FirstOf(I) \in I)
  BY <1>1, FirstFacts
<1>6. ProjectOf(ps, id) = 0 => \A i \in DOMAIN ps : ~Has(ps[i], id)
  BY <1>1, <1>2, <1>3, <1>5
<1>7. ProjectOf(ps, id) # 0 => ProjectOf(ps, id) \in DOMAIN ps /\ Has(ps[ProjectOf(ps, id)], id)
  BY <1>2, <1>4, <1>5
<1>8. ProjectOf(ps, id) \in Nat
  <2>1. 0 \in Nat
    OBVIOUS
  <2>2. QED BY <1>1, <1>2, <1>5, <2>1, Zenon
<1>9. QED BY <1>6, <1>7, <1>8

\* The project of a path and a host.
LEMMA FindProjectIdxFacts ==
  ASSUME NEW ps \in Seq(Project), NEW path, NEW host, NEW i, i = FindProjectIdx(ps, path, host)
  PROVE  /\ i = 0 => \A j \in DOMAIN ps : ps[j].path = path => ProjectHost(ps[j]) # host
         /\ i # 0 => i \in DOMAIN ps /\ ps[i].path = path /\ ProjectHost(ps[i]) = host
<1> DEFINE I == {j \in DOMAIN ps : ps[j].path = path /\ ProjectHost(ps[j]) = host}
<1>1. I \subseteq Nat /\ 0 \notin I
  OBVIOUS
<1>2. i = FirstOf(I)
  BY DEF FindProjectIdx
<1>3. \A j \in DOMAIN ps : ps[j].path = path /\ ProjectHost(ps[j]) = host => j \in I
  OBVIOUS
<1>4. \A j \in I : j \in DOMAIN ps /\ ps[j].path = path /\ ProjectHost(ps[j]) = host
  OBVIOUS
<1> HIDE DEF I
<1>5. (I = {} => FirstOf(I) = 0) /\ (I # {} => FirstOf(I) \in I)
  BY <1>1, FirstFacts
<1>6. QED BY <1>1, <1>2, <1>3, <1>4, <1>5

\* Sound, project by project.
LEMMA SoundIsTidy ==
  ASSUME NEW ps \in Seq(Project), NEW lost
  PROVE  Sound(ps, lost) <=> Tidy(ps, lost)
<1>1. \A i \in DOMAIN ps : ps[i] \in Project
  OBVIOUS
<1>2. ASSUME Sound(ps, lost) PROVE Tidy(ps, lost)
  <2>1. \A i \in DOMAIN ps : Neat(ps[i], lost)
    BY <1>2 DEF Sound, Neat
  <2>2. ASSUME NEW i \in DOMAIN ps, NEW j \in DOMAIN ps, i # j, NEW s \in Members(ps[i]), NEW t \in Members(ps[j])
        PROVE  s.id # t.id /\ (ps[i].path = ps[j].path => s.host # t.host)
    <3>1. PICK k \in Slots(ps[i]) : InSlot(ps[i], k) = s
      BY <1>1, SlotFacts
    <3>2. PICK l \in Slots(ps[j]) : InSlot(ps[j], l) = t
      BY <1>1, SlotFacts
    <3>3. <<i, k>> # <<j, l>>
      BY <2>2
    <3>4. s.id # t.id
      <4>1. InSlot(ps[i], k).id = InSlot(ps[j], l).id => i = j
        BY <1>2, <3>3 DEF Sound
      <4>2. QED BY <2>2, <3>1, <3>2, <4>1
    <3>5. ProjectHost(ps[i]) = s.host /\ ProjectHost(ps[j]) = t.host
      BY <1>1, <2>1, HostFacts DEF Neat
    <3>6. QED BY <1>2, <2>2, <3>4, <3>5 DEF Sound
  <2>3. QED BY <2>1, <2>2 DEF Tidy, Separate
<1>3. ASSUME Tidy(ps, lost) PROVE Sound(ps, lost)
  <2>1. ASSUME NEW i \in DOMAIN ps, NEW j \in DOMAIN ps, i # j, ps[i].path = ps[j].path
        PROVE  ProjectHost(ps[i]) # ProjectHost(ps[j])
    <3>1. PICK s \in Members(ps[i]), t \in Members(ps[j]) : TRUE
      BY <1>3 DEF Tidy, Neat
    <3>2. ProjectHost(ps[i]) = s.host /\ ProjectHost(ps[j]) = t.host
      BY <1>1, <1>3, HostFacts DEF Tidy, Neat
    <3>3. s.host # t.host
      BY <1>3, <2>1 DEF Tidy, Separate
    <3>4. QED BY <3>2, <3>3
  <2>2. ASSUME NEW i \in DOMAIN ps, NEW j \in DOMAIN ps, NEW k \in Slots(ps[i]), NEW l \in Slots(ps[j]), <<i, k>> # <<j, l>>,
               InSlot(ps[i], k).id = InSlot(ps[j], l).id
        PROVE  i = j /\ InSlot(ps[i], k).id \in lost
    <3>1. CASE i = j
      BY <1>3, <2>2, <3>1 DEF Tidy, Neat
    <3>2. CASE i # j
      <4>1. InSlot(ps[i], k) \in Members(ps[i]) /\ InSlot(ps[j], l) \in Members(ps[j])
        BY <1>1, SlotFacts
      <4>2. QED BY <1>3, <2>2, <3>2, <4>1 DEF Tidy, Separate
    <3>3. QED BY <3>1, <3>2
  <2>3. QED BY <1>3, <2>1, <2>2 DEF Sound, Tidy, Neat
<1>4. QED BY <1>2, <1>3

\* What is lost may grow.
LEMMA TidyGrows ==
  ASSUME NEW ps, NEW lost, NEW more, lost \subseteq more, Tidy(ps, lost)
  PROVE  Tidy(ps, more)
BY DEF Tidy, Neat

-----------------------------------------------------------------------------
(* Facts about the changes of the store.                                   *)

\* A sequence without one of its places.
LEMMA RemoveAtFacts ==
  ASSUME NEW S, NEW s \in Seq(S), NEW z \in 1 .. Len(s)
  PROVE  /\ RemoveAt(s, z) \in Seq(S) /\ Len(RemoveAt(s, z)) = Len(s) - 1
         /\ \A k \in 1 .. z - 1 : RemoveAt(s, z)[k] = s[k]
         /\ \A k \in z .. Len(s) - 1 : RemoveAt(s, z)[k] = s[k + 1]
<1> DEFINE a == SubSeq(s, 1, z - 1)
           b == SubSeq(s, z + 1, Len(s))
<1>1. RemoveAt(s, z) = a \o b
  BY DEF RemoveAt
<1>2. /\ a \in Seq(S) /\ b \in Seq(S) /\ Len(a) = z - 1 /\ Len(b) = Len(s) - z
      /\ \A k \in 1 .. z - 1 : a[k] = s[k]
      /\ \A k \in 1 .. Len(b) : b[k] = s[z + k]
  OBVIOUS
<1> HIDE DEF a, b
<1>3. /\ a \o b \in Seq(S) /\ Len(a \o b) = Len(a) + Len(b)
      /\ \A k \in 1 .. Len(a) + Len(b) : (a \o b)[k] = IF k =< Len(a) THEN a[k] ELSE b[k - Len(a)]
  BY <1>2, ConcatProperties
<1>4. Len(a) + Len(b) = Len(s) - 1
  BY <1>2
<1>5. ASSUME NEW k \in 1 .. z - 1 PROVE (a \o b)[k] = s[k]
  <2>1. k \in 1 .. Len(a) + Len(b) /\ k =< Len(a)
    BY <1>2, <1>4
  <2>2. QED BY <1>2, <1>3, <2>1
<1>6. ASSUME NEW k \in z .. Len(s) - 1 PROVE (a \o b)[k] = s[k + 1]
  <2>1. k \in 1 .. Len(a) + Len(b) /\ ~(k =< Len(a)) /\ k - Len(a) \in 1 .. Len(b) /\ z + (k - Len(a)) = k + 1
    BY <1>2, <1>4
  <2>2. b[k - Len(a)] = s[k + 1]
    BY <1>2, <2>1
  <2>3. QED BY <1>3, <2>1, <2>2
<1>7. QED BY <1>1, <1>3, <1>4, <1>5, <1>6

\* A session put into a project of its host.
LEMMA PlacedFacts ==
  ASSUME NEW p \in Project, NEW s \in Session, NEW q, q = Placed(p, s), NEW lost,
         \A k, l \in Slots(p) : k # l /\ InSlot(p, k).id = InSlot(p, l).id => InSlot(p, k).id \in lost,
         \A t, u \in Members(p) : t.host = u.host,
         \A t \in Members(p) : t.host = s.host /\ (t.id = s.id => s.id \in lost)
  PROVE  q \in Project /\ q.path = p.path /\ Neat(q, lost) /\ Members(q) \subseteq Members(p) \cup {s}
<1>1. p.pm \in Session \cup {NoSession} /\ p.sessions \in Seq(Session) /\ DOMAIN p.sessions = 1 .. Len(p.sessions)
      /\ Len(p.sessions) \in Nat /\ p = [path |-> p.path, pm |-> p.pm, sessions |-> p.sessions] /\ p.path \in Paths
  BY DEF Project
<1>2. s # NoSession
  BY ConstantsAssumption
<1>3. /\ q \in Project /\ q.path = p.path
      /\ \E z \in Slots(q) :
           /\ InSlot(q, z) = s
           /\ \A k \in Slots(q) : k # z => k \in Slots(p) /\ InSlot(q, k) = InSlot(p, k)
  <2>1. CASE s.role = "pm"
    <3>1. q = [path |-> p.path, pm |-> s, sessions |-> p.sessions]
      BY <1>1, <2>1 DEF Placed
    <3>2. q \in Project /\ q.path = p.path
      BY <1>1, <3>1 DEF Project
    <3>3. 0 \in Slots(q) /\ InSlot(q, 0) = s
      BY <1>2, <3>1 DEF Slots, InSlot
    <3>4. ASSUME NEW k \in Slots(q), k # 0 PROVE k \in Slots(p) /\ InSlot(q, k) = InSlot(p, k)
      BY <3>1, <3>4 DEF Slots, InSlot
    <3>5. QED BY <3>2, <3>3, <3>4
  <2>2. CASE s.role # "pm"
    <3> DEFINE n == Len(p.sessions) + 1
    <3>1. q = [path |-> p.path, pm |-> p.pm, sessions |-> Append(p.sessions, s)]
      BY <1>1, <2>2 DEF Placed
    <3>2. q.sessions \in Seq(Session) /\ Len(q.sessions) = n /\ q.sessions[n] = s
          /\ \A k \in 1 .. Len(p.sessions) : q.sessions[k] = p.sessions[k]
      BY <1>1, <3>1
    <3>3. q \in Project /\ q.path = p.path
      BY <1>1, <3>1, <3>2 DEF Project
    <3>4. n \in Slots(q) /\ InSlot(q, n) = s
      BY <1>1, <3>2 DEF Slots, InSlot
    <3>5. ASSUME NEW k \in Slots(q), k # n PROVE k \in Slots(p) /\ InSlot(q, k) = InSlot(p, k)
      <4>1. CASE k = 0
        BY <3>1, <3>5, <4>1 DEF Slots, InSlot
      <4>2. CASE k # 0
        <5>1. k \in 1 .. Len(p.sessions)
          BY <1>1, <3>2, <3>5, <4>2 DEF Slots
        <5>2. QED BY <1>1, <3>2, <4>2, <5>1 DEF Slots, InSlot
      <4>3. QED BY <4>1, <4>2
    <3>6. QED BY <3>3, <3>4, <3>5
  <2>3. QED BY <2>1, <2>2
<1>4. PICK z \in Slots(q) :
        /\ InSlot(q, z) = s
        /\ \A k \in Slots(q) : k # z => k \in Slots(p) /\ InSlot(q, k) = InSlot(p, k)
  BY <1>3
<1>5. \A k \in Slots(p) : InSlot(p, k) \in Members(p)
  BY DEF Members
<1>6. Members(q) \subseteq Members(p) \cup {s}
  BY <1>4, <1>5 DEF Members
<1>7. Members(q) # {}
  BY <1>4 DEF Members
<1>8. \A t, u \in Members(q) : t.host = u.host
  BY <1>6
<1>9. ASSUME NEW k \in Slots(q), NEW l \in Slots(q), k # l, InSlot(q, k).id = InSlot(q, l).id PROVE InSlot(q, k).id \in lost
  <2>1. CASE k = z
    BY <1>4, <1>5, <1>9, <2>1
  <2>2. CASE l = z
    BY <1>4, <1>5, <1>9, <2>2
  <2>3. CASE k # z /\ l # z
    BY <1>4, <1>9, <2>3
  <2>4. QED BY <2>1, <2>2, <2>3
<1>10. QED BY <1>3, <1>6, <1>7, <1>8, <1>9 DEF Neat

\* What is left of a project without a session.
LEMMA WithoutFacts ==
  ASSUME NEW p \in Project, NEW id, NEW lost, Has(p, id), Neat(p, lost), NEW q, q = Without(p, id)
  PROVE  /\ q \in Project /\ q.path = p.path
         /\ \A t \in Members(q) : t \in Members(p) /\ (t.id = id => id \in lost)
         /\ Slots(q) # {} => Neat(q, lost)
<1> DEFINE z == SlotOf(p, id)
<1>1. p.pm \in Session \cup {NoSession} /\ p.sessions \in Seq(Session) /\ DOMAIN p.sessions = 1 .. Len(p.sessions)
      /\ Len(p.sessions) \in Nat /\ p = [path |-> p.path, pm |-> p.pm, sessions |-> p.sessions] /\ p.path \in Paths
  BY DEF Project
<1>2. z \in Slots(p) /\ InSlot(p, z).id = id /\ z \in Nat
  BY SlotOfFacts, SlotFacts
<1> DEFINE g(k) == IF z = 0 \/ k < z THEN k ELSE k + 1
<1>3. /\ q \in Project /\ q.path = p.path
      /\ \A k \in Slots(q) : k \in Nat /\ g(k) \in Slots(p) \ {z} /\ InSlot(q, k) = InSlot(p, g(k))
  <2>1. CASE z = 0
    <3>1. q = [path |-> p.path, pm |-> NoSession, sessions |-> p.sessions]
      BY <1>1, <2>1 DEF Without
    <3>2. q \in Project /\ q.path = p.path
      BY <1>1, <3>1 DEF Project
    <3>3. ASSUME NEW k \in Slots(q) PROVE k # 0 /\ k \in Slots(p) /\ InSlot(q, k) = InSlot(p, k) /\ k \in Nat
      BY <1>1, <3>1 DEF Slots, InSlot
    <3>4. QED BY <2>1, <3>2, <3>3
  <2>2. CASE z # 0
    <3>1. z \in 1 .. Len(p.sessions)
      BY <1>1, <1>2, <2>2, SlotFacts
    <3>2. q = [path |-> p.path, pm |-> p.pm, sessions |-> RemoveAt(p.sessions, z)]
      BY <1>1, <2>2 DEF Without
    <3>3. /\ RemoveAt(p.sessions, z) \in Seq(Session) /\ Len(RemoveAt(p.sessions, z)) = Len(p.sessions) - 1
          /\ \A k \in 1 .. z - 1 : RemoveAt(p.sessions, z)[k] = p.sessions[k]
          /\ \A k \in z .. Len(p.sessions) - 1 : RemoveAt(p.sessions, z)[k] = p.sessions[k + 1]
      BY <1>1, <3>1, RemoveAtFacts
    <3>4. /\ q.sessions \in Seq(Session) /\ Len(q.sessions) = Len(p.sessions) - 1
          /\ \A k \in 1 .. z - 1 : q.sessions[k] = p.sessions[k]
          /\ \A k \in z .. Len(p.sessions) - 1 : q.sessions[k] = p.sessions[k + 1]
      BY <3>2, <3>3
    <3>5. q \in Project /\ q.path = p.path
      BY <1>1, <3>2, <3>4 DEF Project
    <3>6. ASSUME NEW k \in Slots(q) PROVE k \in Nat /\ g(k) \in Slots(p) \ {z} /\ InSlot(q, k) = InSlot(p, g(k))
      <4>1. CASE k = 0
        <5>1. g(k) = 0
          BY <1>2, <2>2, <4>1
        <5>2. q.pm = p.pm /\ 0 \in Slots(q)
          BY <3>2, <3>6, <4>1
        <5>2a. q.pm # NoSession
          BY <5>2, <3>5, SlotFacts
        <5>2b. 0 \in Slots(p) /\ InSlot(q, 0) = InSlot(p, 0)
          BY <5>2, <5>2a DEF Slots, InSlot
        <5>3. QED BY <2>2, <4>1, <5>1, <5>2b
      <4>2. CASE k # 0
        <5>1. k \in 1 .. Len(p.sessions) - 1
          BY <1>1, <3>4, <3>6, <4>2 DEF Slots
        <5>2. g(k) \in 1 .. Len(p.sessions) /\ g(k) # z /\ q.sessions[k] = p.sessions[g(k)]
          BY <1>1, <3>1, <3>4, <5>1
        <5>3. QED BY <1>1, <4>2, <5>1, <5>2 DEF Slots, InSlot
      <4>3. QED BY <4>1, <4>2
    <3>7. QED BY <3>5, <3>6
  <2>3. QED BY <2>1, <2>2
<1>4. \A k, l \in Nat : k # l => g(k) # g(l)
  BY <1>2
<1> HIDE DEF g, z
<1>5. \A k \in Slots(p) : InSlot(p, k) \in Members(p)
  BY DEF Members
<1>6. ASSUME NEW t \in Members(q) PROVE t \in Members(p) /\ (t.id = id => id \in lost)
  <2>1. PICK k \in Slots(q) : InSlot(q, k) = t
    BY DEF Members
  <2>2. InSlot(p, g(k)).id = InSlot(p, z).id => InSlot(p, z).id \in lost
    BY <1>2, <1>3, <2>1 DEF Neat
  <2>3. QED BY <1>2, <1>3, <1>5, <2>1, <2>2
<1>7. ASSUME NEW k \in Slots(q), NEW l \in Slots(q), k # l, InSlot(q, k).id = InSlot(q, l).id PROVE InSlot(q, k).id \in lost
  BY <1>3, <1>4, <1>7 DEF Neat
<1>8. ASSUME Slots(q) # {} PROVE Members(q) # {}
  BY <1>8 DEF Members
<1>9. QED BY <1>3, <1>6, <1>7, <1>8 DEF Neat

\* The sessions of the store.
LEMMA EntriesFacts ==
  ASSUME NEW ps \in Seq(Project)
  PROVE  /\ \A i \in DOMAIN ps : \A s \in Members(ps[i]) : <<ps[i].path, s>> \in Entries(ps)
         /\ \A e \in Entries(ps) : \E i \in DOMAIN ps : \E s \in Members(ps[i]) : e = <<ps[i].path, s>>
         /\ \A e \in Entries(ps) : e = <<e[1], e[2]>> /\ e[1] \in Paths /\ e[2] \in Session
<1>1. \A i \in DOMAIN ps : ps[i] \in Project /\ ps[i].path \in Paths /\ Members(ps[i]) \subseteq Session
  <2>1. \A i \in DOMAIN ps : ps[i] \in Project
    OBVIOUS
  <2>2. QED BY <2>1, SlotFacts DEF Project
<1>2. \A i \in DOMAIN ps : \A s \in Members(ps[i]) : <<ps[i].path, s>> \in Entries(ps)
  BY DEF Entries
<1>3. \A e \in Entries(ps) : \E i \in DOMAIN ps : \E s \in Members(ps[i]) : e = <<ps[i].path, s>>
  BY Zenon DEF Entries
<1>4. QED BY <1>1, <1>2, <1>3

\* Add puts a session under its root and keeps the store sound.
LEMMA AddFacts ==
  ASSUME NEW ps \in Seq(Project), NEW lost, Tidy(ps, lost), NEW s \in Session, NEW root \in Paths,
         \A e \in Entries(ps) : e[2].id = s.id => s.id \in lost /\ e[1] = root /\ e[2].host = s.host,
         NEW qs, qs = Add(ps, s, root)
  PROVE  /\ qs \in Seq(Project) /\ Tidy(qs, lost)
         /\ \A e \in Entries(qs) : e \in Entries(ps) \/ e = <<root, s>>
<1> DEFINE i == FindProjectIdx(ps, root, s.host)
           n == Len(ps)
<1>1. n \in Nat /\ DOMAIN ps = 1 .. n /\ \A j \in DOMAIN ps : ps[j] \in Project
  OBVIOUS
<1>2. \A j \in DOMAIN ps : \A t \in Members(ps[j]) :
        /\ t.id = s.id => s.id \in lost /\ ps[j].path = root /\ t.host = s.host
        /\ t.host = ProjectHost(ps[j])
  <2>1. \A j \in DOMAIN ps : \A t \in Members(ps[j]) : t.id = s.id => s.id \in lost /\ ps[j].path = root /\ t.host = s.host
    <3>1. ASSUME NEW j \in DOMAIN ps, NEW t \in Members(ps[j]), t.id = s.id PROVE s.id \in lost /\ ps[j].path = root /\ t.host = s.host
      <4>1. PICK e : e = <<ps[j].path, t>>
        OBVIOUS
      <4>2. e \in Entries(ps) /\ e[1] = ps[j].path /\ e[2] = t
        BY <4>1, EntriesFacts
      <4>3. QED BY <3>1, <4>2
    <3>2. QED BY <3>1
  <2>2. \A j \in DOMAIN ps : \A t \in Members(ps[j]) : t.host = ProjectHost(ps[j])
    BY <1>1, HostFacts DEF Tidy, Neat
  <2>3. QED BY <2>1, <2>2
<1>3. CASE i = 0
  <2> DEFINE new == [path |-> root, pm |-> NoSession, sessions |-> <<>>]
             q == Placed(new, s)
  <2>1. new \in Project /\ new.path = root /\ Slots(new) = {} /\ Members(new) = {}
    BY DEF Project, Slots, Members
  <2> HIDE DEF new
  <2>2. q \in Project /\ q.path = root /\ Neat(q, lost) /\ Members(q) \subseteq {s}
    <3>1. q \in Project /\ q.path = new.path /\ Neat(q, lost) /\ Members(q) \subseteq Members(new) \cup {s}
      BY <2>1, PlacedFacts
    <3>2. QED BY <2>1, <3>1
  <2>3. qs = Append(ps, q)
    BY <1>3 DEF Add, new
  <2> HIDE DEF q
  <2>4. /\ qs \in Seq(Project) /\ DOMAIN qs = 1 .. n + 1 /\ qs[n + 1] = q
        /\ \A j \in 1 .. n : qs[j] = ps[j]
    BY <1>1, <2>2, <2>3
  <2>5. \A j \in 1 .. n : ps[j].path = root => ProjectHost(ps[j]) # s.host
    BY <1>1, <1>3, FindProjectIdxFacts
  <2>6. ASSUME NEW j \in 1 .. n PROVE Separate(ps[j], q) /\ Separate(q, ps[j])
    BY <1>1, <1>2, <2>2, <2>5 DEF Separate
  <2>7. \A j \in DOMAIN qs : Neat(qs[j], lost)
    <3>1. \A j \in DOMAIN qs : j \in 1 .. n \/ j = n + 1
      BY <1>1, <2>4
    <3>2. QED BY <1>1, <2>2, <2>4, <3>1 DEF Tidy
  <2>8. ASSUME NEW j \in DOMAIN qs, NEW k \in DOMAIN qs, j # k PROVE Separate(qs[j], qs[k])
    <3>1. CASE j \in 1 .. n /\ k \in 1 .. n
      BY <1>1, <2>4, <2>8, <3>1 DEF Tidy
    <3>2. CASE j = n + 1 /\ k \in 1 .. n
      BY <2>4, <2>6, <3>2
    <3>3. CASE j \in 1 .. n /\ k = n + 1
      BY <2>4, <2>6, <3>3
    <3>4. QED BY <1>1, <2>4, <2>8, <3>1, <3>2, <3>3
  <2>9. ASSUME NEW e \in Entries(qs) PROVE e \in Entries(ps) \/ e = <<root, s>>
    <3>1a. PICK j \in DOMAIN qs : \E t \in Members(qs[j]) : e = <<qs[j].path, t>>
      BY <2>4, <2>9, EntriesFacts
    <3>1. PICK t \in Members(qs[j]) : e = <<qs[j].path, t>>
      BY <3>1a
    <3>2. CASE j \in 1 .. n
      BY <1>1, <2>4, <3>1, <3>2, EntriesFacts
    <3>3. CASE j = n + 1
      BY <2>2, <2>4, <3>1, <3>3
    <3>4. QED BY <1>1, <2>4, <3>2, <3>3
  <2>10. QED BY <2>4, <2>7, <2>8, <2>9 DEF Tidy
<1>4. CASE i # 0
  <2> DEFINE q == Placed(ps[i], s)
  <2>1. i \in DOMAIN ps /\ ps[i].path = root /\ ProjectHost(ps[i]) = s.host
    BY <1>4, FindProjectIdxFacts
  <2>2. qs = [ps EXCEPT ![i] = q]
    BY <1>4 DEF Add
  <2> HIDE DEF i
  <2>3. q \in Project /\ q.path = ps[i].path /\ Neat(q, lost) /\ Members(q) \subseteq Members(ps[i]) \cup {s}
    <3>1. \A k, l \in Slots(ps[i]) : k # l /\ InSlot(ps[i], k).id = InSlot(ps[i], l).id => InSlot(ps[i], k).id \in lost
      BY <2>1 DEF Tidy, Neat
    <3>2. \A t, u \in Members(ps[i]) : t.host = u.host
      BY <2>1 DEF Tidy, Neat
    <3>3. \A t \in Members(ps[i]) : t.host = s.host /\ (t.id = s.id => s.id \in lost)
      BY <1>2, <2>1
    <3>4. ps[i] \in Project
      BY <1>1, <2>1
    <3>5. QED BY <3>1, <3>2, <3>3, <3>4, PlacedFacts
  <2> HIDE DEF q
  <2>4. /\ qs \in Seq(Project) /\ DOMAIN qs = DOMAIN ps /\ qs[i] = q
        /\ \A j \in DOMAIN ps : j # i => qs[j] = ps[j]
    BY <1>1, <2>1, <2>2, <2>3
  <2>5. ASSUME NEW j \in DOMAIN ps, j # i PROVE Separate(ps[j], q) /\ Separate(q, ps[j])
    <3>1. Separate(ps[j], ps[i]) /\ Separate(ps[i], ps[j])
      BY <2>1, <2>5 DEF Tidy
    <3>2. PICK u \in Members(ps[i]) : TRUE
      BY <2>1 DEF Tidy, Neat
    <3>3. u.host = s.host
      BY <1>2, <2>1
    <3>4. \A t \in Members(ps[j]) : t.id # s.id /\ (ps[j].path = q.path => t.host # s.host)
      BY <1>2, <2>1, <2>3, <3>1, <3>3 DEF Separate
    <3>5. QED BY <2>3, <3>1, <3>4 DEF Separate
  <2>6. \A j \in DOMAIN qs : Neat(qs[j], lost)
    BY <2>3, <2>4 DEF Tidy
  <2>7. ASSUME NEW j \in DOMAIN qs, NEW k \in DOMAIN qs, j # k PROVE Separate(qs[j], qs[k])
    BY <2>4, <2>5, <2>7 DEF Tidy
  <2>8. ASSUME NEW e \in Entries(qs) PROVE e \in Entries(ps) \/ e = <<root, s>>
    <3>1a. PICK j \in DOMAIN qs : \E t \in Members(qs[j]) : e = <<qs[j].path, t>>
      BY <2>4, <2>8, EntriesFacts
    <3>1. PICK t \in Members(qs[j]) : e = <<qs[j].path, t>>
      BY <3>1a
    <3>2. (t = s /\ qs[j].path = root) \/ (t \in Members(ps[j]) /\ qs[j].path = ps[j].path)
      BY <2>1, <2>3, <2>4, <3>1
    <3>3. QED BY <2>4, <3>1, <3>2, EntriesFacts
  <2>9. QED BY <2>4, <2>6, <2>7, <2>8 DEF Tidy
<1>5. QED BY <1>3, <1>4

\* Remove takes a session away and keeps the store sound.
LEMMA RemoveFacts ==
  ASSUME NEW ps \in Seq(Project), NEW lost, Tidy(ps, lost), NEW id, NEW qs, qs = RemoveSession(ps, id)
  PROVE  /\ qs \in Seq(Project) /\ Tidy(qs, lost)
         /\ \A e \in Entries(qs) : e \in Entries(ps) /\ (e[2].id = id => id \in lost)
<1> DEFINE z == ProjectOf(ps, id)
           q == Without(ps[z], id)
           n == Len(ps)
<1>1. n \in Nat /\ DOMAIN ps = 1 .. n /\ \A j \in DOMAIN ps : ps[j] \in Project
  OBVIOUS
<1>2. CASE z = 0
  <2>1. qs = ps
    BY <1>2 DEF RemoveSession
  <2>2. ASSUME NEW e \in Entries(ps) PROVE e[2].id # id
    <3>1a. PICK j \in DOMAIN ps : \E t \in Members(ps[j]) : e = <<ps[j].path, t>>
      BY EntriesFacts
    <3>1. PICK t \in Members(ps[j]) : e = <<ps[j].path, t>>
      BY <3>1a
    <3>2. ~Has(ps[j], id)
      BY <1>2, ProjectOfFacts
    <3>3. QED BY <3>1, <3>2 DEF Has
  <2>3. QED BY <2>1, <2>2
<1>3. CASE z # 0
  <2>1. z \in 1 .. n /\ Has(ps[z], id)
    BY <1>1, <1>3, ProjectOfFacts
  <2>2. qs = IF Slots(q) = {} THEN RemoveAt(ps, z) ELSE [ps EXCEPT ![z] = q]
    BY <1>3 DEF RemoveSession
  <2> HIDE DEF z
  <2>3. /\ q \in Project /\ q.path = ps[z].path
        /\ \A t \in Members(q) : t \in Members(ps[z]) /\ (t.id = id => id \in lost)
        /\ Slots(q) # {} => Neat(q, lost)
    BY <1>1, <2>1, WithoutFacts DEF Tidy
  <2> HIDE DEF q
  <2>4. PICK u \in Members(ps[z]) : u.id = id
    BY <2>1 DEF Has
  <2>5. \A j \in DOMAIN ps : j # z => \A t \in Members(ps[j]) : t.id # id
    BY <1>1, <2>1, <2>4 DEF Tidy, Separate
  <2>6. \E f \in [DOMAIN qs -> DOMAIN ps] :
          /\ \A j, k \in DOMAIN qs : j # k => f[j] # f[k]
          /\ \A j \in DOMAIN qs : (qs[j] = ps[f[j]] /\ f[j] # z) \/ (qs[j] = q /\ f[j] = z /\ Slots(q) # {})
    <3>1. CASE Slots(q) = {}
      <4>1. /\ DOMAIN qs = 1 .. n - 1
            /\ \A j \in 1 .. z - 1 : qs[j] = ps[j]
            /\ \A j \in z .. n - 1 : qs[j] = ps[j + 1]
        BY <1>1, <2>1, <2>2, <3>1, RemoveAtFacts
      <4> DEFINE f == [j \in DOMAIN qs |-> IF j < z THEN j ELSE j + 1]
      <4>2. \A j \in DOMAIN qs : f[j] = (IF j < z THEN j ELSE j + 1) /\ f[j] \in 1 .. n /\ f[j] # z /\ qs[j] = ps[f[j]]
        BY <1>1, <2>1, <4>1
      <4>3. \A j, k \in DOMAIN qs : j # k => f[j] # f[k]
        BY <1>1, <2>1, <4>1
      <4>4. f \in [DOMAIN qs -> DOMAIN ps]
        BY <1>1, <4>2
      <4>5. QED BY <4>2, <4>3, <4>4
    <3>2. CASE Slots(q) # {}
      <4> DEFINE f == [j \in DOMAIN ps |-> j]
      <4>1. DOMAIN qs = DOMAIN ps /\ qs[z] = q /\ \A j \in DOMAIN ps : j # z => qs[j] = ps[j]
        BY <1>1, <2>1, <2>2, <3>2
      <4>2. f \in [DOMAIN qs -> DOMAIN ps] /\ \A j \in DOMAIN qs : f[j] = j
        BY <4>1
      <4>3. QED BY <3>2, <4>1, <4>2
    <3>3. QED BY <3>1, <3>2
  <2>7. PICK f \in [DOMAIN qs -> DOMAIN ps] :
          /\ \A j, k \in DOMAIN qs : j # k => f[j] # f[k]
          /\ \A j \in DOMAIN qs : (qs[j] = ps[f[j]] /\ f[j] # z) \/ (qs[j] = q /\ f[j] = z /\ Slots(q) # {})
    BY <2>6
  <2>8. qs \in Seq(Project)
    <3>1. CASE Slots(q) = {}
      BY <1>1, <2>1, <2>2, <3>1, RemoveAtFacts
    <3>2. CASE Slots(q) # {}
      BY <1>1, <2>1, <2>2, <2>3, <3>2
    <3>3. QED BY <3>1, <3>2
  <2>9. \A j \in DOMAIN qs : /\ Neat(qs[j], lost) /\ qs[j].path = ps[f[j]].path
                             /\ \A t \in Members(qs[j]) : t \in Members(ps[f[j]]) /\ (t.id = id => id \in lost)
    BY <2>3, <2>5, <2>7 DEF Tidy
  <2>10. \A j, k \in DOMAIN qs : j # k => Separate(qs[j], qs[k])
    <3>1. ASSUME NEW j \in DOMAIN qs, NEW k \in DOMAIN qs, j # k PROVE Separate(qs[j], qs[k])
      <4>1. Separate(ps[f[j]], ps[f[k]])
        BY <2>7, <3>1 DEF Tidy
      <4>2. QED BY <2>9, <4>1 DEF Separate
    <3>2. QED BY <3>1
  <2>11. ASSUME NEW e \in Entries(qs) PROVE e \in Entries(ps) /\ (e[2].id = id => id \in lost)
    <3>1a. PICK j \in DOMAIN qs : \E t \in Members(qs[j]) : e = <<qs[j].path, t>>
      BY <2>8, <2>11, EntriesFacts
    <3>1. PICK t \in Members(qs[j]) : e = <<qs[j].path, t>>
      BY <3>1a
    <3>2. f[j] \in DOMAIN ps /\ t \in Members(ps[f[j]]) /\ (t.id = id => id \in lost) /\ e = <<ps[f[j]].path, t>>
      BY <2>9, <3>1
    <3>3. QED BY <3>2, EntriesFacts
  <2>12. QED BY <2>8, <2>9, <2>10, <2>11 DEF Tidy
<1>4. QED BY <1>2, <1>3

\* A change of sessions in their places, to others of the same id and host,
\* keeps the store sound.
LEMMA RewrittenFacts ==
  ASSUME NEW ps \in Seq(Project), NEW qs \in Seq(Project), NEW lost, Tidy(ps, lost), DOMAIN qs = DOMAIN ps,
         NEW R, \A s, t : <<s, t>> \in R => t.id = s.id /\ t.host = s.host,
         \A i \in DOMAIN ps :
           /\ qs[i].path = ps[i].path /\ Slots(qs[i]) = Slots(ps[i])
           /\ \A k \in Slots(ps[i]) : <<InSlot(ps[i], k), InSlot(qs[i], k)>> \in R
  PROVE  /\ Tidy(qs, lost)
         /\ \A e \in Entries(qs) : \E o \in Entries(ps) : e[1] = o[1] /\ <<o[2], e[2]>> \in R
<1>1. \A i \in DOMAIN ps : \A k \in Slots(ps[i]) :
        InSlot(qs[i], k).id = InSlot(ps[i], k).id /\ InSlot(qs[i], k).host = InSlot(ps[i], k).host
  OBVIOUS
<1>2. ASSUME NEW i \in DOMAIN ps, NEW t \in Members(qs[i]) PROVE \E s \in Members(ps[i]) : <<s, t>> \in R
  BY <1>2 DEF Members
<1>3. ASSUME NEW i \in DOMAIN ps PROVE Neat(qs[i], lost)
  <2>1. Neat(ps[i], lost)
    BY DEF Tidy
  <2>2. Members(qs[i]) # {}
    BY <2>1 DEF Neat, Members
  <2>3. \A t, u \in Members(qs[i]) : t.host = u.host
    <3>1. ASSUME NEW t \in Members(qs[i]), NEW u \in Members(qs[i]) PROVE t.host = u.host
      <4>1. PICK v \in Members(ps[i]) : <<v, t>> \in R
        BY <1>2
      <4>2. PICK w \in Members(ps[i]) : <<w, u>> \in R
        BY <1>2
      <4>3. t.host = v.host /\ u.host = w.host
        BY <4>1, <4>2
      <4>4. QED BY <2>1, <4>3 DEF Neat
    <3>2. QED BY <3>1
  <2>4. \A k, l \in Slots(qs[i]) : k # l /\ InSlot(qs[i], k).id = InSlot(qs[i], l).id => InSlot(qs[i], k).id \in lost
    BY <1>1, <2>1 DEF Neat
  <2>5. QED BY <2>2, <2>3, <2>4 DEF Neat
<1>4. ASSUME NEW i \in DOMAIN ps, NEW j \in DOMAIN ps, i # j PROVE Separate(qs[i], qs[j])
  <2>1. Separate(ps[i], ps[j])
    BY <1>4 DEF Tidy
  <2>2. ASSUME NEW s \in Members(qs[i]), NEW t \in Members(qs[j]) PROVE s.id # t.id /\ (qs[i].path = qs[j].path => s.host # t.host)
    <3>1. PICK u \in Members(ps[i]) : <<u, s>> \in R
      BY <1>2
    <3>2. PICK v \in Members(ps[j]) : <<v, t>> \in R
      BY <1>2
    <3>3. s.id = u.id /\ s.host = u.host /\ t.id = v.id /\ t.host = v.host
      BY <3>1, <3>2
    <3>4. QED BY <2>1, <3>3 DEF Separate
  <2>3. QED BY <2>2 DEF Separate
<1>5. ASSUME NEW e \in Entries(qs) PROVE \E o \in Entries(ps) : e[1] = o[1] /\ <<o[2], e[2]>> \in R
  <2>1a. PICK j \in DOMAIN qs : \E t \in Members(qs[j]) : e = <<qs[j].path, t>>
    BY <1>5, EntriesFacts
  <2>1. PICK t \in Members(qs[j]) : e = <<qs[j].path, t>>
    BY <2>1a
  <2>2. PICK s \in Members(ps[j]) : <<s, t>> \in R
    BY <1>2
  <2>3. PICK o : o = <<ps[j].path, s>>
    OBVIOUS
  <2>4. o \in Entries(ps) /\ o[1] = e[1] /\ o[2] = s /\ e[2] = t
    BY <2>1, <2>3, EntriesFacts
  <2>5. QED BY <2>2, <2>4
<1>6. QED BY <1>3, <1>4, <1>5 DEF Tidy

\* What Updated makes of the store.
LEMMA UpdatedFacts ==
  ASSUME NEW ps \in Seq(Project), NEW f, NEW qs, qs = Updated(ps, f),
         \A e \in Entries(ps) : f[e[2]] \in Session
  PROVE  /\ qs \in Seq(Project) /\ DOMAIN qs = DOMAIN ps
         /\ \A i \in DOMAIN ps :
              /\ qs[i].path = ps[i].path /\ Slots(qs[i]) = Slots(ps[i])
              /\ \A k \in Slots(ps[i]) : InSlot(qs[i], k) = f[InSlot(ps[i], k)]
<1>1. DOMAIN ps = 1 .. Len(ps) /\ Len(ps) \in Nat /\ \A i \in DOMAIN ps : ps[i] \in Project
  OBVIOUS
<1>2. \A i \in DOMAIN ps : \A s \in Members(ps[i]) : f[s] \in Session
  <2>1. ASSUME NEW i \in DOMAIN ps, NEW s \in Members(ps[i]) PROVE f[s] \in Session
    <3>1. PICK e : e = <<ps[i].path, s>>
      OBVIOUS
    <3>2. e \in Entries(ps) /\ e[2] = s
      BY <3>1, EntriesFacts
    <3>3. QED BY <3>2
  <2>2. QED BY <2>1
<1>3. ASSUME NEW i \in DOMAIN ps
      PROVE  /\ qs[i] \in Project /\ qs[i].path = ps[i].path /\ Slots(qs[i]) = Slots(ps[i])
             /\ \A k \in Slots(ps[i]) : InSlot(qs[i], k) = f[InSlot(ps[i], k)]
  <2> DEFINE p == ps[i]
             l == [k \in DOMAIN p.sessions |-> f[p.sessions[k]]]
             m == IF p.pm = NoSession THEN p.pm ELSE f[p.pm]
  <2>1. /\ p.pm \in Session \cup {NoSession} /\ p.sessions \in Seq(Session) /\ DOMAIN p.sessions = 1 .. Len(p.sessions)
        /\ Len(p.sessions) \in Nat /\ p = [path |-> p.path, pm |-> p.pm, sessions |-> p.sessions] /\ p.path \in Paths
    BY <1>1 DEF Project
  <2>2. qs[i] = [path |-> p.path, pm |-> m, sessions |-> l]
    BY <2>1 DEF Updated
  <2>3. p \in Project
    BY <1>1
  <2>4. \A k \in DOMAIN p.sessions : p.sessions[k] \in Members(p)
    <3>1. ASSUME NEW k \in DOMAIN p.sessions PROVE p.sessions[k] \in Members(p)
      <4>1. k \in Slots(p) /\ InSlot(p, k) = p.sessions[k]
        BY <2>1 DEF Slots, InSlot
      <4>2. QED BY <4>1 DEF Members
    <3>2. QED BY <3>1
  <2>5. p.pm # NoSession => p.pm \in Members(p)
    <3>1. p.pm # NoSession => 0 \in Slots(p) /\ InSlot(p, 0) = p.pm
      BY DEF Slots, InSlot
    <3>2. QED BY <3>1 DEF Members
  <2>6. l \in Seq(Session) /\ DOMAIN l = DOMAIN p.sessions /\ \A k \in DOMAIN p.sessions : l[k] = f[p.sessions[k]]
    BY <1>2, <2>1, <2>4
  <2>7. m \in Session \cup {NoSession} /\ (m = NoSession <=> p.pm = NoSession) /\ (p.pm # NoSession => m = f[p.pm])
    BY <1>2, <2>5, ConstantsAssumption
  <2> HIDE DEF l, m
  <2>8. qs[i] \in Project /\ qs[i].path = p.path
    BY <2>1, <2>2, <2>6, <2>7 DEF Project
  <2>9. Slots(qs[i]) = Slots(p)
    BY <2>2, <2>6, <2>7 DEF Slots
  <2>10. \A k \in Slots(p) : InSlot(qs[i], k) = f[InSlot(p, k)]
    BY <2>2, <2>6, <2>7 DEF Slots, InSlot
  <2>11. QED BY <2>8, <2>9, <2>10
<1>4. DOMAIN qs = DOMAIN ps
  BY DEF Updated
<1>5. qs \in Seq(Project)
  <2>1. qs = [i \in 1 .. Len(ps) |-> qs[i]]
    BY <1>1 DEF Updated
  <2>2. \A i \in 1 .. Len(ps) : qs[i] \in Project
    BY <1>1, <1>3
  <2>3. QED BY <1>1, <2>1, <2>2
<1>6. QED BY <1>3, <1>4, <1>5

\* What Renamed makes of a project.
LEMMA RenamedFacts ==
  ASSUME NEW p \in Project, NEW id, Has(p, id), NEW name \in Names, NEW q, q = Renamed(p, id, name)
  PROVE  /\ q \in Project /\ q.path = p.path /\ Slots(q) = Slots(p)
         /\ \A k \in Slots(p) : InSlot(q, k) \in {InSlot(p, k), [InSlot(p, k) EXCEPT !.name = name]}
<1>1. /\ p.pm \in Session \cup {NoSession} /\ p.sessions \in Seq(Session) /\ DOMAIN p.sessions = 1 .. Len(p.sessions)
      /\ Len(p.sessions) \in Nat /\ p = [path |-> p.path, pm |-> p.pm, sessions |-> p.sessions] /\ p.path \in Paths
  BY DEF Project
<1>2. PICK z : z = SlotOf(p, id) /\ z \in Slots(p)
  BY SlotOfFacts
<1>3. \A s \in Session : [s EXCEPT !.name = name] \in Session
  BY DEF Session
<1>4. CASE z = 0
  <2>1. PICK m : m = [p.pm EXCEPT !.name = name]
    OBVIOUS
  <2>2. q = [path |-> p.path, pm |-> m, sessions |-> p.sessions]
    BY <1>1, <1>2, <1>4, <2>1 DEF Renamed
  <2>3. p.pm # NoSession /\ m \in Session /\ m # NoSession
    BY <1>1, <1>2, <1>3, <1>4, <2>1, SlotFacts, ConstantsAssumption
  <2>4. q \in Project /\ q.path = p.path
    BY <1>1, <2>2, <2>3 DEF Project
  <2>5. Slots(q) = Slots(p)
    BY <2>2, <2>3 DEF Slots
  <2>6. \A k \in Slots(p) : InSlot(q, k) \in {InSlot(p, k), [InSlot(p, k) EXCEPT !.name = name]}
    BY <2>1, <2>2 DEF InSlot
  <2>7. QED BY <2>4, <2>5, <2>6
<1>5. CASE z # 0
  <2>1. z \in 1 .. Len(p.sessions)
    BY <1>2, <1>5, SlotFacts
  <2>2. PICK m, ss : m = [p.sessions[z] EXCEPT !.name = name] /\ ss = [p.sessions EXCEPT ![z] = m]
    OBVIOUS
  <2>3. q = [path |-> p.path, pm |-> p.pm, sessions |-> ss]
    <3>1. q = [p EXCEPT !.sessions = [p.sessions EXCEPT ![z] = [p.sessions[z] EXCEPT !.name = name]]]
      BY <1>1, <1>2, <1>5, <2>1 DEF Renamed
    <3>2. q = [p EXCEPT !.sessions = ss]
      BY <2>2, <3>1, Zenon
    <3>3. QED BY <1>1, <3>2
  <2>4. m \in Session
    BY <1>1, <1>3, <2>1, <2>2
  <2>5. /\ ss \in Seq(Session) /\ DOMAIN ss = DOMAIN p.sessions
        /\ \A k \in DOMAIN ss : ss[k] = IF k = z THEN m ELSE p.sessions[k]
    BY <1>1, <2>1, <2>2, <2>4
  <2>6. q \in Project /\ q.path = p.path
    BY <1>1, <2>3, <2>5 DEF Project
  <2>7. Slots(q) = Slots(p)
    BY <2>3, <2>5 DEF Slots
  <2>8. \A k \in Slots(p) : InSlot(q, k) \in {InSlot(p, k), [InSlot(p, k) EXCEPT !.name = name]}
    <3>1. ASSUME NEW k \in Slots(p) PROVE InSlot(q, k) \in {InSlot(p, k), [InSlot(p, k) EXCEPT !.name = name]}
      <4>1. CASE k = 0
        BY <2>3, <4>1 DEF InSlot
      <4>2. CASE k # 0
        <5>1. k \in DOMAIN p.sessions
          BY <4>2 DEF Slots
        <5>2. QED BY <2>2, <2>3, <2>5, <4>2, <5>1 DEF InSlot
      <4>3. QED BY <4>1, <4>2
    <3>2. QED BY <3>1
  <2>9. QED BY <2>6, <2>7, <2>8
<1>6. QED BY <1>4, <1>5

-----------------------------------------------------------------------------
(* The operations of the manager keep TreeInv.                             *)

\* What a step does to windows: they keep their names, and their number grows.
WindowsStep ==
  /\ windows' \in Seq(Window) /\ Len(windows') =< MaxWindows
  /\ \A w \in DOMAIN windows : w \in DOMAIN windows' /\ windows'[w].id = windows[w].id

\* What every operation does: a session that was in the store stays in its
\* project, another has a new id or is resumed by the name of its worktree.
TreeStep ==
  /\ TreeInv' /\ WindowsStep /\ used \subseteq used' /\ (byName => byName')
  /\ \A e \in Entries(projects') :
       \/ \E o \in Entries(projects) : e[1] = o[1] /\ e[2].id = o[2].id /\ e[2].host = o[2].host
       \/ e[2].id \notin used
       \/ byName' /\ e[2].host = Local

\* No two workers of different ids have one directory.
Apart(es, os) ==
  \A e \in es, o \in os : Worker(e[2]) /\ Worker(o[2]) /\ e[2].id # o[2].id => e[2].path # o[2].path

\* The windows with the same names as now.
SameWindows(wins) ==
  wins \in Seq(Window) /\ Len(wins) = Len(windows) /\ \A w \in DOMAIN windows : wins[w].id = windows[w].id

\* A window made for a session remains so.
LEMMA ItsKept ==
  ASSUME WindowsStep, NEW w, NEW id, Its(w, id)
  PROVE  Its(w, id)'
BY DEF Its, WindowsStep

\* The parts of the types of the store.
LEMMA TreeTypes ==
  ASSUME TreeInv
  PROVE  /\ projects \in Seq(Project) /\ windows \in Seq(Window) /\ Len(windows) =< MaxWindows /\ MaxWindows \in Nat
         /\ dirs \subseteq Dirs \X Trees /\ used \subseteq Ids /\ unsaved \subseteq Ids
         /\ renamed \in BOOLEAN /\ byName \in BOOLEAN
BY ConstantsAssumption DEF TreeInv, TreeTypeOK

\* A pane that exits or a window that goes keeps its name.
LEMMA SetFacts ==
  ASSUME TreeInv, NEW w \in DOMAIN windows, NEW state \in {"alive", "dead", "gone"}
  PROVE  SameWindows(Set(w, state))
<1>1. windows \in Seq(Window) /\ windows[w] \in Window
  BY TreeTypes
<1>2. PICK x : x = [windows[w] EXCEPT !.pane = state]
  OBVIOUS
<1>3. x \in Window /\ x.id = windows[w].id
  BY <1>1, <1>2 DEF Window
<1>4. Set(w, state) = [windows EXCEPT ![w] = x]
  BY <1>2 DEF Set
<1>5. QED BY <1>1, <1>3, <1>4 DEF SameWindows

\* So does every window when a session's is killed.
LEMMA AfterKillFacts ==
  ASSUME TreeInv, NEW s, NEW wins \in AfterKill(s)
  PROVE  SameWindows(wins)
<1>1. SameWindows(windows)
  BY TreeTypes DEF SameWindows
<1>2. wins = windows \/ \E w \in Targets(s) : wins = Set(w, "gone")
  BY DEF AfterKill
<1>3. \A w \in Targets(s) : w \in DOMAIN windows
  BY DEF Targets, Named, Open
<1>4. \A w \in Targets(s) : SameWindows(Set(w, "gone"))
  BY <1>3, SetFacts
<1>5. QED BY <1>1, <1>2, <1>4

\* The windows after a step that makes none, or one.
LEMMA WindowsKept ==
  ASSUME TreeInv, NEW wins, SameWindows(wins), windows' = wins
  PROVE  WindowsStep
BY TreeTypes DEF SameWindows, WindowsStep

\* The new window has the last number.
LEMMA WindowMade ==
  ASSUME TreeInv, NEW wins, SameWindows(wins), NEW id \in Ids, Len(wins) < MaxWindows, windows' = With(wins, id)
  PROVE  WindowsStep /\ \E n \in Windows : n = Len(windows') /\ Its(n, id)'
<1> DEFINE x == [id |-> id, pane |-> "alive"]
<1>1. x \in Window /\ x.id = id
  BY DEF Window
<1>2. windows' = Append(wins, x)
  BY DEF With
<1> HIDE DEF x
<1>3. wins \in Seq(Window) /\ Len(wins) = Len(windows) /\ windows \in Seq(Window) /\ MaxWindows \in Nat
  BY TreeTypes DEF SameWindows
<1>4. /\ windows' \in Seq(Window) /\ Len(windows') = Len(wins) + 1 /\ windows'[Len(wins) + 1] = x
      /\ \A w \in 1 .. Len(wins) : windows'[w] = wins[w]
  BY <1>1, <1>2, <1>3
<1>5. Len(windows') \in Windows /\ Len(windows') =< MaxWindows
  BY <1>3, <1>4 DEF Windows
<1>6. WindowsStep
  BY <1>3, <1>4, <1>5 DEF WindowsStep, SameWindows
<1>7. PICK n \in Windows : n = Len(windows')
  BY <1>5
<1>8. n \in DOMAIN windows' /\ windows'[n].id = id
  BY <1>1, <1>3, <1>4, <1>7
<1>9. Its(n, id)'
  BY <1>8 DEF Its
<1>10. QED BY <1>6, <1>7, <1>9

\* TreeInv, seen from the entries.
LEMMA TreeFacts ==
  ASSUME TreeInv
  PROVE  /\ projects \in Seq(Project) /\ Tidy(projects, unsaved)
         /\ \A s : s \in All <=> \E e \in Entries(projects) : e[2] = s
         /\ \A e \in Entries(projects) : e[2] \in Session /\ e[1] \in Paths /\ e[2].id \in used /\ EntryOK(e)
<1>1. projects \in Seq(Project)
  BY TreeTypes
<1>2. Tidy(projects, unsaved)
  BY <1>1, SoundIsTidy DEF TreeInv, ProjectsAreSound
<1>3. \A s : s \in All => \E e \in Entries(projects) : e[2] = s
  <2>1. ASSUME NEW s \in All PROVE \E e \in Entries(projects) : e[2] = s
    <3>1. PICK i \in DOMAIN projects : s \in Members(projects[i])
      BY DEF All
    <3>2. <<projects[i].path, s>> \in Entries(projects)
      BY <1>1, <3>1, EntriesFacts
    <3>3. QED BY <3>2
  <2>2. QED BY <2>1
<1>4. \A e \in Entries(projects) : e[2] \in All
  <2>1. ASSUME NEW e \in Entries(projects) PROVE e[2] \in All
    <3>1. PICK i \in DOMAIN projects : \E s \in Members(projects[i]) : e = <<projects[i].path, s>>
      BY <1>1, EntriesFacts
    <3>2. e[2] \in Members(projects[i])
      BY <3>1
    <3>3. QED BY <3>2 DEF All
  <2>2. QED BY <2>1
<1>5. \A e \in Entries(projects) : e[2] \in Session /\ e[1] \in Paths
  BY <1>1, EntriesFacts
<1>6. \A e \in Entries(projects) : EntryOK(e)
  BY DEF TreeInv, EntriesInv
<1>7. \A e \in Entries(projects) : e[2].id \in used
  BY <1>6 DEF EntryOK
<1>8. QED BY <1>1, <1>2, <1>3, <1>4, <1>5, <1>6, <1>7

\* Workers of the store are apart.
LEMMA ApartFacts == ASSUME TreeInv, ~renamed, ~byName PROVE Apart(Entries(projects), Entries(projects))
<1>1. \A e \in Entries(projects) : e[2] \in All
  BY TreeFacts
<1>2. QED BY <1>1 DEF TreeInv, WorktreeHasOneSession, Apart, Worker

\* What FindByID finds.
LEMMA FindByIDFacts ==
  ASSUME TreeInv, NEW id
  PROVE  /\ FindByID(id) = NoSession => \A e \in Entries(projects) : e[2].id # id
         /\ FindByID(id) # NoSession =>
              LET i == FindProjectForSession(id) s == FindByID(id)
              IN i \in DOMAIN projects /\ s \in Session /\ s.id = id /\ <<projects[i].path, s>> \in Entries(projects)
<1> DEFINE i == FindProjectForSession(id)
<1>1. projects \in Seq(Project)
  BY TreeFacts
<1>2. i = ProjectOf(projects, id)
  BY DEF FindProjectForSession
<1>3. FindByID(id) = IF i = 0 THEN NoSession ELSE InSlot(projects[i], SlotOf(projects[i], id))
  BY DEF FindByID
<1> HIDE DEF i
<1>4. ASSUME i = 0, NEW e \in Entries(projects) PROVE e[2].id # id
  <2>1. PICK j \in DOMAIN projects : \E s \in Members(projects[j]) : e = <<projects[j].path, s>>
    BY <1>1, EntriesFacts
  <2>2. ~Has(projects[j], id)
    BY <1>1, <1>2, <1>4, ProjectOfFacts
  <2>3. QED BY <2>1, <2>2 DEF Has
<1>5. ASSUME i # 0
      PROVE  i \in DOMAIN projects /\ FindByID(id) \in Session /\ FindByID(id).id = id
             /\ <<projects[i].path, FindByID(id)>> \in Entries(projects)
  <2>1. i \in DOMAIN projects /\ Has(projects[i], id)
    BY <1>1, <1>2, <1>5, ProjectOfFacts
  <2>2. projects[i] \in Project
    BY <1>1, <2>1
  <2>3. SlotOf(projects[i], id) \in Slots(projects[i]) /\ InSlot(projects[i], SlotOf(projects[i], id)).id = id
    BY <2>1, <2>2, SlotOfFacts
  <2>4. FindByID(id) = InSlot(projects[i], SlotOf(projects[i], id))
    BY <1>3, <1>5
  <2>5. FindByID(id) \in Session /\ FindByID(id) \in Members(projects[i])
    BY <2>2, <2>3, <2>4, SlotFacts
  <2>6. QED BY <1>1, <2>1, <2>3, <2>4, <2>5, EntriesFacts
<1>6. i = 0 => FindByID(id) = NoSession
  BY <1>3
<1>7. NoSession \notin Session
  BY ConstantsAssumption
<1>8. QED BY <1>4, <1>5, <1>6, <1>7 DEF i

\* The parts of TreeInv' from the entries after a step.
LEMMA TreeInvNext ==
  ASSUME WindowsStep,
         projects' \in Seq(Project), Tidy(projects', unsaved'),
         dirs' \subseteq Dirs \X Trees, used' \subseteq Ids, unsaved' \subseteq Ids, renamed' \in BOOLEAN, byName' \in BOOLEAN,
         \A e \in Entries(projects') : EntryOK(e)',
         ~renamed' /\ ~byName' => Apart(Entries(projects'), Entries(projects'))
  PROVE  TreeInv'
<1>1. TreeTypeOK'
  BY DEF TreeTypeOK, WindowsStep
<1>2. ProjectsAreSound'
  BY SoundIsTidy DEF ProjectsAreSound
<1>3. EntriesInv'
  BY DEF EntriesInv
<1>4. WorktreeHasOneSession'
  <2>1. ASSUME NEW s \in All' PROVE \E e \in Entries(projects') : e[2] = s
    <3>1. PICK i \in DOMAIN projects' : s \in Members(projects'[i])
      BY DEF All
    <3>2. <<projects'[i].path, s>> \in Entries(projects')
      BY <3>1, EntriesFacts
    <3>3. QED BY <3>2
  <2>2. ASSUME ~renamed', ~byName', NEW s \in All', NEW t \in All', Worker(s), Worker(t), s.id # t.id
        PROVE  s.path # t.path
    <3>1. PICK e \in Entries(projects') : e[2] = s
      BY <2>1
    <3>2. PICK o \in Entries(projects') : o[2] = t
      BY <2>1
    <3>3. QED BY <2>2, <3>1, <3>2 DEF Apart
  <2>3. QED BY <2>2 DEF WorktreeHasOneSession, Worker
<1>5. QED BY <1>1, <1>2, <1>3, <1>4 DEF TreeInv

\* The records of a session are in one project.
LEMMA OneProject ==
  ASSUME TreeInv, NEW e \in Entries(projects), NEW o \in Entries(projects), e[2].id = o[2].id
  PROVE  e[1] = o[1] /\ e[2].host = o[2].host
<1>1. projects \in Seq(Project) /\ Tidy(projects, unsaved)
  BY TreeFacts
<1>2. PICK i \in DOMAIN projects : \E s \in Members(projects[i]) : e = <<projects[i].path, s>>
  BY <1>1, EntriesFacts
<1>3. PICK j \in DOMAIN projects : \E s \in Members(projects[j]) : o = <<projects[j].path, s>>
  BY <1>1, EntriesFacts
<1>4. PICK s \in Members(projects[i]) : e = <<projects[i].path, s>>
  BY <1>2
<1>5. PICK t \in Members(projects[j]) : o = <<projects[j].path, t>>
  BY <1>3
<1>6. e[2] = s /\ o[2] = t /\ s.id = t.id /\ e[1] = projects[i].path /\ o[1] = projects[j].path
  BY <1>4, <1>5
<1>7. i = j
  BY <1>1, <1>6 DEF Tidy, Separate
<1>8. s.host = t.host
  BY <1>1, <1>7 DEF Tidy, Neat
<1>9. QED BY <1>6, <1>7, <1>8

\* An entry that a step leaves is well formed after it.
LEMMA EntryKept ==
  ASSUME TreeInv, WindowsStep, used \subseteq used', renamed => renamed', NEW e \in Entries(projects)
  PROVE  EntryOK(e)'
<1>1. EntryOK(e)
  BY TreeFacts
<1>2. Its(e[2].window, e[2].id)'
  BY <1>1, ItsKept DEF EntryOK
<1>3. QED BY <1>1, <1>2 DEF EntryOK

\* A step that takes entries away and adds some.
LEMMA EntriesStep ==
  ASSUME TreeInv, WindowsStep, projects' \in Seq(Project), Tidy(projects', unsaved'),
         dirs' \subseteq Dirs \X Trees, used \subseteq used', used' \subseteq Ids, unsaved' \subseteq Ids,
         renamed' = renamed, byName' \in BOOLEAN, byName => byName',
         NEW added, \A e \in Entries(projects') : e \in Entries(projects) \/ e \in added,
         \A e \in added : EntryOK(e)',
         ~renamed /\ ~byName' => Apart(added, Entries(projects)) /\ Apart(added, added)
  PROVE  TreeInv'
<1>1. \A e \in Entries(projects') : EntryOK(e)'
  BY EntryKept
<1>2. ASSUME ~renamed', ~byName' PROVE Apart(Entries(projects'), Entries(projects'))
  <2>1. Apart(Entries(projects), Entries(projects)) /\ Apart(added, Entries(projects)) /\ Apart(added, added)
    BY <1>2, ApartFacts
  <2>2. QED BY <2>1 DEF Apart
<1>3. renamed' \in BOOLEAN
  BY TreeTypes
<1>4. QED BY <1>1, <1>2, <1>3, TreeInvNext

\* A session of a name that is free has a worktree of its own.
LEMMA NameFacts ==
  ASSUME TreeInv, NEW s \in Session, s.path[2] = s.name, ~NameTaken(s.name), ~renamed
  PROVE  \A e \in Entries(projects) : Worker(e[2]) => e[2].path # s.path
<1>1. ASSUME NEW e \in Entries(projects), Worker(e[2]) PROVE e[2].path # s.path
  <2>1. e[2] \in All /\ EntryOK(e)
    BY TreeFacts
  <2>2. e[2].name # s.name
    BY <2>1 DEF NameTaken
  <2>3. e[2].path[2] = e[2].name
    BY <1>1, <2>1 DEF EntryOK
  <2>4. QED BY <2>2, <2>3
<1>2. QED BY <1>1

\* A session of an id that the store does not have gets a window and a record.
LEMMA PutStep ==
  ASSUME TreeInv, NEW s \in Session, NEW root \in Paths, \A e \in Entries(projects) : e[2].id # s.id,
         WindowsStep, projects' = Add(projects, s, root), unsaved' = unsaved,
         s.id \in used', used \subseteq used', used' \subseteq Ids, dirs' \subseteq Dirs \X Trees,
         renamed' = renamed, byName' \in BOOLEAN, byName => byName',
         s.host = Local => root[2] = NoTree,
         Worker(s) => renamed \/ s.path[2] = s.name,
         Its(s.window, s.id)',
         Worker(s) /\ ~renamed /\ ~byName' => \A e \in Entries(projects) : Worker(e[2]) => e[2].path # s.path
  PROVE  TreeInv' /\ \A e \in Entries(projects') : e \in Entries(projects) \/ e = <<root, s>>
<1>1. projects \in Seq(Project) /\ Tidy(projects, unsaved)
  BY TreeFacts
<1>2. /\ projects' \in Seq(Project) /\ Tidy(projects', unsaved')
      /\ \A e \in Entries(projects') : e \in Entries(projects) \/ e = <<root, s>>
  BY <1>1, AddFacts
<1>3a. PICK x : x = <<root, s>>
  OBVIOUS
<1>3. x = <<root, s>> /\ x[1] = root /\ x[2] = s
  BY <1>3a
<1>4. EntryOK(x)'
  BY <1>3 DEF EntryOK
<1>5. ~renamed /\ ~byName' => Apart({x}, Entries(projects)) /\ Apart({x}, {x})
  BY <1>3 DEF Apart
<1>6. \A e \in Entries(projects') : e \in Entries(projects) \/ e \in {x}
  BY <1>2, <1>3
<1>7. unsaved' \subseteq Ids
  BY TreeTypes
<1>8. TreeInv'
  BY <1>2, <1>4, <1>5, <1>6, <1>7, EntriesStep
<1>9. QED BY <1>2, <1>8

\* A new session of this machine.
LEMMA LaunchStep ==
  ASSUME TreeInv, NEW s \in Session, NEW root \in Paths, root[2] = NoTree, s.host = Local, s.window = 0,
         Fresh(s.id), Launch(s, root), dirs' \subseteq Dirs \X Trees, UNCHANGED <<renamed, byName, unsaved>>,
         Worker(s) => s.path[2] = s.name /\ ~NameTaken(s.name)
  PROVE  TreeStep /\ Lives(s.id, root)' /\ s.id \in used'
<1>1. \A e \in Entries(projects) : e[2].id \in used
  BY TreeFacts
<1>2. /\ s.id \notin used /\ s.id \in used' /\ used \subseteq used' /\ used' \subseteq Ids /\ s.id \in Ids
      /\ \A e \in Entries(projects) : e[2].id # s.id
  BY <1>1, TreeTypes DEF Fresh, Session
<1>3. WindowsStep /\ projects' = Add(projects, s, root)
  <2>1. SameWindows(windows)
    BY TreeTypes DEF SameWindows
  <2>2. QED BY <1>2, <2>1, WindowMade DEF Launch
<1>4. byName' \in BOOLEAN
  BY TreeTypes
<1>5. Worker(s) /\ ~renamed => \A e \in Entries(projects) : Worker(e[2]) => e[2].path # s.path
  BY NameFacts
<1>6. Its(s.window, s.id)'
  BY DEF Its
<1>7. TreeInv' /\ \A e \in Entries(projects') : e \in Entries(projects) \/ e = <<root, s>>
  BY <1>2, <1>3, <1>4, <1>5, <1>6, PutStep
<1>8. ASSUME NEW e \in Entries(projects')
      PROVE  /\ e[2].id = s.id => e[1] = root /\ e[2].host = Local
             /\ (\E o \in Entries(projects) : e[1] = o[1] /\ e[2].id = o[2].id /\ e[2].host = o[2].host) \/ e[2].id \notin used
  <2>1. CASE e \in Entries(projects)
    BY <1>2, <2>1
  <2>2. CASE e = <<root, s>>
    BY <1>2, <2>2
  <2>3. QED BY <1>7, <2>1, <2>2
<1>9. QED BY <1>2, <1>3, <1>7, <1>8 DEF TreeStep, Lives

\* GenerateName gives a name.
LEMMA GenerateNameFacts == ASSUME NEW path \in Paths PROVE GenerateName(path) \in Names
<1> DEFINE I == {k \in 1 .. Cardinality(Ids) : ~NameTaken(<<path[1], k>>)}
<1>1. I \subseteq Nat
  OBVIOUS
<1>2. FirstOf(I) \in Nat
  <2>1. I = {} => FirstOf(I) = 0
    BY <1>1, FirstFacts
  <2>2. I # {} => FirstOf(I) \in I
    BY <1>1, FirstFacts
  <2>3. 0 \in Nat
    OBVIOUS
  <2>4. QED BY <1>1, <2>1, <2>2, <2>3, Zenon
<1>3. GenerateName(path) = <<path[1], FirstOf(I)>>
  BY DEF GenerateName
<1>4. path[1] \in Dirs
  BY DEF Paths
<1>5. QED BY <1>2, <1>3, <1>4 DEF Names, Generated

\* Records of the manager are sessions.
LEMMA NewSessionFacts ==
  ASSUME NEW id \in Ids, NEW name \in Names, NEW path \in Paths, NEW role \in {"none", "pm", "worker"}
  PROVE  LET s == NewSession(id, name, path, role)
         IN s \in Session /\ s.id = id /\ s.name = name /\ s.path = path /\ s.role = role /\ s.host = Local /\ s.window = 0
BY DEF NewSession, Session, Hosts

\* Create puts a session under the root of its path.
LEMMA CreateStep ==
  ASSUME TreeInv, NEW id \in Ids, NEW path \in Paths, Create(id, path)
  PROVE  TreeStep /\ Lives(id, InferProjectRoot(path))' /\ id \in used'
<1>1. PICK s : s = NewSession(id, GenerateName(path), path, "none")
  OBVIOUS
<1>2. s \in Session /\ s.id = id /\ s.role = "none" /\ s.host = Local /\ s.window = 0
  BY <1>1, GenerateNameFacts, NewSessionFacts
<1>3. InferProjectRoot(path) \in Paths /\ InferProjectRoot(path)[2] = NoTree
  BY DEF InferProjectRoot, Paths
<1>4. Fresh(s.id) /\ Launch(s, InferProjectRoot(path)) /\ UNCHANGED <<dirs, renamed, byName, unsaved>>
  BY <1>1, <1>2 DEF Create
<1>5. ~Worker(s)
  BY <1>2 DEF Worker
<1>6. dirs' \subseteq Dirs \X Trees
  BY <1>4, TreeTypes
<1>7. TreeStep /\ Lives(s.id, InferProjectRoot(path))' /\ s.id \in used'
  BY <1>2, <1>3, <1>4, <1>5, <1>6, LaunchStep
<1>8. QED BY <1>2, <1>7

\* What a worktree session is.
LEMMA WorktreeStep ==
  ASSUME TreeInv, NEW id \in Ids, NEW name \in Trees, NEW root \in Paths, root[2] = NoTree, ~NameTaken(name),
         Fresh(id), Launch(NewSession(id, name, <<root[1], name>>, "worker"), root),
         dirs' \subseteq Dirs \X Trees, UNCHANGED <<renamed, byName, unsaved>>
  PROVE  TreeStep /\ Lives(id, root)' /\ id \in used'
<1>0. PICK s : s = NewSession(id, name, <<root[1], name>>, "worker")
  OBVIOUS
<1>1. <<root[1], name>> \in Paths /\ name \in Names
  BY DEF Paths, Names
<1>2. s \in Session /\ s.id = id /\ s.name = name /\ s.path = <<root[1], name>> /\ s.host = Local /\ s.window = 0
  BY <1>0, <1>1, NewSessionFacts
<1>3. s.path[2] = s.name /\ ~NameTaken(s.name) /\ Fresh(s.id) /\ Launch(s, root)
  BY <1>0, <1>2
<1>4. TreeStep /\ Lives(s.id, root)' /\ s.id \in used'
  BY <1>2, <1>3, LaunchStep
<1>5. QED BY <1>2, <1>4

\* A step that only takes away keeps everything.
LEMMA LessStep ==
  ASSUME TreeInv, projects' \in Seq(Project), Tidy(projects', unsaved), Entries(projects') \subseteq Entries(projects),
         WindowsStep, UNCHANGED <<used, renamed, byName, unsaved>>, dirs' \subseteq Dirs \X Trees
  PROVE  TreeStep
<1>1. used' \subseteq Ids /\ unsaved' \subseteq Ids /\ byName' \in BOOLEAN
  BY TreeTypes
<1>2. Apart({}, Entries(projects)) /\ Apart({}, {})
  BY DEF Apart
<1>3. TreeInv'
  BY <1>1, <1>2, EntriesStep
<1>4. QED BY <1>3 DEF TreeStep

\* A step that leaves windows alone.
LEMMA SameWindowsStep == ASSUME TreeInv, windows' = windows PROVE WindowsStep
BY TreeTypes DEF WindowsStep

\* A step that changes names and windows of sessions in their places.
LEMMA UpdateStep ==
  ASSUME TreeInv, projects' \in Seq(Project), DOMAIN projects' = DOMAIN projects,
         UNCHANGED <<windows, dirs, used, byName, unsaved>>, renamed' \in BOOLEAN, renamed => renamed',
         \A i \in DOMAIN projects :
           /\ projects'[i].path = projects[i].path /\ Slots(projects'[i]) = Slots(projects[i])
           /\ \A k \in Slots(projects[i]) :
                LET s == InSlot(projects[i], k) t == InSlot(projects'[i], k)
                IN /\ t.id = s.id /\ t.host = s.host /\ t.role = s.role /\ t.path = s.path
                   /\ renamed' \/ t.name = s.name
                   /\ t.window = s.window \/ Its(t.window, t.id)
  PROVE  TreeStep
<1>1. projects \in Seq(Project) /\ Tidy(projects, unsaved)
  BY TreeFacts
<1>2. WindowsStep
  BY SameWindowsStep
<1>3. PICK R : R = UNION {{<<InSlot(projects[i], k), InSlot(projects'[i], k)>> : k \in Slots(projects[i])} : i \in DOMAIN projects}
  BY Zenon
<1>4. \A s, t : <<s, t>> \in R =>
        /\ t.id = s.id /\ t.host = s.host /\ t.role = s.role /\ t.path = s.path
        /\ renamed' \/ t.name = s.name
        /\ t.window = s.window \/ Its(t.window, t.id)
  <2>1. ASSUME NEW s, NEW t, <<s, t>> \in R
        PROVE  /\ t.id = s.id /\ t.host = s.host /\ t.role = s.role /\ t.path = s.path
               /\ renamed' \/ t.name = s.name
               /\ t.window = s.window \/ Its(t.window, t.id)
    <3>1. PICK i \in DOMAIN projects : \E k \in Slots(projects[i]) : <<s, t>> = <<InSlot(projects[i], k), InSlot(projects'[i], k)>>
      BY <1>3, <2>1
    <3>2. PICK k \in Slots(projects[i]) : s = InSlot(projects[i], k) /\ t = InSlot(projects'[i], k)
      BY <3>1
    <3>3. QED BY <3>2
  <2>2. QED BY <2>1
<1>5. /\ Tidy(projects', unsaved)
      /\ \A e \in Entries(projects') : \E o \in Entries(projects) : e[1] = o[1] /\ <<o[2], e[2]>> \in R
  <2>1. \A i \in DOMAIN projects : \A k \in Slots(projects[i]) : <<InSlot(projects[i], k), InSlot(projects'[i], k)>> \in R
    BY <1>3
  <2>2. \A s, t : <<s, t>> \in R => t.id = s.id /\ t.host = s.host
    BY <1>4
  <2>3. QED BY <1>1, <2>1, <2>2, RewrittenFacts
<1>6. ASSUME NEW e \in Entries(projects')
      PROVE  \E o \in Entries(projects) :
               /\ e[1] = o[1] /\ e[2].id = o[2].id /\ e[2].host = o[2].host /\ e[2].role = o[2].role /\ e[2].path = o[2].path
               /\ renamed' \/ e[2].name = o[2].name
               /\ e[2].window = o[2].window \/ Its(e[2].window, e[2].id)
  BY <1>4, <1>5
<1>7. ASSUME NEW e \in Entries(projects') PROVE EntryOK(e)'
  <2>1. PICK o \in Entries(projects) :
               /\ e[1] = o[1] /\ e[2].id = o[2].id /\ e[2].host = o[2].host /\ e[2].role = o[2].role /\ e[2].path = o[2].path
               /\ renamed' \/ e[2].name = o[2].name
               /\ e[2].window = o[2].window \/ Its(e[2].window, e[2].id)
    BY <1>6
  <2>2. EntryOK(o)
    BY TreeFacts
  <2>3. Its(e[2].window, e[2].id)
    BY <2>1, <2>2 DEF EntryOK
  <2>4. Its(e[2].window, e[2].id)'
    BY <1>2, <2>3, ItsKept
  <2>5. Worker(e[2]) => renamed' \/ e[2].path[2] = e[2].name
    BY <2>1, <2>2 DEF Worker, EntryOK
  <2>6. QED BY <2>1, <2>2, <2>4, <2>5 DEF EntryOK
<1>8. ASSUME ~renamed', ~byName' PROVE Apart(Entries(projects'), Entries(projects'))
  <2>1. Apart(Entries(projects), Entries(projects))
    BY <1>8, ApartFacts
  <2>2. ASSUME NEW e \in Entries(projects'), NEW o \in Entries(projects'), Worker(e[2]), Worker(o[2]), e[2].id # o[2].id
        PROVE  e[2].path # o[2].path
    <3>1. PICK d \in Entries(projects) : e[2].id = d[2].id /\ e[2].host = d[2].host /\ e[2].role = d[2].role /\ e[2].path = d[2].path
      BY <1>6
    <3>2. PICK q \in Entries(projects) : o[2].id = q[2].id /\ o[2].host = q[2].host /\ o[2].role = q[2].role /\ o[2].path = q[2].path
      BY <1>6
    <3>3. Worker(d[2]) /\ Worker(q[2]) /\ d[2].id # q[2].id
      BY <2>2, <3>1, <3>2 DEF Worker
    <3>4. QED BY <2>1, <3>1, <3>2, <3>3 DEF Apart
  <2>3. QED BY <2>2 DEF Apart
<1>9. TreeInv'
  BY <1>2, <1>5, <1>7, <1>8, TreeTypes, TreeInvNext
<1>10. QED BY <1>2, <1>6, <1>9 DEF TreeStep

\* Creation of a worktree session: a launch that fails leaves the directory.
LEMMA CreateWorktreeStep ==
  ASSUME TreeInv, NEW id \in Ids, NEW name \in Trees, NEW root \in Paths, root[2] = NoTree, CreateWorktree(id, name, root)
  PROVE  TreeStep /\ (id \in used \/ id \notin used' \/ Lives(id, root)')
<1>1. ~NameTaken(name) /\ UNCHANGED <<renamed, byName, unsaved>> /\ dirs' \subseteq Dirs \X Trees
  BY TreeTypes DEF CreateWorktree, Paths
<1>2. CASE Fresh(id) /\ Launch(NewSession(id, name, <<root[1], name>>, "worker"), root)
  BY <1>1, <1>2, WorktreeStep
<1>3. CASE UNCHANGED <<projects, windows, used>>
  <2>1. projects' \in Seq(Project) /\ Tidy(projects', unsaved)
    BY <1>3, TreeFacts
  <2>2. WindowsStep
    BY <1>3, SameWindowsStep
  <2>3. TreeStep
    BY <1>1, <1>3, <2>1, <2>2, LessStep
  <2>4. QED BY <1>3, <2>3
<1>4. QED BY <1>2, <1>3 DEF CreateWorktree

\* A worktree that is there gets a session.
LEMMA ResumeWorktreeStep ==
  ASSUME TreeInv, NEW id \in Ids, NEW name \in Trees, NEW root \in Paths, root[2] = NoTree, ResumeWorktree(id, name, root)
  PROVE  TreeStep
<1>1. /\ ~NameTaken(name) /\ Fresh(id) /\ Launch(NewSession(id, name, <<root[1], name>>, "worker"), root)
      /\ UNCHANGED <<dirs, renamed, byName, unsaved>>
  BY DEF ResumeWorktree
<1>2. dirs' \subseteq Dirs \X Trees
  BY <1>1, TreeTypes
<1>3. QED BY <1>1, <1>2, WorktreeStep

\* A PM is put under its root.
LEMMA CreatePMStep ==
  ASSUME TreeInv, NEW id \in Ids, NEW root \in Paths, root[2] = NoTree, CreatePM(id, root)
  PROVE  TreeStep /\ Lives(id, root)' /\ id \in used'
<1>1. PICK s : s = NewSession(id, PmName, root, "pm")
  OBVIOUS
<1>2. PmName \in Names
  BY DEF Names
<1>3. s \in Session /\ s.id = id /\ s.role = "pm" /\ s.host = Local /\ s.window = 0
  BY <1>1, <1>2, NewSessionFacts
<1>4. Fresh(s.id) /\ Launch(s, root) /\ UNCHANGED <<dirs, renamed, byName, unsaved>>
  BY <1>1, <1>3 DEF CreatePM
<1>5. ~Worker(s)
  BY <1>3 DEF Worker
<1>6. dirs' \subseteq Dirs \X Trees
  BY <1>4, TreeTypes
<1>7. TreeStep /\ Lives(s.id, root)' /\ s.id \in used'
  BY <1>3, <1>4, <1>5, <1>6, LaunchStep
<1>8. QED BY <1>3, <1>7

\* A session is deleted, and its window may stay.
LEMMA DeleteStep == ASSUME TreeInv, NEW id \in Ids, Delete(id) PROVE TreeStep
<1>1. /\ UNCHANGED <<dirs, used, renamed, byName, unsaved>> /\ projects' = RemoveSession(projects, id)
      /\ windows' \in AfterKill(FindByID(id))
  BY DEF Delete
<1>2. projects \in Seq(Project) /\ Tidy(projects, unsaved)
  BY TreeFacts
<1>3. projects' \in Seq(Project) /\ Tidy(projects', unsaved) /\ Entries(projects') \subseteq Entries(projects)
  BY <1>1, <1>2, RemoveFacts
<1>4. PICK wins : wins = windows' /\ SameWindows(wins)
  BY <1>1, AfterKillFacts
<1>5. WindowsStep /\ dirs' \subseteq Dirs \X Trees
  BY <1>1, <1>4, WindowsKept, TreeTypes
<1>6. QED BY <1>1, <1>3, <1>5, LessStep

\* A pane dies or its window is closed.
LEMMA ExitStep == ASSUME TreeInv, NEW id \in Ids, Exit(id) \/ Close(id) PROVE TreeStep
<1>1. /\ UNCHANGED <<projects, dirs, used, renamed, byName, unsaved>>
      /\ \E w \in Named(id) : \E state \in {"dead", "gone"} : windows' = Set(w, state)
  BY DEF Exit, Close
<1>2. PICK w \in Named(id), state \in {"dead", "gone"} : windows' = Set(w, state)
  BY <1>1
<1>3. w \in DOMAIN windows
  BY DEF Named
<1>4. PICK wins : wins = windows' /\ SameWindows(wins)
  BY <1>2, <1>3, SetFacts
<1>5. WindowsStep /\ dirs' \subseteq Dirs \X Trees
  BY <1>1, <1>4, WindowsKept, TreeTypes
<1>6. projects' \in Seq(Project) /\ Tidy(projects', unsaved)
  BY <1>1, TreeFacts
<1>7. QED BY <1>1, <1>5, <1>6, LessStep

\* A session gets another name.
LEMMA RenameStep == ASSUME TreeInv, NEW id \in Ids, NEW name \in Trees, Rename(id, name) PROVE TreeStep
<1>1. PICK z, p, q : z = FindProjectForSession(id) /\ p = projects[z] /\ q = Renamed(p, id, name)
  OBVIOUS
<1>2. /\ projects' = [projects EXCEPT ![z] = q] /\ renamed' = TRUE /\ UNCHANGED <<windows, dirs, used, byName, unsaved>>
      /\ FindByID(id) # NoSession
  BY <1>1 DEF Rename
<1>3. projects \in Seq(Project)
  BY TreeFacts
<1>4. z \in DOMAIN projects /\ p \in Project /\ Has(p, id)
  <2>1. z = ProjectOf(projects, id) /\ z \in DOMAIN projects
    BY <1>1, <1>2, FindByIDFacts DEF FindProjectForSession
  <2>2. z # 0
    BY <1>3, <2>1
  <2>3. QED BY <1>1, <1>3, <2>1, <2>2, ProjectOfFacts
<1>5. /\ q \in Project /\ q.path = p.path /\ Slots(q) = Slots(p)
      /\ \A k \in Slots(p) : InSlot(q, k) \in {InSlot(p, k), [InSlot(p, k) EXCEPT !.name = name]}
  BY <1>1, <1>4, RenamedFacts DEF Names
<1>6. /\ projects' \in Seq(Project) /\ DOMAIN projects' = DOMAIN projects
      /\ \A i \in DOMAIN projects : projects'[i] = IF i = z THEN q ELSE projects[i]
  BY <1>2, <1>3, <1>4, <1>5
<1>7. ASSUME NEW i \in DOMAIN projects
      PROVE  /\ projects'[i].path = projects[i].path /\ Slots(projects'[i]) = Slots(projects[i])
             /\ \A k \in Slots(projects[i]) :
                  LET s == InSlot(projects[i], k) t == InSlot(projects'[i], k)
                  IN t.id = s.id /\ t.host = s.host /\ t.role = s.role /\ t.path = s.path /\ t.window = s.window
  <2>1. CASE i = z
    <3>1. projects'[i] = q /\ projects[i] = p
      BY <1>1, <1>6, <2>1
    <3>2. ASSUME NEW k \in Slots(p)
          PROVE  LET s == InSlot(p, k) t == InSlot(q, k)
                 IN t.id = s.id /\ t.host = s.host /\ t.role = s.role /\ t.path = s.path /\ t.window = s.window
      <4>1. InSlot(p, k) \in Session
        BY <1>4, SlotFacts
      <4>2. QED BY <1>5, <4>1 DEF Session
    <3>3. QED BY <1>5, <3>1, <3>2
  <2>2. CASE i # z
    BY <1>6, <2>2
  <2>3. QED BY <2>1, <2>2
<1>8. QED BY <1>2, <1>6, <1>7, UpdateStep

\* The windows in the store are those of tmux.
LEMMA SyncStep == ASSUME TreeInv, Sync PROVE TreeStep
<1>1. PICK at \in [Ids -> Windows \cup {0}] :
        /\ \A i \in Ids : IF Named(i) = {} THEN at[i] = 0 ELSE at[i] \in Named(i)
        /\ projects' = Updated(projects, [s \in All |-> [s EXCEPT !.window = at[s.id], !.orphan = (at[s.id] = 0)]])
  BY Zenon DEF Sync
<1>2. UNCHANGED <<windows, dirs, used, renamed, byName, unsaved>>
  BY DEF Sync
<1>3. PICK f : f = [s \in All |-> [s EXCEPT !.window = at[s.id], !.orphan = (at[s.id] = 0)]]
  OBVIOUS
<1>4. projects' = Updated(projects, f) /\ projects \in Seq(Project)
  BY <1>1, <1>3, TreeFacts
<1>5. ASSUME NEW e \in Entries(projects)
      PROVE  LET s == e[2] t == f[e[2]]
             IN /\ t \in Session /\ t.id = s.id /\ t.host = s.host /\ t.role = s.role /\ t.path = s.path
                /\ t.name = s.name /\ Its(t.window, t.id)
  <2>1. PICK s, t : s = e[2] /\ t = f[s] /\ s \in Session /\ s \in All
    BY TreeFacts
  <2>2. PICK o : o = (at[s.id] = 0) /\ t = [s EXCEPT !.window = at[s.id], !.orphan = o]
    BY <1>3, <2>1
  <2>3. s.id \in Ids /\ at[s.id] \in Windows \cup {0} /\ o \in BOOLEAN
    BY <1>1, <2>1, <2>2 DEF Session
  <2>4. /\ t \in Session /\ t.id = s.id /\ t.host = s.host /\ t.role = s.role /\ t.path = s.path
        /\ t.name = s.name /\ t.window = at[s.id]
    BY <2>1, <2>2, <2>3 DEF Session
  <2>5. at[s.id] = 0 \/ at[s.id] \in Named(s.id)
    BY <1>1, <2>3
  <2>6. Its(t.window, t.id)
    BY <2>4, <2>5 DEF Its, Named
  <2>7. QED BY <2>1, <2>4, <2>6
<1>6. /\ projects' \in Seq(Project) /\ DOMAIN projects' = DOMAIN projects
      /\ \A i \in DOMAIN projects :
           /\ projects'[i].path = projects[i].path /\ Slots(projects'[i]) = Slots(projects[i])
           /\ \A k \in Slots(projects[i]) : InSlot(projects'[i], k) = f[InSlot(projects[i], k)]
  BY <1>4, <1>5, UpdatedFacts
<1>7. ASSUME NEW i \in DOMAIN projects, NEW k \in Slots(projects[i])
      PROVE  LET s == InSlot(projects[i], k) t == InSlot(projects'[i], k)
             IN /\ t.id = s.id /\ t.host = s.host /\ t.role = s.role /\ t.path = s.path
                /\ t.name = s.name /\ Its(t.window, t.id)
  <2>1. projects[i] \in Project
    BY <1>4
  <2>2. PICK s, e : s = InSlot(projects[i], k) /\ e = <<projects[i].path, s>>
    OBVIOUS
  <2>3. e \in Entries(projects) /\ e[2] = s
    BY <1>4, <2>1, <2>2, SlotFacts, EntriesFacts
  <2>4. QED BY <1>5, <1>6, <2>2, <2>3
<1>8. renamed' \in BOOLEAN
  BY <1>2, TreeTypes
<1>9. QED BY <1>2, <1>6, <1>7, <1>8, UpdateStep

\* A session of the store is launched again in its project, or put back, or
\* both.
LEMMA ResumeKnownStep == ASSUME TreeInv, NEW id \in Ids, ResumeKnown(id) PROVE TreeStep
<1>1. PICK old, new, root, rest, launched :
        /\ old = FindByID(id) /\ root = projects[FindProjectForSession(id)].path /\ rest = RemoveSession(projects, id)
        /\ new = [old EXCEPT !.window = 0, !.orphan = FALSE] /\ launched = Add(rest, new, root)
  BY Zenon
<1>2. /\ old # NoSession /\ old.host = Local /\ UNCHANGED <<dirs, used, renamed, byName>>
      /\ \E wins \in AfterKill(old) :
          \/ /\ Len(wins) < MaxWindows /\ windows' = With(wins, id)
             /\ \/ projects' = launched /\ UNCHANGED unsaved
                \/ projects' = Add(launched, old, root) /\ unsaved' = unsaved \cup {id}
          \/ windows' = wins /\ projects' = Add(rest, old, root) /\ UNCHANGED unsaved
  BY <1>1 DEF ResumeKnown
<1>3. old \in Session /\ old.id = id /\ <<root, old>> \in Entries(projects)
  BY <1>1, <1>2, FindByIDFacts
<1>4. new \in Session /\ new.id = id /\ new.host = Local /\ new.role = old.role /\ new.path = old.path /\ new.name = old.name
      /\ new.window = 0
  BY <1>1, <1>2, <1>3 DEF Session
<1>5. projects \in Seq(Project) /\ Tidy(projects, unsaved)
  BY TreeFacts
<1>6a. PICK x, y : x = <<root, old>> /\ y = <<root, new>>
  OBVIOUS
<1>6. x = <<root, old>> /\ x[1] = root /\ x[2] = old /\ y = <<root, new>> /\ y[1] = root /\ y[2] = new
  BY <1>6a
<1>7. EntryOK(x) /\ root \in Paths /\ id \in used
  BY <1>3, <1>6, TreeFacts
<1>8. \A e \in Entries(projects) : e[2].id = id => e[1] = root /\ e[2].host = Local
  BY <1>2, <1>3, <1>6, OneProject
<1>9. /\ rest \in Seq(Project) /\ Tidy(rest, unsaved)
      /\ \A e \in Entries(rest) : e \in Entries(projects) /\ (e[2].id = id => id \in unsaved)
  BY <1>1, <1>5, RemoveFacts
<1>10. WindowsStep
  <2>1. PICK wins \in AfterKill(old) : windows' = wins \/ (Len(wins) < MaxWindows /\ windows' = With(wins, id))
    BY <1>2
  <2>2. SameWindows(wins)
    BY AfterKillFacts
  <2>3. QED BY <2>1, <2>2, WindowsKept, WindowMade
<1>11. \A e \in Entries(rest) : e[2].id = id => id \in unsaved /\ e[1] = root /\ e[2].host = Local
  BY <1>8, <1>9
<1>12. /\ launched \in Seq(Project) /\ Tidy(launched, unsaved)
       /\ \A e \in Entries(launched) : e \in Entries(rest) \/ e = y
  <2>1. \A e \in Entries(rest) : e[2].id = new.id => new.id \in unsaved /\ e[1] = root /\ e[2].host = new.host
    BY <1>4, <1>11
  <2>2. /\ launched \in Seq(Project) /\ Tidy(launched, unsaved)
        /\ \A e \in Entries(launched) : e \in Entries(rest) \/ e = <<root, new>>
    <3>1. launched = Add(rest, new, root) /\ new \in Session /\ root \in Paths /\ rest \in Seq(Project) /\ Tidy(rest, unsaved)
      BY <1>1, <1>4, <1>7, <1>9
    <3>2. QED BY <2>1, <3>1, AddFacts
  <2>3. QED BY <1>6, <2>2
<1>13. /\ projects' \in Seq(Project) /\ Tidy(projects', unsaved') /\ unsaved' \subseteq Ids
       /\ \A e \in Entries(projects') : e \in Entries(projects) \/ e \in {x, y}
  <2>1. CASE projects' = launched /\ UNCHANGED unsaved
    BY <1>9, <1>12, <2>1, TreeTypes
  <2>2. CASE projects' = Add(launched, old, root) /\ unsaved' = unsaved \cup {id}
    <3>1. \A e \in Entries(launched) : e[2].id = old.id => old.id \in unsaved' /\ e[1] = root /\ e[2].host = old.host
      BY <1>2, <1>3, <1>4, <1>6, <1>11, <1>12, <2>2
    <3>2. Tidy(launched, unsaved')
      BY <1>12, <2>2, TidyGrows
    <3>3. projects' \in Seq(Project) /\ Tidy(projects', unsaved') /\ \A e \in Entries(projects') : e \in Entries(launched) \/ e = x
      BY <1>3, <1>6, <1>7, <1>12, <2>2, <3>1, <3>2, AddFacts
    <3>4. unsaved' \subseteq Ids
      BY <2>2, TreeTypes
    <3>5. QED BY <1>9, <1>12, <3>3, <3>4
  <2>3. CASE projects' = Add(rest, old, root) /\ UNCHANGED unsaved
    <3>1. \A e \in Entries(rest) : e[2].id = old.id => old.id \in unsaved /\ e[1] = root /\ e[2].host = old.host
      BY <1>2, <1>3, <1>11
    <3>2. projects' \in Seq(Project) /\ Tidy(projects', unsaved) /\ \A e \in Entries(projects') : e \in Entries(rest) \/ e = x
      BY <1>3, <1>6, <1>7, <1>9, <2>3, <3>1, AddFacts
    <3>3. QED BY <1>9, <2>3, <3>2, TreeTypes
  <2>4. QED BY <1>2, <2>1, <2>2, <2>3
<1>14. \A e \in {x, y} : EntryOK(e)'
  <2>1. EntryOK(x)'
    BY <1>2, <1>3, <1>6, <1>10, EntryKept
  <2>2. Its(new.window, id)'
    BY <1>4 DEF Its
  <2>3. EntryOK(y)'
    BY <1>2, <1>3, <1>4, <1>6, <2>1, <2>2 DEF EntryOK, Worker
  <2>4. QED BY <2>1, <2>3
<1>15. ~renamed /\ ~byName' => Apart({x, y}, Entries(projects)) /\ Apart({x, y}, {x, y})
  <2>1. ASSUME ~renamed, ~byName' PROVE Apart({x, y}, Entries(projects))
    <3>1. Apart(Entries(projects), Entries(projects))
      BY <1>2, <2>1, ApartFacts
    <3>2. QED BY <1>2, <1>3, <1>4, <1>6, <3>1 DEF Apart, Worker
  <2>2. Apart({x, y}, {x, y})
    BY <1>3, <1>4, <1>6 DEF Apart
  <2>3. QED BY <2>1, <2>2
<1>16. TreeInv'
  <2>1. /\ dirs' \subseteq Dirs \X Trees /\ used \subseteq used' /\ used' \subseteq Ids /\ renamed' = renamed
        /\ byName' \in BOOLEAN /\ (byName => byName')
    BY <1>2, TreeTypes
  <2>2. PICK added : added = {x, y}
    OBVIOUS
  <2>3. /\ \A e \in Entries(projects') : e \in Entries(projects) \/ e \in added
        /\ \A e \in added : EntryOK(e)'
        /\ ~renamed /\ ~byName' => Apart(added, Entries(projects)) /\ Apart(added, added)
    BY <1>13, <1>14, <1>15, <2>2, Zenon
  <2>4. QED BY <1>10, <1>13, <2>1, <2>3, EntriesStep
<1>17. ASSUME NEW e \in Entries(projects')
       PROVE  \E o \in Entries(projects) : e[1] = o[1] /\ e[2].id = o[2].id /\ e[2].host = o[2].host
  <2>1. x \in Entries(projects)
    BY <1>3, <1>6
  <2>2. QED BY <1>2, <1>3, <1>4, <1>6, <1>13, <2>1
<1>18. QED BY <1>2, <1>10, <1>16, <1>17 DEF TreeStep

\* A collected session is launched again in the worktree of that name.
LEMMA ResumeCollectedStep == ASSUME TreeInv, NEW id \in Ids, NEW name \in Trees, ResumeCollected(id, name) PROVE TreeStep
<1> DEFINE I == {j \in DOMAIN projects : projects[j].path[2] = NoTree /\ <<projects[j].path[1], name>> \in dirs}
<1>1. PICK i, s :
        /\ i = FirstOf(I) /\ i # 0 /\ id \in used /\ FindByID(id) = NoSession
        /\ s = NewSession(id, name, <<projects[i].path[1], name>>, "worker") /\ Launch(s, projects[i].path)
        /\ byName' = TRUE /\ UNCHANGED <<dirs, used, renamed, unsaved>>
  BY DEF ResumeCollected
<1>2. projects \in Seq(Project)
  BY TreeFacts
<1>3. i \in DOMAIN projects /\ projects[i].path[2] = NoTree
  <2>1. I \subseteq Nat
    BY <1>2
  <2>2. i \in I
    BY <1>1, <2>1, FirstFacts
  <2>3. QED BY <2>2
<1>4. PICK root \in Paths : root = projects[i].path /\ root[2] = NoTree
  <2>1. projects[i] \in Project
    BY <1>2, <1>3
  <2>2. projects[i].path \in Paths
    BY <2>1 DEF Project
  <2>3. QED BY <1>3, <2>2
<1> HIDE DEF I
<1>5. <<root[1], name>> \in Paths /\ name \in Names
  BY <1>4 DEF Paths, Names
<1>6. s \in Session /\ s.id = id /\ s.name = name /\ s.path = <<root[1], name>> /\ s.host = Local /\ s.window = 0
  BY <1>1, <1>4, <1>5, NewSessionFacts
<1>7. WindowsStep /\ projects' = Add(projects, s, root)
  <2>1. SameWindows(windows)
    BY TreeTypes DEF SameWindows
  <2>2. QED BY <1>1, <1>4, <1>6, <2>1, WindowMade DEF Launch
<1>8. \A e \in Entries(projects) : e[2].id # s.id
  BY <1>1, <1>6, FindByIDFacts
<1>9. /\ s.id \in used' /\ used \subseteq used' /\ used' \subseteq Ids /\ dirs' \subseteq Dirs \X Trees
      /\ renamed' = renamed /\ byName' \in BOOLEAN /\ byName' /\ s.path[2] = s.name /\ unsaved' = unsaved
  BY <1>1, <1>6, TreeTypes
<1>10. Its(s.window, s.id)'
  BY <1>6 DEF Its
<1>11. TreeInv' /\ \A e \in Entries(projects') : e \in Entries(projects) \/ e = <<root, s>>
  BY <1>4, <1>6, <1>7, <1>8, <1>9, <1>10, PutStep
<1>12. ASSUME NEW e \in Entries(projects')
       PROVE  \/ \E o \in Entries(projects) : e[1] = o[1] /\ e[2].id = o[2].id /\ e[2].host = o[2].host
              \/ byName' /\ e[2].host = Local
  <2>1. e = <<root, s>> => e[2] = s
    OBVIOUS
  <2>2. QED BY <1>6, <1>9, <1>11, <2>1
<1>13. QED BY <1>7, <1>9, <1>11, <1>12 DEF TreeStep

\* A session of another machine is put into the store.
LEMMA AddMirrorStep ==
  ASSUME TreeInv, NEW id \in Ids, NEW path \in Paths, NEW host \in Remotes, NEW root \in Paths, AddMirror(id, path, host, root)
  PROVE  TreeStep
<1>1. PICK role \in {"none", "worker", "pm"} :
        /\ (role = "worker") = (path[2] # NoTree)
        /\ role = "pm" => \A s \in All : ~(s.role = "pm" /\ s.host = host /\ s.path = path)
        /\ projects' = Add(projects, [id |-> id, name |-> CASE role = "pm" -> PmName [] role = "worker" -> path[2] [] OTHER -> <<path[1], 1>>,
                        path |-> path, host |-> host, role |-> role,
                        window |-> Len(windows'), orphan |-> FALSE], root)
  BY Zenon DEF AddMirror
<1>3. Fresh(id) /\ Len(windows) < MaxWindows /\ windows' = With(windows, id) /\ UNCHANGED <<dirs, renamed, byName, unsaved>>
  BY DEF AddMirror
<1>4. PICK w \in Windows : WindowsStep /\ w = Len(windows') /\ Its(w, id)'
  <2>1. SameWindows(windows)
    BY TreeTypes DEF SameWindows
  <2>2. QED BY <1>3, <2>1, WindowMade
<1>2. PICK n, s :
        /\ n = CASE role = "pm" -> PmName [] role = "worker" -> path[2] [] OTHER -> <<path[1], 1>>
        /\ s = [id |-> id, name |-> n, path |-> path, host |-> host, role |-> role, window |-> w, orphan |-> FALSE]
        /\ projects' = Add(projects, s, root)
  BY <1>1, <1>4
<1>5. n \in Names
  <2>1. path[1] \in Dirs /\ (path[2] \in Trees \/ path[2] = NoTree) /\ 1 \in Nat
    BY DEF Paths
  <2>2. <<path[1], 1>> \in Generated
    BY <2>1 DEF Generated
  <2>3. CASE role = "pm"
    BY <1>2, <2>3 DEF Names
  <2>4. CASE role = "worker"
    BY <1>1, <1>2, <2>1, <2>4 DEF Names
  <2>5. CASE role = "none"
    BY <1>2, <2>2, <2>5 DEF Names
  <2>6. QED BY <2>3, <2>4, <2>5
<1>6. s.id = id /\ s.host = host /\ s.window = w /\ s.path = path /\ s.role = role
  BY <1>2
<1>7. s \in Session
  BY <1>2, <1>4, <1>5 DEF Session, Hosts
<1>8. s.host # Local
  BY <1>6, ConstantsAssumption
<1>9. /\ s.id \notin used /\ s.id \in used' /\ used \subseteq used' /\ used' \subseteq Ids /\ dirs' \subseteq Dirs \X Trees
      /\ renamed' = renamed /\ byName' = byName /\ byName \in BOOLEAN /\ unsaved' = unsaved
  BY <1>3, <1>6, TreeTypes DEF Fresh
<1>10. ~Worker(s) /\ \A e \in Entries(projects) : e[2].id # s.id
  BY <1>8, <1>9, TreeFacts DEF Worker
<1>11. Its(s.window, s.id)'
  BY <1>4, <1>6 DEF Its
<1>12. TreeInv' /\ \A e \in Entries(projects') : e \in Entries(projects) \/ e = <<root, s>>
  BY <1>2, <1>4, <1>7, <1>8, <1>9, <1>10, <1>11, PutStep
<1>13. ASSUME NEW e \in Entries(projects')
       PROVE  \/ \E o \in Entries(projects) : e[1] = o[1] /\ e[2].id = o[2].id /\ e[2].host = o[2].host
              \/ e[2].id \notin used
  <2>1. e = <<root, s>> => e[2] = s
    OBVIOUS
  <2>2. QED BY <1>9, <1>12, <2>1
<1>14. QED BY <1>4, <1>9, <1>12, <1>13 DEF TreeStep

-----------------------------------------------------------------------------
(* The handlers keep IInv.                                                 *)

\* A request that is there.
LEMMA RequestFacts ==
  ASSUME TypeOK, NEW r \in Requests, req[r] # NoRequest
  PROVE  /\ req[r] \in Request /\ req[r].kind \in Kinds /\ req[r].kind # "none"
         /\ req[r].from \in Ids /\ req[r].to \in Ids /\ req[r].name \in Trees /\ req[r].win \in Windows \cup {0} /\ req[r].win \in Nat
         /\ req[r].dir \in Paths /\ req[r].unheard \in BOOLEAN /\ req[r].unentered \in BOOLEAN
         /\ req[r].at \in {"send", "type", "enter", "find", "create", "rename", "prompt", "delivered", "answered", "failed"}
<1>1. req[r] \in Request
  BY DEF TypeOK
<1>2. MaxWindows \in Nat
  BY ConstantsAssumption
<1>3. QED BY <1>1, <1>2 DEF Request, Windows, Kinds

\* NoRequest is not a request.
LEMMA NoRequestFacts == NoRequest \notin Request /\ NoRequest.kind = "none"
<1>1. \A x \in Request : x.kind # "none"
  BY DEF Request, Kinds
<1>2. NoRequest.kind = "none"
  BY DEF NoRequest
<1>3. QED BY <1>1, <1>2

\* The request after a step that changes it.
LEMMA ChangedFacts ==
  ASSUME TypeOK, NEW r \in Requests, NEW x \in Request, req' = [req EXCEPT ![r] = x]
  PROVE  /\ req' \in [Requests -> Request \cup {NoRequest}] /\ req'[r] = x /\ x # NoRequest
         /\ \A q \in Requests : q # r => req'[q] = req[q]
BY NoRequestFacts DEF TypeOK

\* A step that leaves the store as it is.
LEMMA StutterStep == ASSUME TreeInv, UNCHANGED treeVars PROVE TreeStep
<1>1. UNCHANGED <<projects, windows, dirs, used, renamed, byName, unsaved>>
  BY DEF treeVars
<1>2. projects' \in Seq(Project) /\ Tidy(projects', unsaved)
  BY <1>1, TreeFacts
<1>3. WindowsStep /\ dirs' \subseteq Dirs \X Trees
  BY <1>1, SameWindowsStep, TreeTypes
<1>4. QED BY <1>1, <1>2, <1>3, LessStep

\* Who is not a mirror, and who lives in a project, remains so.
LEMMA LivesKept ==
  ASSUME TreeInv, TreeStep, NEW id \in used
  PROVE  /\ (\A e \in Entries(projects) : e[2].id = id => e[2].host = Local) =>
               \A e \in Entries(projects') : e[2].id = id => e[2].host = Local
         /\ \A path : Lives(id, path) => byName' \/ \A e \in Entries(projects') : e[2].id = id => e[1] = path /\ e[2].host = Local
BY DEF TreeStep, Lives

\* A request that a step leaves alone, and the messages typed.
LEMMA RequestKept ==
  ASSUME IInv, TreeStep, NEW q \in Requests, req'[q] = req[q],
         \A w \in Windows : q \in input'[w] \cup inbox'[w] <=> q \in input[w] \cup inbox[w],
         \A w \in Windows : q \in inbox[w] => q \in inbox'[w]
  PROVE  RequestOK(q)'
<1>1. TypeOK /\ TreeInv /\ MessageOK(q) /\ CallerOK(q) /\ JoinOK(q) /\ WindowsStep /\ used \subseteq used'
      /\ (byName => byName')
  BY DEF IInv, RequestOK, TreeStep, TypeOK
<1>2. CASE req[q] = NoRequest
  <2>1. req'[q].kind \notin {"worker", "pm", "local", "resume"}
    BY <1>2, NoRequestFacts
  <2>2. Reached(q) = {}
    BY <1>1, <1>2 DEF MessageOK
  <2>3. Reached(q)' = {}
    BY <2>2 DEF Reached
  <2>4. MessageOK(q)' /\ CallerOK(q)' /\ JoinOK(q)'
    BY <1>2, <2>1, <2>3 DEF MessageOK, CallerOK, JoinOK
  <2>5. QED BY <2>4 DEF RequestOK
<1>3. CASE req[q] # NoRequest
  <2>1. req[q] \in Request /\ req[q].win \in Nat /\ req[q].win \in Windows \cup {0} /\ req[q].kind # "none"
    BY <1>1, <1>3, RequestFacts
  <2>2. Reached(q)' = Reached(q)
    BY DEF Reached
  <2>3. MessageOK(q)'
    <3>1. PICK w, to : w = req[q].win /\ to = req[q].to
      OBVIOUS
    <3>2. Its(w, to)'
      BY <1>1, <1>3, <3>1, ItsKept DEF MessageOK
    <3>2a. (Its(req[q].win, req[q].to))'
      BY <3>1, <3>2
    <3>3. req[q].at = "delivered" => req[q].unheard \/ req[q].unentered \/ q \in inbox'[req[q].win]
      BY <1>1, <1>3, <2>1 DEF MessageOK
    <3>4. QED BY <1>1, <1>3, <2>2, <3>2a, <3>3 DEF MessageOK
  <2>4. CallerOK(q)'
    BY <1>1, <1>3, LivesKept DEF CallerOK
  <2>5. JoinOK(q)'
    <3>1. req[q].from \in used
      BY <1>1, <1>3 DEF CallerOK
    <3>2. \A id \in used : \A path : Lives(id, path) => 
            byName' \/ \A e \in Entries(projects') : e[2].id = id => e[1] = path /\ e[2].host = Local
      BY <1>1, LivesKept
    <3>3. \A id \in used : \A path : byName \/ Lives(id, path) => 
            byName' \/ \A e \in Entries(projects') : e[2].id = id => e[1] = path /\ e[2].host = Local
      BY <1>1, <3>2
    <3>4. ASSUME req[q].kind \in {"worker", "pm", "local"} PROVE
            /\ req'[q].at \in {"create", "rename", "prompt", "answered"} =>
                 byName' \/ \A e \in Entries(projects') : e[2].id = req'[q].from => e[1] = req'[q].dir /\ e[2].host = Local
            /\ req'[q].at \in {"rename", "prompt", "answered"} =>
                 /\ req'[q].to \in used'
                 /\ byName' \/ \A e \in Entries(projects') : e[2].id = req'[q].to => e[1] = req'[q].dir /\ e[2].host = Local
      BY <1>1, <3>1, <3>3, <3>4 DEF JoinOK
    <3>5. QED BY <1>1, <3>4 DEF JoinOK, Lives
  <2>6. QED BY <2>3, <2>4, <2>5 DEF RequestOK
<1>4. QED BY <1>2, <1>3

\* A step of a handler keeps the invariant if it does for its own request.
LEMMA HandlerStep ==
  ASSUME IInv, TreeStep, NEW r \in Requests, NEW x \in Request, req' = [req EXCEPT ![r] = x], asked' = asked,
         input' \in [Windows -> SUBSET Requests], inbox' \in [Windows -> SUBSET Requests],
         \A q \in Requests : q # r => \A w \in Windows :
           (q \in input'[w] \cup inbox'[w] <=> q \in input[w] \cup inbox[w]) /\ (q \in inbox[w] => q \in inbox'[w]),
         RequestOK(r)'
  PROVE  IInv'
<1>1. /\ req' \in [Requests -> Request \cup {NoRequest}]
      /\ \A q \in Requests : q # r => req'[q] = req[q]
  BY ChangedFacts DEF IInv
<1>2. TreeInv'
  BY DEF TreeStep
<1>3. TypeOK'
  BY <1>1, <1>2 DEF TypeOK, IInv, TreeInv
<1>4. ASSUME NEW q \in Requests, q # r PROVE RequestOK(q)'
  BY <1>1, <1>4, RequestKept
<1>5. QED BY <1>2, <1>3, <1>4 DEF IInv

\* The caller of a handler that goes on.
LEMMA CallerKept ==
  ASSUME IInv, TreeStep, NEW r \in Requests, req[r] # NoRequest, req'[r].from = req[r].from, req'[r].kind = req[r].kind,
         req'[r].dir[2] = NoTree
  PROVE  CallerOK(r)'
<1>1. TreeInv /\ CallerOK(r) /\ used \subseteq used'
  BY DEF IInv, RequestOK, TreeStep
<1>2. QED BY <1>1, LivesKept DEF CallerOK

\* The handler of a request that types no message goes on.
LEMMA AtMoved ==
  ASSUME IInv, TreeStep, NEW r \in Requests, req[r] # NoRequest, req[r].kind # "send", UNCHANGED <<asked, input, inbox>>,
         NEW l \in {"create", "rename", "prompt", "answered", "failed"}, Goto(r, l),
         req[r].kind \in {"worker", "pm", "local"} =>
           \/ l = "failed"
           \/ l \in {"prompt", "answered"} /\ req[r].at \in {"rename", "prompt", "answered"}
  PROVE  IInv'
<1>1. TypeOK /\ TreeInv /\ MessageOK(r) /\ CallerOK(r) /\ JoinOK(r) /\ (byName => byName') /\ used \subseteq used'
  BY DEF IInv, RequestOK, TreeStep
<1>2. PICK x : x = [req[r] EXCEPT !.at = l]
  OBVIOUS
<1>3. req[r] \in Request /\ req[r].kind # "none"
  BY <1>1, RequestFacts
<1>4. /\ x \in Request /\ x.kind = req[r].kind /\ x.from = req[r].from /\ x.to = req[r].to /\ x.win = req[r].win
      /\ x.dir = req[r].dir /\ x.at = l
  BY <1>2, <1>3 DEF Request
<1>5. req' = [req EXCEPT ![r] = x]
  BY <1>2 DEF Goto
<1>6. req'[r] = x /\ x # NoRequest
  BY <1>1, <1>4, <1>5, ChangedFacts
<1>7. MessageOK(r)'
  <2>1. Reached(r)' = Reached(r)
    BY DEF Reached
  <2>2. x.win = 0 /\ Reached(r) = {}
    BY <1>1, <1>4 DEF MessageOK
  <2>3. Its(x.win, x.to)'
    BY <2>2 DEF Its
  <2>4. QED BY <1>4, <1>6, <2>1, <2>2, <2>3 DEF MessageOK
<1>8. CallerOK(r)'
  <2>1. req[r].dir[2] = NoTree
    BY <1>1 DEF CallerOK
  <2>2. QED BY <1>4, <1>6, <2>1, CallerKept
<1>9. JoinOK(r)'
  <2>1. CASE l = "failed"
    BY <1>4, <1>6, <2>1 DEF JoinOK
  <2>2. CASE l # "failed" /\ req[r].kind \in {"worker", "pm", "local"}
    <3>1. req[r].at \in {"rename", "prompt", "answered"} /\ l \in {"prompt", "answered"}
      BY <2>2
    <3>2. req[r].from \in used /\ req[r].to \in used
      BY <1>1, <2>2, <3>1 DEF CallerOK, JoinOK
    <3>3. byName \/ (Lives(req[r].from, req[r].dir) /\ Lives(req[r].to, req[r].dir))
      BY <1>1, <2>2, <3>1 DEF JoinOK
    <3>4. byName' \/ \A e \in Entries(projects') :
                       e[2].id \in {req[r].from, req[r].to} => e[1] = req[r].dir /\ e[2].host = Local
      BY <1>1, <3>2, <3>3, LivesKept
    <3>5. QED BY <1>1, <1>4, <1>6, <3>1, <3>2, <3>4 DEF JoinOK, Lives
  <2>3. CASE req[r].kind \notin {"worker", "pm", "local"}
    BY <1>4, <1>6, <2>3 DEF JoinOK
  <2>4. QED BY <2>1, <2>2, <2>3
<1>10. RequestOK(r)'
  BY <1>7, <1>8, <1>9 DEF RequestOK
<1>11. input' \in [Windows -> SUBSET Requests] /\ inbox' \in [Windows -> SUBSET Requests]
  BY <1>1 DEF TypeOK
<1>12. QED BY <1>4, <1>5, <1>10, <1>11, HandlerStep

\* A request is accepted.
LEMMA StartKept == ASSUME IInv, NEW r \in Requests, Start(r) PROVE IInv'
<1>1. TypeOK /\ TreeInv /\ MessageOK(r) /\ UNCHANGED <<treeVars, asked, input, inbox>> /\ req[r] = NoRequest
  BY DEF IInv, RequestOK, Start
<1>2. PICK k \in asked, from \in used, to \in used, name \in Trees :
        /\ k # "resume" /\ FindByID(from) # NoSession => FindByID(from).host = Local
        /\ (from = to) = (k # "send")
        /\ k \in {"send", "pm"} => name = CHOOSE n \in Trees : TRUE
        /\ req' = [req EXCEPT ![r] = Accepted(k, from, to, name)]
  BY Zenon DEF Start
<1>3. PICK x : x = Accepted(k, from, to, name) /\ req' = [req EXCEPT ![r] = x]
  BY <1>2
<1>4. used \subseteq Ids /\ k \in Kinds
  BY <1>1, <1>2, <1>3, TreeTypes DEF TypeOK
<1>5. AnyDir \in Paths /\ AnyDir[2] = NoTree
  BY ConstantsAssumption DEF AnyDir, Paths
<1>6. PICK l : l = CASE k = "send" -> "send" [] k = "resume" -> "create" [] OTHER -> "find"
  OBVIOUS
<1>7. l = (IF k = "send" THEN "send" ELSE IF k = "resume" THEN "create" ELSE "find")
  BY <1>6
<1>8. /\ x \in Request /\ x.kind = k /\ x.from = from /\ x.to = to /\ x.win = 0 /\ x.dir = AnyDir
      /\ x.at = l
  <2>1. x = [kind |-> k, from |-> from, to |-> to, name |-> name, win |-> 0, dir |-> AnyDir, unheard |-> FALSE, unentered |-> FALSE, at |-> l]
    BY <1>3, <1>6 DEF Accepted
  <2>2. l \in {"send", "create", "find"}
    BY <1>7
  <2>3. QED BY <1>2, <1>4, <1>5, <2>1, <2>2 DEF Request
<1>9. TreeStep /\ req'[r] = x /\ x # NoRequest
  BY <1>1, <1>3, <1>8, StutterStep, ChangedFacts
<1>10. MessageOK(r)'
  <2>1. Reached(r)' = {}
    BY <1>1 DEF MessageOK, Reached
  <2>2. Its(x.win, x.to)'
    BY <1>8 DEF Its
  <2>3. QED BY <1>7, <1>8, <1>9, <2>1, <2>2 DEF MessageOK
<1>11. CallerOK(r)'
  <2>1. from \in used'
    BY <1>9 DEF TreeStep
  <2>2. k # "resume" => \A e \in Entries(projects) : e[2].id = from => e[2].host = Local
    <3>1. ASSUME k # "resume", NEW e \in Entries(projects), e[2].id = from PROVE e[2].host = Local
      <4>1. FindByID(from) # NoSession
        BY <1>1, <3>1, FindByIDFacts
      <4>2. PICK path : <<path, FindByID(from)>> \in Entries(projects) /\ FindByID(from).id = from
        BY <1>1, <4>1, FindByIDFacts
      <4>3. PICK o : o = <<path, FindByID(from)>>
        OBVIOUS
      <4>4. o \in Entries(projects) /\ o[2].id = from /\ o[2] = FindByID(from)
        BY <4>2, <4>3
      <4>5. e[2].host = o[2].host
        BY <1>1, <3>1, <4>4, OneProject
      <4>6. QED BY <1>2, <1>3, <3>1, <4>1, <4>4, <4>5
    <3>2. QED BY <3>1
  <2>3. k # "resume" => \A e \in Entries(projects') : e[2].id = from => e[2].host = Local
    BY <1>1, <1>9, <2>2, LivesKept
  <2>4. QED BY <1>5, <1>8, <1>9, <2>1, <2>3 DEF CallerOK
<1>12. JoinOK(r)'
  BY <1>7, <1>8, <1>9 DEF JoinOK
<1>13. input' \in [Windows -> SUBSET Requests] /\ inbox' \in [Windows -> SUBSET Requests]
  BY <1>1 DEF TypeOK
<1>14. QED BY <1>1, <1>3, <1>8, <1>9, <1>10, <1>11, <1>12, <1>13, HandlerStep DEF RequestOK

\* The recipient is a session of that id.
LEMMA RecipientFacts ==
  ASSUME TreeInv, NEW id, Recipient(id) # NoSession
  PROVE  Recipient(id) \in Session /\ Recipient(id).id = id /\ Its(Recipient(id).window, id)
<1> DEFINE I == {j \in DOMAIN projects : Has(projects[j], id)}
<1>1. projects \in Seq(Project) /\ Len(projects) \in Nat /\ DOMAIN projects = 1 .. Len(projects)
  BY TreeFacts
<1>2. PICK i : i = LastOf(I)
  OBVIOUS
<1>3. Recipient(id) = IF i = 0 THEN NoSession
                      ELSE InSlot(projects[i], Max({k \in Slots(projects[i]) : InSlot(projects[i], k).id = id}))
  BY <1>2 DEF Recipient
<1>4. i # 0
  BY <1>3
<1>5. I # {}
  BY <1>2, <1>4 DEF LastOf
<1>6. I \subseteq 0 .. Len(projects) /\ \A j \in I : j \in DOMAIN projects /\ Has(projects[j], id)
  BY <1>1
<1> HIDE DEF I
<1>7. i \in DOMAIN projects /\ Has(projects[i], id) /\ projects[i] \in Project
  <2>1. LastOf(I) \in I
    BY <1>1, <1>5, <1>6, LastFacts
  <2>2. i \in DOMAIN projects /\ Has(projects[i], id)
    BY <1>2, <1>6, <2>1
  <2> QED
    BY <1>1, <2>2
<1> DEFINE K == {k \in Slots(projects[i]) : InSlot(projects[i], k).id = id}
<1>8. K # {} /\ \A k \in K : k \in Slots(projects[i]) /\ InSlot(projects[i], k).id = id
  BY <1>7, SlotFacts DEF Has
<1>9. Len(projects[i].sessions) \in Nat /\ K \subseteq 0 .. Len(projects[i].sessions)
  BY <1>7 DEF Slots, Project
<1>10. PICK k : k = Max(K)
  OBVIOUS
<1>11. Recipient(id) = InSlot(projects[i], k)
  BY <1>3, <1>4, <1>10
<1> HIDE DEF K
<1>12. k \in Slots(projects[i]) /\ InSlot(projects[i], k).id = id
  BY <1>8, <1>9, <1>10, LastFacts
<1>13. PICK s, e : s = Recipient(id) /\ e = <<projects[i].path, s>>
  OBVIOUS
<1>14. s \in Session /\ s.id = id /\ s \in Members(projects[i])
  BY <1>7, <1>11, <1>12, <1>13, SlotFacts
<1>15. e \in Entries(projects) /\ e[2] = s
  BY <1>1, <1>7, <1>13, <1>14, EntriesFacts
<1>16. EntryOK(e)
  BY <1>15, TreeFacts
<1>17. QED BY <1>13, <1>14, <1>15, <1>16 DEF EntryOK

\* The window of a recipient is found.
LEMMA ResolveKept == ASSUME IInv, NEW r \in Requests, Resolve(r) PROVE IInv'
<1>1. TypeOK /\ TreeInv /\ MessageOK(r) /\ CallerOK(r) /\ UNCHANGED <<treeVars, asked, input, inbox>>
      /\ req[r] # NoRequest /\ req[r].at = "send"
  BY DEF IInv, RequestOK, Resolve, At
<1>2. req[r] \in Request /\ req[r].to \in Ids /\ req[r].win \in Windows \cup {0} /\ MaxWindows \in Nat
      /\ req[r].unheard \in BOOLEAN /\ req[r].unentered \in BOOLEAN
  BY <1>1, RequestFacts, ConstantsAssumption
<1>3. PICK s, found : s = Recipient(req[r].to) /\ found = WindowsOf(s)
  OBVIOUS
<1>4. \A w \in found : w # 0 /\ w \in DOMAIN windows /\ Its(w, req[r].to) /\ w \in Windows
  <2>1. ASSUME NEW w \in found PROVE w # 0 /\ w \in DOMAIN windows /\ Its(w, req[r].to) /\ w \in Windows
    <3>1. s # NoSession
      BY <1>3, <2>1 DEF WindowsOf
    <3>2. s.id = req[r].to /\ Its(s.window, req[r].to)
      BY <1>1, <1>3, <3>1, RecipientFacts
    <3>3. (w = s.window /\ w # 0) \/ w \in Named(s.id)
      BY <1>3, <2>1, <3>1 DEF WindowsOf
    <3>4. windows \in Seq(Window) /\ Len(windows) =< MaxWindows
      BY <1>1, TreeTypes
    <3>5. w \in DOMAIN windows /\ windows[w].id = req[r].to
      BY <3>2, <3>3 DEF Its, Named
    <3>6. QED BY <1>2, <3>4, <3>5 DEF Its, Windows
  <2>2. QED BY <2>1
<1>5. \/ Goto(r, "failed")
      \/ \E w \in found : req' = [req EXCEPT ![r].win = w, ![r].at = "type"]
  BY <1>3 DEF Resolve
<1>6. PICK w, l, x :
        /\ x = [req[r] EXCEPT !.win = w, !.at = l] /\ req' = [req EXCEPT ![r] = x]
        /\ (w \in found /\ l = "type") \/ (w = req[r].win /\ l = "failed")
  <2>1. CASE Goto(r, "failed")
    <3>1. PICK x : x = [req[r] EXCEPT !.win = req[r].win, !.at = "failed"]
      OBVIOUS
    <3>2. x = [req[r] EXCEPT !.at = "failed"]
      BY <1>2, <3>1 DEF Request
    <3>3. req' = [req EXCEPT ![r] = x]
      BY <2>1, <3>2 DEF Goto
    <3>4. QED BY <3>1, <3>3
  <2>2. CASE \E w \in found : req' = [req EXCEPT ![r].win = w, ![r].at = "type"]
    <3>1. PICK w \in found : req' = [req EXCEPT ![r].win = w, ![r].at = "type"]
      BY <2>2
    <3>2. PICK x : x = [req[r] EXCEPT !.win = w, !.at = "type"]
      OBVIOUS
    <3>3. req' = [req EXCEPT ![r] = x]
      BY <1>1, <3>1, <3>2 DEF TypeOK
    <3>4. QED BY <3>2, <3>3
  <2>3. QED BY <1>5, <2>1, <2>2
<1>7. w \in Windows \cup {0} /\ Its(w, req[r].to) /\ l \in {"type", "failed"} /\ (l = "type" => w # 0)
  BY <1>1, <1>2, <1>4, <1>6 DEF MessageOK
<1>8. /\ x \in Request /\ x.kind = req[r].kind /\ x.from = req[r].from /\ x.to = req[r].to /\ x.win = w
      /\ x.dir = req[r].dir /\ x.at = l
  BY <1>2, <1>6, <1>7 DEF Request
<1>9. TreeStep /\ req'[r] = x /\ x # NoRequest
  BY <1>1, <1>6, <1>8, StutterStep, ChangedFacts
<1>10. MessageOK(r)'
  <2>1. Reached(r)' = {} /\ req[r].kind = "send"
    BY <1>1 DEF MessageOK, Reached
  <2>2. Its(w, req[r].to)'
    <3>1. windows' = windows
      BY <1>1 DEF treeVars
    <3>2. PICK to : to = req[r].to
      OBVIOUS
    <3>3. Its(w, to)'
      BY <1>7, <3>1, <3>2 DEF Its
    <3>4. QED BY <1>8, <1>9, <3>2, <3>3
  <2>3. QED BY <1>7, <1>8, <1>9, <2>1, <2>2 DEF MessageOK
<1>11. CallerOK(r)'
  <2>1. req[r].dir[2] = NoTree
    BY <1>1 DEF CallerOK
  <2>2. QED BY <1>1, <1>8, <1>9, <2>1, CallerKept
<1>12. JoinOK(r)'
  BY <1>1, <1>8, <1>9 DEF JoinOK, MessageOK
<1>13. input' \in [Windows -> SUBSET Requests] /\ inbox' \in [Windows -> SUBSET Requests]
  BY <1>1 DEF TypeOK
<1>14. QED BY <1>1, <1>6, <1>8, <1>9, <1>10, <1>11, <1>12, <1>13, HandlerStep DEF RequestOK

\* A send goes on, and what is typed or submitted is its own message.
LEMMA SendKept ==
  ASSUME IInv, NEW r \in Requests, req[r] # NoRequest, req[r].kind = "send", UNCHANGED treeVars, asked' = asked,
         NEW l \in {"enter", "delivered", "failed"}, NEW u \in BOOLEAN, NEW f \in BOOLEAN,
         req' = [req EXCEPT ![r].at = l, ![r].unheard = u, ![r].unentered = f],
         input' \in [Windows -> SUBSET Requests], inbox' \in [Windows -> SUBSET Requests],
         \A q \in Requests : q # r => \A w \in Windows :
           (q \in input'[w] \cup inbox'[w] <=> q \in input[w] \cup inbox[w]) /\ (q \in inbox[w] => q \in inbox'[w]),
         \A w \in Windows : r \in input'[w] \cup inbox'[w] <=> (l # "failed" /\ ~u /\ w = req[r].win),
         l # "failed" => req[r].win # 0,
         l = "delivered" => u \/ f \/ r \in inbox'[req[r].win]
  PROVE  IInv'
<1>1. TypeOK /\ TreeInv /\ MessageOK(r) /\ CallerOK(r)
  BY DEF IInv, RequestOK
<1>2. PICK x : x = [req[r] EXCEPT !.at = l, !.unheard = u, !.unentered = f]
  OBVIOUS
<1>3. req[r] \in Request /\ req[r].win \in Windows \cup {0} /\ req[r].win \in Nat
  BY <1>1, RequestFacts
<1>4. /\ x \in Request /\ x.kind = "send" /\ x.from = req[r].from /\ x.to = req[r].to /\ x.win = req[r].win
      /\ x.dir = req[r].dir /\ x.at = l /\ x.unheard = u /\ x.unentered = f
  BY <1>2, <1>3 DEF Request
<1>5. req' = [req EXCEPT ![r] = x]
  BY <1>1, <1>2 DEF TypeOK
<1>6. req'[r] = x /\ x # NoRequest /\ TreeStep
  <2>1. req'[r] = x /\ x # NoRequest
    BY <1>1, <1>4, <1>5, NoRequestFacts DEF TypeOK
  <2>2. TreeStep
    BY <1>1, StutterStep
  <2>3. QED BY <2>1, <2>2
<1>7. MessageOK(r)'
  <2>1. Reached(r)' = IF l = "failed" \/ u THEN {} ELSE {x.win}
    BY <1>3, <1>4 DEF Reached
  <2>2. Its(x.win, x.to)'
    <3>1. windows' = windows
      BY DEF treeVars
    <3>2. QED BY <1>1, <1>4, <3>1 DEF MessageOK, Its
  <2>3. Reached(r)' \subseteq {w \in Windows : x.win = w}
    BY <1>3, <1>4, <2>1
  <2>4. QED BY <1>4, <1>6, <2>1, <2>2, <2>3 DEF MessageOK
<1>8. CallerOK(r)'
  <2>1. req[r].dir[2] = NoTree
    BY <1>1 DEF CallerOK
  <2>2. QED BY <1>4, <1>6, <2>1, CallerKept
<1>9. JoinOK(r)'
  BY <1>4, <1>6 DEF JoinOK
<1>10. QED BY <1>4, <1>5, <1>6, <1>7, <1>8, <1>9, HandlerStep DEF RequestOK

\* The text is typed into the window of the recipient, lost in a dead pane,
\* or refused by tmux.
LEMMA TypeTextKept == ASSUME IInv, NEW r \in Requests, TypeText(r) PROVE IInv'
<1>1. TypeOK /\ MessageOK(r) /\ UNCHANGED treeVars /\ asked' = asked /\ inbox' = inbox /\ req[r] # NoRequest /\ req[r].at = "type"
  BY DEF IInv, RequestOK, TypeText, At
<1>2. /\ req[r] \in Request /\ req[r].win \in Windows /\ req[r].kind = "send" /\ Reached(r) = {}
      /\ req[r].unheard \in BOOLEAN /\ req[r].unentered \in BOOLEAN
  BY <1>1, RequestFacts DEF MessageOK
<1>3. PICK u, f, w : u = ~Heard(req[r].win) /\ f = req[r].unentered /\ w = req[r].win
  OBVIOUS
<1>4. u \in BOOLEAN /\ f \in BOOLEAN
  BY <1>2, <1>3
<1>5. \A v \in Windows : r \notin input[v] \cup inbox[v]
  BY <1>2 DEF Reached
<1>6. MaxWindows \in Nat /\ req[r].win # 0
  BY <1>2, ConstantsAssumption DEF Windows
<1>7. CASE req' = [req EXCEPT ![r].at = "enter", ![r].unheard = u] /\ input' = IF u THEN input ELSE [input EXCEPT ![w] = @ \cup {r}]
  <2>1. /\ input' \in [Windows -> SUBSET Requests] /\ inbox' \in [Windows -> SUBSET Requests]
        /\ \A v \in Windows : input'[v] = IF ~u /\ v = w THEN input[v] \cup {r} ELSE input[v]
    BY <1>1, <1>2, <1>3, <1>7 DEF TypeOK
  <2>2. \A q \in Requests : q # r => \A v \in Windows :
          (q \in input'[v] \cup inbox'[v] <=> q \in input[v] \cup inbox[v]) /\ (q \in inbox[v] => q \in inbox'[v])
    BY <1>1, <2>1
  <2>3. \A v \in Windows : r \in input'[v] \cup inbox'[v] <=> ~u /\ v = req[r].win
    BY <1>1, <1>3, <1>5, <2>1
  <2>4. req' = [req EXCEPT ![r].at = "enter", ![r].unheard = u, ![r].unentered = f]
    <3>1. [req[r] EXCEPT !.at = "enter", !.unheard = u] = [req[r] EXCEPT !.at = "enter", !.unheard = u, !.unentered = f]
      BY <1>2, <1>3 DEF Request
    <3>2. QED BY <1>1, <1>7, <3>1 DEF TypeOK
  <2>5. QED BY <1>1, <1>2, <1>4, <1>6, <2>1, <2>2, <2>3, <2>4, SendKept
<1>8. CASE Goto(r, "failed") /\ UNCHANGED input
  <2>1. input' \in [Windows -> SUBSET Requests] /\ inbox' \in [Windows -> SUBSET Requests]
    BY <1>1, <1>8 DEF TypeOK
  <2>2. PICK v : v = req[r].unheard
    OBVIOUS
  <2>3. req' = [req EXCEPT ![r].at = "failed", ![r].unheard = v, ![r].unentered = f]
    <3>1. [req[r] EXCEPT !.at = "failed"] = [req[r] EXCEPT !.at = "failed", !.unheard = v, !.unentered = f]
      BY <1>2, <1>3, <2>2 DEF Request
    <3>2. QED BY <1>1, <1>8, <3>1 DEF TypeOK, Goto
  <2>4. \A x \in Windows : r \notin input'[x] \cup inbox'[x]
    BY <1>1, <1>5, <1>8
  <2>5. QED BY <1>1, <1>2, <1>4, <1>8, <2>1, <2>2, <2>3, <2>4, SendKept
<1>9. QED BY <1>2, <1>3, <1>7, <1>8 DEF TypeText

\* What is typed in the window is submitted, or it stays there.
LEMMA PressEnterKept == ASSUME IInv, NEW r \in Requests, PressEnter(r) PROVE IInv'
<1>1. TypeOK /\ MessageOK(r) /\ UNCHANGED treeVars /\ asked' = asked /\ req[r] # NoRequest /\ req[r].at = "enter"
  BY DEF IInv, RequestOK, PressEnter, At
<1>2. PICK u, f : u = req[r].unheard /\ f = req[r].unentered
  OBVIOUS
<1>3. /\ req[r] \in Request /\ req[r].win \in Windows /\ req[r].kind = "send" /\ Reached(r) = (IF u THEN {} ELSE {req[r].win})
      /\ u \in BOOLEAN /\ f \in BOOLEAN
  <2>1. req[r] \in Request /\ req[r].win \in Windows \cup {0} /\ req[r].unheard \in BOOLEAN /\ req[r].unentered \in BOOLEAN
    BY <1>1, RequestFacts
  <2>2. /\ req[r].win # 0 /\ Reached(r) \subseteq {w \in Windows : req[r].win = w} /\ req[r].kind = "send"
        /\ (Reached(r) = {} <=> req[r].unheard)
    BY <1>1 DEF MessageOK
  <2>3. QED BY <1>2, <2>1, <2>2
<1>4. \A w \in Windows : r \in input[w] \cup inbox[w] <=> ~u /\ w = req[r].win
  BY <1>3 DEF Reached
<1>5. MaxWindows \in Nat /\ req[r].win # 0
  BY <1>3, ConstantsAssumption DEF Windows
<1>6. CASE Goto(r, "delivered") /\ inbox' = [inbox EXCEPT ![req[r].win] = @ \cup input[req[r].win]]
           /\ input' = [input EXCEPT ![req[r].win] = {}]
  <2>1. /\ input' \in [Windows -> SUBSET Requests] /\ inbox' \in [Windows -> SUBSET Requests]
        /\ \A w \in Windows : /\ input'[w] = IF w = req[r].win THEN {} ELSE input[w]
                              /\ inbox'[w] = IF w = req[r].win THEN inbox[w] \cup input[w] ELSE inbox[w]
    BY <1>1, <1>3, <1>6 DEF TypeOK
  <2>2. \A q \in Requests : \A w \in Windows :
          (q \in input'[w] \cup inbox'[w] <=> q \in input[w] \cup inbox[w]) /\ (q \in inbox[w] => q \in inbox'[w])
    BY <2>1
  <2>3. \A w \in Windows : r \in input'[w] \cup inbox'[w] <=> ~u /\ w = req[r].win
    BY <1>4, <2>2
  <2>4. u \/ r \in inbox'[req[r].win]
    BY <1>3, <1>4, <2>1
  <2>5. req' = [req EXCEPT ![r].at = "delivered", ![r].unheard = u, ![r].unentered = f]
    <3>1. [req[r] EXCEPT !.at = "delivered"] = [req[r] EXCEPT !.at = "delivered", !.unheard = u, !.unentered = f]
      BY <1>2, <1>3 DEF Request
    <3>2. QED BY <1>1, <1>6, <3>1 DEF TypeOK, Goto
  <2>6. QED BY <1>1, <1>3, <1>5, <2>1, <2>2, <2>3, <2>4, <2>5, SendKept
<1>7. CASE req' = [req EXCEPT ![r].at = "delivered", ![r].unentered = TRUE] /\ UNCHANGED <<input, inbox>>
  <2>1. input' \in [Windows -> SUBSET Requests] /\ inbox' \in [Windows -> SUBSET Requests]
    BY <1>1, <1>7 DEF TypeOK
  <2>2. \A w \in Windows : r \in input'[w] \cup inbox'[w] <=> ~u /\ w = req[r].win
    BY <1>4, <1>7
  <2>3. req' = [req EXCEPT ![r].at = "delivered", ![r].unheard = u, ![r].unentered = TRUE]
    <3>1. [req[r] EXCEPT !.at = "delivered", !.unentered = TRUE] = [req[r] EXCEPT !.at = "delivered", !.unheard = u, !.unentered = TRUE]
      BY <1>2, <1>3 DEF Request
    <3>2. QED BY <1>1, <1>7, <3>1 DEF TypeOK
  <2>4. QED BY <1>1, <1>3, <1>5, <1>7, <2>1, <2>2, <2>3, SendKept
<1>8. QED BY <1>6, <1>7 DEF PressEnter

\* The project of the caller is found, and it is the one the caller is in.
LEMMA FindProjectKept == ASSUME IInv, NEW r \in Requests, FindProject(r) PROVE IInv'
<1>1. /\ TypeOK /\ TreeInv /\ MessageOK(r) /\ CallerOK(r) /\ JoinOK(r) /\ UNCHANGED <<treeVars, asked, input, inbox>>
      /\ UNCHANGED <<asked, input, inbox>> /\ UNCHANGED treeVars /\ req[r] # NoRequest /\ req[r].at = "find"
  BY DEF IInv, RequestOK, FindProject, At
<1>2. PICK i : i = FindProjectForSession(req[r].from)
  OBVIOUS
<1>3. TreeStep /\ req[r].kind \notin {"send", "resume"} /\ req[r] \in Request
  <2>1. TreeStep
    BY <1>1, StutterStep
  <2>2. QED BY <1>1, <2>1, RequestFacts DEF MessageOK, JoinOK
<1>4. CASE i = 0
  <2>1. Goto(r, "failed")
    BY <1>2, <1>4 DEF FindProject, Goto
  <2>2. QED BY <1>1, <1>3, <2>1, AtMoved
<1>5. CASE i # 0
  <2>1. PICK dir, x : dir = projects[i].path /\ x = [req[r] EXCEPT !.at = "create", !.dir = dir] /\ req' = [req EXCEPT ![r] = x]
    BY <1>2, <1>5 DEF FindProject
  <2>2. projects \in Seq(Project)
    BY <1>1, TreeFacts
  <2>3. i \in DOMAIN projects /\ Has(projects[i], req[r].from)
    BY <1>2, <1>5, <2>2, ProjectOfFacts DEF FindProjectForSession
  <2>4. PICK s \in Members(projects[i]) : s.id = req[r].from
    BY <2>3 DEF Has
  <2>5. PICK e : e = <<dir, s>>
    OBVIOUS
  <2>6. e \in Entries(projects) /\ e[1] = dir /\ e[2].id = req[r].from
    BY <2>1, <2>2, <2>3, <2>4, <2>5, EntriesFacts
  <2>7. e[2].host = Local /\ dir \in Paths
    BY <1>1, <1>3, <2>2, <2>6, EntriesFacts DEF CallerOK
  <2>8. dir[2] = NoTree
    BY <1>1, <2>6, <2>7, TreeFacts DEF EntryOK
  <2>9. \A o \in Entries(projects) : o[2].id = req[r].from => o[1] = dir /\ o[2].host = Local
    <3>1. ASSUME NEW o \in Entries(projects), o[2].id = req[r].from PROVE o[1] = e[1] /\ o[2].host = e[2].host
      BY <1>1, <2>6, <3>1, OneProject
    <3>2. QED BY <2>6, <2>7, <3>1
  <2>10. /\ x \in Request /\ x.kind = req[r].kind /\ x.from = req[r].from /\ x.to = req[r].to /\ x.win = req[r].win
         /\ x.dir = dir /\ x.at = "create"
    BY <1>3, <2>1, <2>7 DEF Request
  <2>11. req'[r] = x /\ x # NoRequest
    BY <1>1, <2>1, <2>10, NoRequestFacts DEF TypeOK
  <2>12. MessageOK(r)'
    <3>1. Reached(r)' = {} /\ x.win = 0
      BY <1>1, <1>3, <2>10 DEF MessageOK, Reached
    <3>2. Its(x.win, x.to)'
      BY <3>1 DEF Its
    <3>3. QED BY <1>3, <2>10, <2>11, <3>1, <3>2 DEF MessageOK
  <2>13. CallerOK(r)'
    BY <1>1, <1>3, <2>8, <2>10, <2>11, CallerKept
  <2>14. JoinOK(r)'
    <3>1. projects' = projects
      BY <1>1 DEF treeVars
    <3>2. QED BY <1>3, <2>9, <2>10, <2>11, <3>1 DEF JoinOK, Lives
  <2>15. input' \in [Windows -> SUBSET Requests] /\ inbox' \in [Windows -> SUBSET Requests]
    BY <1>1 DEF TypeOK
  <2>16. QED BY <1>1, <1>3, <2>1, <2>10, <2>12, <2>13, <2>14, <2>15, HandlerStep DEF RequestOK
<1>6. QED BY <1>4, <1>5

\* What is made for the caller is put into the project that was found.
LEMMA CreateSessionKept == ASSUME IInv, NEW r \in Requests, CreateSession(r) PROVE IInv'
<1>1. /\ TypeOK /\ TreeInv /\ MessageOK(r) /\ CallerOK(r) /\ JoinOK(r)
      /\ UNCHANGED <<asked, input, inbox>> /\ req[r] # NoRequest /\ req[r].at = "create" /\ req[r].kind # "resume"
  BY DEF IInv, RequestOK, CreateSession, At
<1>2. PICK k, root, name : k = req[r].kind /\ root = req[r].dir /\ name = req[r].name
  OBVIOUS
<1>3. /\ req[r] \in Request /\ root \in Paths /\ name \in Trees /\ root[2] = NoTree /\ k \in {"worker", "pm", "local"}
  BY <1>1, <1>2, RequestFacts DEF MessageOK, CallerOK, Kinds
<1>4. ASSUME NEW new \in Ids \ used,
             \/ k = "worker" /\ CreateWorktree(new, name, root)
             \/ k = "pm" /\ CreatePM(new, root)
             \/ k = "local" /\ Create(new, root),
             NEW next \in {IF k = "local" THEN "rename" ELSE "answered", "failed"},
             req' = [req EXCEPT ![r].to = new, ![r].at = IF new \notin used' THEN "failed" ELSE next]
      PROVE  IInv'
  <2>1. PICK l, x :
          /\ l = (IF new \notin used' THEN "failed" ELSE next)
          /\ x = [req[r] EXCEPT !.to = new, !.at = l] /\ req' = [req EXCEPT ![r] = x]
    BY <1>4
  <2>2. TreeStep /\ (new \in used' => Lives(new, root)')
    <3>1. CASE k = "worker"
      <4>1. CreateWorktree(new, name, root)
        BY <1>4, <3>1
      <4>2. TreeStep /\ (new \in used \/ new \notin used' \/ Lives(new, root)')
        BY <1>1, <1>3, <4>1, CreateWorktreeStep
      <4>3. QED BY <4>2
    <3>2. CASE k = "pm"
      <4>1. CreatePM(new, root)
        BY <1>4, <3>2
      <4>2. QED BY <1>1, <1>3, <4>1, CreatePMStep
    <3>3. CASE k = "local"
      <4>1. Create(new, root)
        BY <1>4, <3>3
      <4>2. TreeStep /\ Lives(new, InferProjectRoot(root))'
        BY <1>1, <1>3, <4>1, CreateStep
      <4>3. InferProjectRoot(root) = root
        BY <1>3 DEF InferProjectRoot, Paths
      <4>4. QED BY <4>2, <4>3 DEF Lives
    <3>4. QED BY <1>3, <3>1, <3>2, <3>3
  <2>3. new \in used' => \A e \in Entries(projects') : e[2].id = new => e[1] = root /\ e[2].host = Local
    BY <2>2 DEF Lives
  <2>4. l \in {"failed", "rename", "answered"} /\ (l # "failed" => new \in used')
    BY <2>1
  <2>5. /\ x \in Request /\ x.kind = k /\ x.from = req[r].from /\ x.to = new /\ x.win = req[r].win
        /\ x.dir = root /\ x.at = l
    BY <1>2, <1>3, <2>1, <2>4 DEF Request
  <2>6. req'[r] = x /\ x # NoRequest
    BY <1>1, <2>1, <2>5, NoRequestFacts DEF TypeOK
  <2>7. MessageOK(r)'
    <3>1. Reached(r)' = {} /\ x.win = 0
      BY <1>1, <1>2, <1>3, <2>5 DEF MessageOK, Reached
    <3>2. Its(x.win, x.to)'
      BY <3>1 DEF Its
    <3>3. QED BY <1>3, <2>4, <2>5, <2>6, <3>1, <3>2 DEF MessageOK
  <2>8. CallerOK(r)'
    BY <1>1, <1>2, <1>3, <2>2, <2>5, <2>6, CallerKept
  <2>9. JoinOK(r)'
    <3>1. req[r].from \in used /\ (byName \/ Lives(req[r].from, root))
      BY <1>1, <1>2, <1>3 DEF JoinOK, CallerOK
    <3>2. byName' \/ \A e \in Entries(projects') : e[2].id = req[r].from => e[1] = root /\ e[2].host = Local
      <4>1. byName => byName'
        BY <2>2 DEF TreeStep
      <4>2. QED BY <1>1, <2>2, <3>1, <4>1, LivesKept
    <3>3. QED BY <1>3, <2>3, <2>4, <2>5, <2>6, <3>2 DEF JoinOK, Lives
  <2>10. input' \in [Windows -> SUBSET Requests] /\ inbox' \in [Windows -> SUBSET Requests]
    BY <1>1 DEF TypeOK
  <2>11. QED BY <1>1, <2>1, <2>2, <2>5, <2>7, <2>8, <2>9, <2>10, HandlerStep DEF RequestOK
<1>5. ASSUME Goto(r, "failed"), UNCHANGED treeVars PROVE IInv'
  <2>1. TreeStep
    BY <1>1, <1>5, StutterStep
  <2>2. QED BY <1>1, <1>2, <1>3, <1>5, <2>1, AtMoved
<1>6. QED BY <1>2, <1>4, <1>5 DEF CreateSession

\* The new session is renamed.
LEMMA RenameLocalKept == ASSUME IInv, NEW r \in Requests, RenameLocal(r) PROVE IInv'
<1>1. /\ TypeOK /\ TreeInv /\ MessageOK(r) /\ UNCHANGED <<asked, input, inbox>> /\ req[r] # NoRequest /\ req[r].at = "rename"
  BY DEF IInv, RequestOK, RenameLocal, At
<1>2. req[r].to \in Ids /\ req[r].name \in Trees /\ req[r].kind # "send"
  BY <1>1, RequestFacts DEF MessageOK
<1>3. CASE Rename(req[r].to, req[r].name) /\ Goto(r, "prompt")
  <2>1. TreeStep
    BY <1>1, <1>2, <1>3, RenameStep
  <2>2. QED BY <1>1, <1>2, <1>3, <2>1, AtMoved
<1>4. CASE Goto(r, "failed") /\ UNCHANGED treeVars
  <2>1. TreeStep
    BY <1>1, <1>4, StutterStep
  <2>2. QED BY <1>1, <1>2, <1>4, <2>1, AtMoved
<1>5. QED BY <1>3, <1>4 DEF RenameLocal

\* The record of a new session has no window: no prompt is typed.
LEMMA SendPromptKept == ASSUME IInv, NEW r \in Requests, SendPrompt(r) PROVE IInv'
<1>1. /\ TypeOK /\ TreeInv /\ MessageOK(r) /\ UNCHANGED <<asked, input, inbox>> /\ UNCHANGED treeVars
      /\ req[r] # NoRequest /\ req[r].at = "prompt"
  BY DEF IInv, RequestOK, SendPrompt, At
<1>2. req[r].kind # "send" /\ req[r].win = 0
  BY <1>1 DEF MessageOK
<1>3. Goto(r, "answered")
  BY <1>2 DEF SendPrompt
<1>4. TreeStep
  BY <1>1, StutterStep
<1>5. QED BY <1>1, <1>2, <1>3, <1>4, AtMoved

\* A session is resumed for a request.
LEMMA ResumeSessionKept == ASSUME IInv, NEW r \in Requests, ResumeSession(r) PROVE IInv'
<1>1. /\ TypeOK /\ TreeInv /\ UNCHANGED <<asked, input, inbox>> /\ req[r] # NoRequest /\ req[r].kind = "resume"
  BY DEF IInv, ResumeSession, At
<1>2. req[r].to \in Ids /\ req[r].name \in Trees
  BY <1>1, RequestFacts
<1>3. ASSUME ResumeKnown(req[r].to) \/ ResumeCollected(req[r].to, req[r].name), NEW l \in {"answered", "failed"}, Goto(r, l)
      PROVE  IInv'
  <2>1. TreeStep
    BY <1>1, <1>2, <1>3, ResumeKnownStep, ResumeCollectedStep
  <2>2. QED BY <1>1, <1>3, <2>1, AtMoved
<1>4. CASE Goto(r, "failed") /\ UNCHANGED treeVars
  <2>1. TreeStep
    BY <1>1, <1>4, StutterStep
  <2>2. QED BY <1>1, <1>4, <2>1, AtMoved
<1>5. QED BY <1>3, <1>4 DEF ResumeSession

\* What the user, the collector and remote connections do.
LEMMA UserStepFacts == ASSUME TreeInv, NEW id \in Ids, UserStep(id) PROVE TreeStep
<1>1. CASE Delete(id) \/ Exit(id) \/ Close(id)
  BY <1>1, DeleteStep, ExitStep
<1>2. CASE ResumeKnown(id)
  BY <1>2, ResumeKnownStep
<1>3. ASSUME NEW name \in Trees, ResumeCollected(id, name) \/ Rename(id, name) PROVE TreeStep
  BY <1>3, ResumeCollectedStep, RenameStep
<1>4. ASSUME NEW d \in Dirs,
             LET root == <<d, NoTree>> IN
               \/ Create(id, root) \/ CreatePM(id, root)
               \/ \E name \in Trees :
                    \/ CreateWorktree(id, name, root) \/ ResumeWorktree(id, name, root)
                    \/ \E h \in Remotes, path, at \in {root, <<d, name>>} : AddMirror(id, path, h, at)
      PROVE  TreeStep
  <2>1. PICK root : root = <<d, NoTree>>
    OBVIOUS
  <2>2. root \in Paths /\ root[2] = NoTree
    BY <2>1 DEF Paths
  <2>3. CASE Create(id, root)
    BY <2>2, <2>3, CreateStep
  <2>4. CASE CreatePM(id, root)
    BY <2>2, <2>4, CreatePMStep
  <2>5. ASSUME NEW name \in Trees, CreateWorktree(id, name, root) PROVE TreeStep
    BY <2>2, <2>5, CreateWorktreeStep
  <2>6. ASSUME NEW name \in Trees, ResumeWorktree(id, name, root) PROVE TreeStep
    BY <2>2, <2>6, ResumeWorktreeStep
  <2>7. ASSUME NEW name \in Trees, NEW h \in Remotes, NEW path \in {root, <<d, name>>}, NEW at \in {root, <<d, name>>},
               AddMirror(id, path, h, at)
        PROVE  TreeStep
    <3>1. path \in Paths /\ at \in Paths
      BY <2>2 DEF Paths
    <3>2. QED BY <2>7, <3>1, AddMirrorStep
  <2>8. QED BY <1>4, <2>1, <2>3, <2>4, <2>5, <2>6, <2>7
<1>5. QED BY <1>1, <1>2, <1>3, <1>4 DEF UserStep

\* No step of theirs touches a request or a message.
LEMMA OthersKept == ASSUME IInv, User \/ UNCHANGED vars PROVE IInv'
<1>1. TypeOK /\ TreeInv /\ UNCHANGED <<asked, req, input, inbox>>
  BY DEF IInv, User, vars
<1>2. TreeStep
  <2>1. CASE \E id \in Ids : UserStep(id)
    BY <1>1, <2>1, UserStepFacts
  <2>2. CASE Sync
    BY <1>1, <2>2, SyncStep
  <2>3. CASE UNCHANGED vars
    BY <1>1, <2>3, StutterStep DEF vars
  <2>4. QED BY <2>1, <2>2, <2>3 DEF User
<1>3. TreeInv'
  BY <1>2 DEF TreeStep
<1>4. TypeOK'
  BY <1>1, <1>3 DEF TypeOK, TreeInv
<1>5. ASSUME NEW q \in Requests PROVE RequestOK(q)'
  BY <1>1, <1>2, RequestKept
<1>6. QED BY <1>3, <1>4, <1>5 DEF IInv

\* The store is empty, no request is there.
LEMMA InitOK == Init => IInv
<1> SUFFICES ASSUME Init PROVE IInv
  OBVIOUS
<1>1. /\ projects = <<>> /\ windows = <<>> /\ dirs = {} /\ used = {} /\ unsaved = {} /\ renamed = FALSE /\ byName = FALSE
      /\ MaxWindows \in Nat
  BY ConstantsAssumption DEF Init, TreeInit
<1>2. TreeTypeOK
  <2>1. projects \in Seq(Project)
    BY <1>1
  <2>2. windows \in Seq(Window) /\ Len(windows) =< MaxWindows
    BY <1>1
  <2>3. dirs \subseteq Dirs \X Trees /\ {used, unsaved} \subseteq SUBSET Ids /\ renamed \in BOOLEAN /\ byName \in BOOLEAN
    BY <1>1
  <2>4. QED BY <2>1, <2>2, <2>3 DEF TreeTypeOK
<1>3. TypeOK
  BY <1>2, RequestsAssumption DEF Init, TypeOK
<1>4. Entries(projects) = {} /\ All = {}
  BY <1>1 DEF Entries, All
<1>5. TreeInv
  BY <1>1, <1>2, <1>4 DEF TreeInv, ProjectsAreSound, Sound, EntriesInv, WorktreeHasOneSession
<1>6. ASSUME NEW r \in Requests PROVE RequestOK(r)
  <2>1. req[r] = NoRequest /\ NoRequest.kind = "none" /\ Reached(r) = {}
    BY NoRequestFacts DEF Init, Reached
  <2>2. QED BY <2>1 DEF RequestOK, MessageOK, CallerOK, JoinOK
<1>7. QED BY <1>3, <1>5, <1>6 DEF IInv

\* Every step keeps the invariant.
LEMMA StepOK == IInv /\ [Next]_vars => IInv'
<1> SUFFICES ASSUME IInv, [Next]_vars PROVE IInv'
  OBVIOUS
<1>1. ASSUME NEW r \in Requests, Start(r) \/ Handle(r) PROVE IInv'
  <2>1. CASE Start(r)
    BY <2>1, StartKept
  <2>2. CASE Resolve(r)
    BY <2>2, ResolveKept
  <2>3. CASE TypeText(r)
    BY <2>3, TypeTextKept
  <2>4. CASE PressEnter(r)
    BY <2>4, PressEnterKept
  <2>5. CASE FindProject(r)
    BY <2>5, FindProjectKept
  <2>6. CASE CreateSession(r)
    BY <2>6, CreateSessionKept
  <2>7. CASE RenameLocal(r)
    BY <2>7, RenameLocalKept
  <2>8. CASE SendPrompt(r)
    BY <2>8, SendPromptKept
  <2>9. CASE ResumeSession(r)
    BY <2>9, ResumeSessionKept
  <2>10. QED BY <1>1, <2>1, <2>2, <2>3, <2>4, <2>5, <2>6, <2>7, <2>8, <2>9 DEF Handle
<1>2. CASE User \/ UNCHANGED vars
  BY <1>2, OthersKept
<1>3. QED BY <1>1, <1>2 DEF Next

-----------------------------------------------------------------------------
(* The theorems.                                                           *)

\* IInv implies what the runs check of messages.
LEMMA MessagesFollow == IInv => MessageReachesRecipient
<1> SUFFICES ASSUME IInv PROVE MessageReachesRecipient
  OBVIOUS
<1>1. TypeOK /\ TreeInv /\ \A r \in Requests : MessageOK(r)
  BY DEF IInv, RequestOK
<1>2. ASSUME NEW r \in Requests, req[r].kind = "send"
      PROVE  /\ \A w \in Reached(r) : windows[w].id = req[r].to
             /\ req[r].at = "delivered" =>
                  /\ Reached(r) = IF req[r].unheard THEN {} ELSE {req[r].win}
                  /\ req[r].unheard \/ req[r].unentered \/ r \in inbox[req[r].win]
             /\ req[r].at = "failed" => Reached(r) = {}
  <2>1. req[r] # NoRequest
    BY <1>2, NoRequestFacts
  <2>2. \A w \in Reached(r) : w = req[r].win /\ w # 0
    <3>1. 0 \notin Windows
      BY ConstantsAssumption DEF Windows
    <3>2. QED BY <1>1, <2>1, <3>1 DEF MessageOK
  <2>3. \A w \in Reached(r) : windows[w].id = req[r].to
    BY <1>1, <2>1, <2>2 DEF MessageOK, Its
  <2>4. req[r].at = "delivered" =>
          /\ Reached(r) = IF req[r].unheard THEN {} ELSE {req[r].win}
          /\ req[r].unheard \/ req[r].unentered \/ r \in inbox[req[r].win]
    BY <1>1, <2>1, <2>2 DEF MessageOK
  <2>5. req[r].at = "failed" => Reached(r) = {}
    BY <1>1, <2>1 DEF MessageOK
  <2>6. QED BY <2>3, <2>4, <2>5
<1>3. QED BY <1>2 DEF MessageReachesRecipient, Reached

\* IInv implies what the runs check of callers: both live in the project
\* that was found, and no other project of this machine has its path.
LEMMA CallersFollow == IInv => WorkerJoinsCaller
<1> SUFFICES ASSUME IInv, ~byName, NEW r \in Requests, req[r].kind \in {"worker", "pm", "local"},
                    req[r].at \in {"rename", "prompt", "answered"}
             PROVE  LET i == FindProjectForSession(req[r].from) j == FindProjectForSession(req[r].to) IN i # 0 /\ j # 0 => i = j
  BY DEF WorkerJoinsCaller
<1>1. TreeInv /\ JoinOK(r)
  BY DEF IInv, RequestOK
<1>2. projects \in Seq(Project) /\ Tidy(projects, unsaved)
  BY <1>1, TreeFacts
<1>3. PICK path : path = req[r].dir
  OBVIOUS
<1>4. Lives(req[r].from, path) /\ Lives(req[r].to, path)
  BY <1>1, <1>3 DEF JoinOK
<1>5. ASSUME NEW id, Lives(id, path), NEW i, i = FindProjectForSession(id), i # 0
      PROVE  i \in DOMAIN projects /\ projects[i].path = path /\ \E s \in Members(projects[i]) : s.host = Local
  <2>1. i \in DOMAIN projects /\ Has(projects[i], id)
    BY <1>2, <1>5, ProjectOfFacts DEF FindProjectForSession
  <2>2. PICK s \in Members(projects[i]) : s.id = id
    BY <2>1 DEF Has
  <2>3. PICK e : e = <<projects[i].path, s>>
    OBVIOUS
  <2>4. e \in Entries(projects) /\ e[1] = projects[i].path /\ e[2] = s
    BY <1>2, <2>1, <2>2, <2>3, EntriesFacts
  <2>5. e[1] = path /\ e[2].host = Local
    BY <1>5, <2>2, <2>4 DEF Lives
  <2>6. QED BY <2>1, <2>2, <2>4, <2>5
<1>6. ASSUME NEW i, i = FindProjectForSession(req[r].from), i # 0, NEW j, j = FindProjectForSession(req[r].to), j # 0
      PROVE  i = j
  <2>1. i \in DOMAIN projects /\ projects[i].path = path /\ \E s \in Members(projects[i]) : s.host = Local
    BY <1>4, <1>5, <1>6
  <2>2. j \in DOMAIN projects /\ projects[j].path = path /\ \E s \in Members(projects[j]) : s.host = Local
    BY <1>4, <1>5, <1>6
  <2>3. QED BY <1>2, <2>1, <2>2 DEF Tidy, Separate
<1>7. QED BY <1>6

\* Requests, sessions, windows and messages are what they are said to be,
\* whatever handlers, the user and the collector do.
THEOREM TypeCorrect == Spec => []TypeOK
<1>1. IInv => TypeOK
  BY DEF IInv
<1>2. QED BY InitOK, StepOK, <1>1, PTL DEF Spec

\* No project of the store is empty, mixes hosts or has a twin, no session is
\* in two projects, or in two places of one unless a resume of it could not
\* save what it had launched, and no worktree has two sessions (unless one was
\* renamed, or resumed by the name of its worktree).
THEOREM StoreStaysSound == Spec => []StoreIsSound
<1>1. IInv => StoreIsSound
  BY DEF IInv, TreeInv, StoreIsSound
<1>2. QED BY InitOK, StepOK, <1>1, PTL DEF Spec

\* A message is typed into a window of its recipient or nowhere, and its
\* answer says which, unless Claude had exited there.
THEOREM MessagesReachRecipients == Spec => []MessageReachesRecipient
<1>1. QED BY InitOK, StepOK, MessagesFollow, PTL DEF Spec

\* What is made for a session is in the project of that session.
THEOREM WorkersJoinCallers == Spec => []WorkerJoinsCaller
<1>1. QED BY InitOK, StepOK, CallersFollow, PTL DEF Spec
=============================================================================
