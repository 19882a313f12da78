--------------------------- MODULE DaemonFeedProofs ---------------------------
(* The proofs about DaemonFeed: for any sessions, connections, events,     *)
(* calls and buffers the GUI is given the tool prompts of a host in their   *)
(* order, a launched session stays in the cache unless its launch crosses a *)
(* list or the answer of a delete, and the sidebar shows the activity of    *)
(* the session it names.                                                    *)
EXTENDS DaemonFeed, SequenceTheorems, FiniteSetTheorems, TLAPS

\* What the wire carries, for the snapshots in R.
Numbered == [kind : {"activity", "prompt"}, id : Windows \cup {NoId}, window : Windows, n : 1 .. MaxEvents]
Message(R) == Numbered \cup [kind : {"sync"}, ids : R]
\* A prompt as the provider passes it on.
Given == [window : Windows, mirror : Windows \cup {NoId}, n : 1 .. MaxEvents]

\* The types of what a prompt goes through.
FeedTypes ==
  /\ published \in 0 .. MaxEvents
  /\ current \in Providers \cup {0}
  /\ step \in [Providers -> {"off", "list", "listed", "stream", "up"}]
  /\ stream \in [Providers -> {"none", "open", "subscribed", "ended"}]
  /\ sub \in [Providers -> Seq(Hooks)]
  /\ \E R : wire \in [Providers -> Seq(Message(R))]
  /\ notes \in [Providers -> Seq(Given)]
  /\ prompts \in Seq(Given)

\* Nothing arrives at a provider before StartSSE.
UnstartedInv ==
  \A p \in Providers : step[p] # "up" => stream[p] = "none" /\ sub[p] = <<>> /\ wire[p] = <<>> /\ notes[p] = <<>>

\* Sequences of numbered entries: in order, all before another's, all up to a number.
Rising(s) == \A i, j \in 1 .. Len(s) : i < j => s[i].n < s[j].n
Below(s, t) == \A i \in 1 .. Len(s), j \in 1 .. Len(t) : s[i].n < t[j].n
UpTo(s, k) == \A i \in 1 .. Len(s) : s[i].n =< k
\* The same for the wire, whose snapshots have no number.
RisingWire(w) ==
  \A i, j \in 1 .. Len(w) : i < j /\ w[i].kind # "sync" /\ w[j].kind # "sync" => w[i].n < w[j].n
BelowWire(s, w) == \A i \in 1 .. Len(s), j \in 1 .. Len(w) : w[j].kind # "sync" => s[i].n < w[j].n
WireBelow(w, t) == \A i \in 1 .. Len(w), j \in 1 .. Len(t) : w[i].kind # "sync" => w[i].n < t[j].n
WireUpTo(w, k) == \A i \in 1 .. Len(w) : w[i].kind # "sync" => w[i].n =< k

Ahead(x, s, w, t) == Below(x, s) /\ BelowWire(x, w) /\ Below(x, t)
\* The notes, the wire and the subscription of a provider are one queue.
Queue(s, w, t) ==
  /\ Rising(s) /\ RisingWire(w) /\ Rising(t)
  /\ BelowWire(s, w) /\ Below(s, t) /\ WireBelow(w, t)
QueuesInv ==
  \A p \in Providers :
    /\ Queue(notes[p], wire[p], sub[p])
    /\ UpTo(notes[p], published) /\ WireUpTo(wire[p], published) /\ UpTo(sub[p], published)

\* The GUI was given only what is older than anything on its way through
\* the registered provider.
GivenInv ==
  /\ Rising(prompts) /\ UpTo(prompts, published)
  /\ current # 0 => Ahead(prompts, notes[current], wire[current], sub[current])

FeedInv == FeedTypes /\ UnstartedInv /\ QueuesInv /\ GivenInv

USE DEF Providers, daemonVars, streamVars, pipeVars, guiVars, loopVars, madeVars
-----------------------------------------------------------------------------
(* Facts about the sequences.                                              *)

\* A snapshot is no numbered notification.
LEMMA MessageFacts ==
  ASSUME NEW R, NEW e \in Message(R)
  PROVE  e.kind = "sync" \/ (e \in Numbered /\ e.kind # "sync" /\ e.n \in Nat)
BY ConstantsAssumption DEF Message, Numbered

\* Prompts and events carry numbers.
LEMMA NumberFacts ==
  ASSUME NEW S, S = Given \/ S = Hooks, NEW s \in Seq(S)
  PROVE  \A i \in 1 .. Len(s) : s[i].n \in Nat
<1>1. \A e \in S : e.n \in Nat
  <2>1. CASE S = Given
    BY <2>1, ConstantsAssumption DEF Given
  <2>2. CASE S = Hooks
    BY <2>2, ConstantsAssumption DEF Hooks
  <2> QED BY <2>1, <2>2
<1>2. \A i \in 1 .. Len(s) : s[i] \in S
  OBVIOUS
<1> QED BY <1>1, <1>2

\* What Append, Head and Tail do to the length and the entries.
LEMMA AppendFacts ==
  ASSUME NEW S, NEW s \in Seq(S), NEW e \in S
  PROVE  /\ Append(s, e) \in Seq(S) /\ Len(s) \in Nat /\ Len(Append(s, e)) = Len(s) + 1
         /\ \A i \in 1 .. Len(s) : Append(s, e)[i] = s[i]
         /\ Append(s, e)[Len(s) + 1] = e
OBVIOUS

\* The head and the tail of a queue that is not empty.
LEMMA TailFacts ==
  ASSUME NEW S, NEW s \in Seq(S), s # <<>>
  PROVE  /\ Head(s) \in S /\ Head(s) = s[1] /\ Len(s) \in Nat /\ Len(s) > 0
         /\ Tail(s) \in Seq(S) /\ Len(Tail(s)) = Len(s) - 1
         /\ \A i \in 1 .. Len(s) - 1 : Tail(s)[i] = s[i + 1]
OBVIOUS

\* Nothing is below, above or among the entries of an empty sequence.
LEMMA EmptyFacts ==
  ASSUME NEW s, NEW k
  PROVE  /\ Rising(<<>>) /\ RisingWire(<<>>) /\ UpTo(<<>>, k) /\ WireUpTo(<<>>, k)
         /\ Below(s, <<>>) /\ Below(<<>>, s) /\ BelowWire(s, <<>>) /\ BelowWire(<<>>, s)
         /\ WireBelow(s, <<>>) /\ WireBelow(<<>>, s)
BY DEF Rising, RisingWire, UpTo, WireUpTo, Below, BelowWire, WireBelow

\* The other order facts depend on the numbers alone.
LEMMA SameNumbers ==
  ASSUME NEW s, NEW r, NEW w, NEW t, NEW x, NEW k, Len(r) = Len(s), \A i \in 1 .. Len(s) : r[i].n = s[i].n
  PROVE  /\ Queue(s, w, t) => Queue(r, w, t)
         /\ UpTo(s, k) => UpTo(r, k)
         /\ Ahead(x, s, w, t) => Ahead(x, r, w, t)
<1>1. /\ Rising(s) => Rising(r)
      /\ Below(s, t) => Below(r, t)
      /\ Below(x, s) => Below(x, r)
      /\ BelowWire(s, w) => BelowWire(r, w)
      /\ UpTo(s, k) => UpTo(r, k)
  BY DEF Rising, Below, BelowWire, UpTo
<1> QED BY <1>1 DEF Queue, Ahead

\* What waits for a window that is gone keeps its number and its window.
LEMMA WithoutFacts ==
  ASSUME NEW S, S = Given \/ S = Prompt, NEW s, NEW u \in S
  PROVE  /\ Without(s, u) \in S /\ Without(s, u).n = u.n /\ Without(s, u).window = u.window
         /\ Without(s, u).mirror = IF u.mirror = s THEN NoId ELSE u.mirror
<1>1. CASE S = Given
  BY <1>1 DEF Without, Given
<1>2. CASE S = Prompt
  BY <1>2 DEF Without, Prompt
<1> QED BY <1>1, <1>2

\* The same for a queue of such.
LEMMA WithoutAllFacts ==
  ASSUME NEW S, S = Given \/ S = Prompt, NEW s, NEW us \in Seq(S)
  PROVE  /\ WithoutAll(s, us) \in Seq(S) /\ Len(WithoutAll(s, us)) = Len(us)
         /\ \A i \in 1 .. Len(us) : WithoutAll(s, us)[i] = Without(s, us[i]) /\ WithoutAll(s, us)[i].n = us[i].n
<1>1. \A i \in 1 .. Len(us) : us[i] \in S
  OBVIOUS
<1>2. \A i \in 1 .. Len(us) : Without(s, us[i]) \in S /\ Without(s, us[i]).n = us[i].n
  BY <1>1, WithoutFacts
<1>3. Len(us) \in Nat /\ DOMAIN us = 1 .. Len(us)
  OBVIOUS
<1>4. WithoutAll(s, us) \in [1 .. Len(us) -> S]
  BY <1>2, <1>3 DEF WithoutAll
<1>5. WithoutAll(s, us) \in Seq(S) /\ Len(WithoutAll(s, us)) = Len(us)
  BY <1>3, <1>4
<1>6. \A i \in 1 .. Len(us) : WithoutAll(s, us)[i] = Without(s, us[i])
  BY <1>3 DEF WithoutAll
<1> QED BY <1>2, <1>5, <1>6

-----------------------------------------------------------------------------
(* What each step does to a queue s, w, t, and to an x that is ahead of it. *)

\* Publish: the newest number goes to the end.
LEMMA PublishQueue ==
  ASSUME NEW R, NEW x \in Seq(Given), NEW s \in Seq(Given), NEW w \in Seq(Message(R)), NEW t \in Seq(Hooks), NEW k \in Nat,
         Queue(s, w, t), UpTo(s, k), WireUpTo(w, k), UpTo(t, k), UpTo(x, k),
         NEW h \in Hooks, h.n = k + 1
  PROVE  /\ Queue(s, w, Append(t, h)) /\ UpTo(Append(t, h), k + 1)
         /\ Ahead(x, s, w, t) => Ahead(x, s, w, Append(t, h))
<1> DEFINE u == Append(t, h)
<1>1. /\ u \in Seq(Hooks) /\ Len(t) \in Nat /\ Len(u) = Len(t) + 1
      /\ \A i \in 1 .. Len(t) : u[i] = t[i]
      /\ u[Len(t) + 1] = h
  BY AppendFacts, Zenon
<1>2. \A i \in 1 .. Len(u) : i = Len(t) + 1 \/ i \in 1 .. Len(t)
  BY <1>1
<1> HIDE DEF u
<1>3. (\A i \in 1 .. Len(t) : t[i].n \in Nat) /\ (\A i \in 1 .. Len(s) : s[i].n \in Nat) /\ (\A i \in 1 .. Len(x) : x[i].n \in Nat)
  BY NumberFacts
<1>4. \A i \in 1 .. Len(w) : w[i].kind = "sync" \/ w[i].n \in Nat
  BY MessageFacts
<1>5. Rising(u) /\ UpTo(u, k + 1)
  <2>1. ASSUME NEW i \in 1 .. Len(t) PROVE t[i].n < k + 1 /\ i < Len(t) + 1
    BY <1>1, <1>3 DEF UpTo
  <2>2. UpTo(u, k + 1)
    BY <2>1, <1>1, <1>2, <1>3 DEF UpTo
  <2>3. ASSUME NEW i \in 1 .. Len(u), NEW j \in 1 .. Len(u), i < j PROVE u[i].n < u[j].n
    <3>1. i \in 1 .. Len(t)
      BY <1>1, <2>3
    <3> QED BY <3>1, <2>1, <2>3, <1>1, <1>2 DEF Queue, Rising
  <2> QED BY <2>2, <2>3 DEF Rising
<1>6. Below(s, u) /\ (Below(x, t) => Below(x, u))
  <2>1. ASSUME NEW i \in 1 .. Len(s) PROVE s[i].n < k + 1
    <3>1. s[i].n \in Nat /\ s[i].n =< k
      BY <1>3 DEF UpTo
    <3> QED BY <3>1
  <2>2. ASSUME NEW i \in 1 .. Len(x) PROVE x[i].n < k + 1
    <3>1. x[i].n \in Nat /\ x[i].n =< k
      BY <1>3 DEF UpTo
    <3> QED BY <3>1
  <2> QED BY <2>1, <2>2, <1>1, <1>2 DEF Queue, Below
<1>7. WireBelow(w, u)
  <2>1. \A i \in 1 .. Len(w) : w[i].kind # "sync" => w[i].n < k + 1
    BY <1>4 DEF WireUpTo
  <2> QED BY <2>1, <1>1, <1>2 DEF Queue, WireBelow
<1> QED BY <1>5, <1>6, <1>7 DEF Queue, Ahead, u

\* UpTo is about an upper bound.
LEMMA UpToGrows ==
  ASSUME NEW R, NEW s \in Seq(Given), NEW w \in Seq(Message(R)), NEW t \in Seq(Hooks), NEW k \in Nat
  PROVE  (UpTo(s, k) => UpTo(s, k + 1)) /\ (WireUpTo(w, k) => WireUpTo(w, k + 1)) /\ (UpTo(t, k) => UpTo(t, k + 1))
<1>1. (\A i \in 1 .. Len(t) : t[i].n \in Nat) /\ (\A i \in 1 .. Len(s) : s[i].n \in Nat)
  BY NumberFacts
<1>2. \A i \in 1 .. Len(w) : w[i].kind = "sync" \/ w[i].n \in Nat
  BY MessageFacts
<1> QED BY <1>1, <1>2 DEF UpTo, WireUpTo

\* Forward: the oldest of the subscription becomes the newest on the wire.
LEMMA ForwardQueue ==
  ASSUME NEW R, NEW s, NEW w \in Seq(Message(R)), NEW t \in Seq(Hooks), t # <<>>, NEW k, NEW x,
         Queue(s, w, t), WireUpTo(w, k), UpTo(t, k),
         NEW e \in Numbered, e.n = Head(t).n
  PROVE  /\ Queue(s, Append(w, e), Tail(t)) /\ WireUpTo(Append(w, e), k) /\ UpTo(Tail(t), k)
         /\ Ahead(x, s, w, t) => Ahead(x, s, Append(w, e), Tail(t))
<1> DEFINE v == Append(w, e)
           u == Tail(t)
<1>0. e \in Message(R) /\ e.kind # "sync"
  BY DEF Message, Numbered
<1>1. /\ Len(w) \in Nat /\ Len(v) = Len(w) + 1
      /\ \A i \in 1 .. Len(w) : v[i] = w[i]
      /\ v[Len(w) + 1] = e
  BY <1>0, AppendFacts
<1>2. /\ Head(t) = t[1] /\ Len(t) \in Nat /\ Len(t) > 0 /\ Len(u) = Len(t) - 1
      /\ \A i \in 1 .. Len(t) - 1 : u[i] = t[i + 1]
  BY TailFacts, Zenon
<1>3. /\ \A i \in 1 .. Len(v) : i = Len(w) + 1 \/ i \in 1 .. Len(w)
      /\ \A i \in 1 .. Len(u) : i + 1 \in 1 .. Len(t) /\ i \in 1 .. Len(t) - 1 /\ 1 < i + 1
      /\ 1 \in 1 .. Len(t)
  BY <1>1, <1>2
<1> HIDE DEF u, v
<1>4. Rising(u) /\ UpTo(u, k) /\ Below(s, u) /\ (Below(x, t) => Below(x, u))
  <2>1. Rising(u)
    <3>1. \A i, j \in 1 .. Len(u) : i < j => i + 1 < j + 1
      BY <1>2
    <3> QED BY <3>1, <1>2, <1>3 DEF Queue, Rising
  <2>2. UpTo(u, k) /\ Below(s, u) /\ (Below(x, t) => Below(x, u))
    BY <1>2, <1>3 DEF Queue, UpTo, Below
  <2> QED BY <2>1, <2>2
<1>5. RisingWire(v) /\ WireUpTo(v, k)
  <2>1. WireUpTo(v, k)
    BY <1>1, <1>2, <1>3 DEF WireUpTo, UpTo
  <2>2. ASSUME NEW i \in 1 .. Len(v), NEW j \in 1 .. Len(v), i < j, v[i].kind # "sync", v[j].kind # "sync"
        PROVE  v[i].n < v[j].n
    <3>1. i \in 1 .. Len(w)
      BY <1>1, <2>2
    <3>2. CASE j \in 1 .. Len(w)
      BY <3>1, <3>2, <2>2, <1>1 DEF Queue, RisingWire
    <3>3. CASE j = Len(w) + 1
      BY <3>1, <3>3, <2>2, <1>1, <1>2, <1>3 DEF Queue, WireBelow
    <3> QED BY <3>2, <3>3, <1>3
  <2> QED BY <2>1, <2>2 DEF RisingWire
<1>6. BelowWire(s, v) /\ (Below(x, t) /\ BelowWire(x, w) => BelowWire(x, v))
  BY <1>1, <1>2, <1>3 DEF Queue, BelowWire, Below
<1>7. WireBelow(v, u)
  BY <1>1, <1>2, <1>3 DEF Queue, WireBelow, Rising
<1> QED BY <1>4, <1>5, <1>6, <1>7 DEF Queue, Ahead, u, v

\* Cutting the wire, or taking its head, keeps the order.
LEMMA PartOfWire ==
  ASSUME NEW s, NEW w, NEW t, NEW v, NEW d \in {0, 1}, NEW k, NEW x,
         Len(v) \in Nat, Len(w) \in Nat, Len(v) + d =< Len(w), \A i \in 1 .. Len(v) : v[i] = w[i + d],
         Queue(s, w, t), WireUpTo(w, k)
  PROVE  Queue(s, v, t) /\ WireUpTo(v, k) /\ (Ahead(x, s, w, t) => Ahead(x, s, v, t))
<1>1. \A i \in 1 .. Len(v) : i + d \in 1 .. Len(w)
  OBVIOUS
<1>2. \A i, j \in 1 .. Len(v) : i < j => i + d < j + d
  OBVIOUS
<1>3. RisingWire(v)
  BY <1>1, <1>2 DEF Queue, RisingWire
<1>4. WireUpTo(v, k) /\ WireBelow(v, t) /\ BelowWire(s, v) /\ (BelowWire(x, w) => BelowWire(x, v))
  BY <1>1 DEF Queue, WireUpTo, WireBelow, BelowWire
<1> QED BY <1>3, <1>4 DEF Queue, Ahead

\* Consume: the oldest prompt of the wire becomes the newest note.
LEMMA ConsumeQueue ==
  ASSUME NEW R, NEW s \in Seq(Given), NEW w \in Seq(Message(R)), NEW t, w # <<>>, NEW k, NEW x,
         Queue(s, w, t), WireUpTo(w, k), UpTo(s, k), w[1].kind # "sync",
         NEW e \in Given, e.n = w[1].n
  PROVE  /\ Queue(Append(s, e), Tail(w), t) /\ UpTo(Append(s, e), k) /\ WireUpTo(Tail(w), k)
         /\ Ahead(x, s, w, t) => Ahead(x, Append(s, e), Tail(w), t)
<1> DEFINE v == Append(s, e)
           u == Tail(w)
<1>1. /\ Len(s) \in Nat /\ Len(v) = Len(s) + 1
      /\ \A i \in 1 .. Len(s) : v[i] = s[i]
      /\ v[Len(s) + 1] = e
  BY AppendFacts
<1>2. /\ Len(w) \in Nat /\ Len(w) > 0 /\ Len(u) = Len(w) - 1
      /\ \A i \in 1 .. Len(w) - 1 : u[i] = w[i + 1]
  BY TailFacts, Zenon
<1>3. /\ \A i \in 1 .. Len(v) : i = Len(s) + 1 \/ i \in 1 .. Len(s)
      /\ \A i \in 1 .. Len(u) : i + 1 \in 1 .. Len(w) /\ i \in 1 .. Len(w) - 1 /\ 1 < i + 1
      /\ 1 \in 1 .. Len(w)
  BY <1>1, <1>2
<1> HIDE DEF u, v
<1>4. RisingWire(u) /\ WireUpTo(u, k) /\ WireBelow(u, t) /\ (BelowWire(x, w) => BelowWire(x, u))
  <2>1. RisingWire(u)
    <3>1. \A i, j \in 1 .. Len(u) : i < j => i + 1 < j + 1
      BY <1>2
    <3> QED BY <3>1, <1>2, <1>3 DEF Queue, RisingWire
  <2>2. WireUpTo(u, k) /\ WireBelow(u, t) /\ (BelowWire(x, w) => BelowWire(x, u))
    BY <1>2, <1>3 DEF Queue, WireUpTo, WireBelow, BelowWire
  <2> QED BY <2>1, <2>2
<1>5. Rising(v) /\ UpTo(v, k)
  <2>1. UpTo(v, k)
    BY <1>1, <1>3 DEF UpTo, WireUpTo
  <2>2. ASSUME NEW i \in 1 .. Len(v), NEW j \in 1 .. Len(v), i < j PROVE v[i].n < v[j].n
    <3>1. i \in 1 .. Len(s) /\ v[i] = s[i]
      BY <1>1, <2>2
    <3>2. CASE j \in 1 .. Len(s)
      BY <1>1, <2>2, <3>1, <3>2 DEF Queue, Rising
    <3>3. CASE j = Len(s) + 1
      BY <1>1, <1>3, <3>1, <3>3 DEF Queue, BelowWire
    <3> QED BY <1>3, <3>2, <3>3
  <2> QED BY <2>1, <2>2 DEF Rising
<1>6. Below(v, t) /\ (Below(x, s) /\ BelowWire(x, w) => Below(x, v))
  BY <1>1, <1>3 DEF Queue, Below, WireBelow, BelowWire
<1>7. BelowWire(v, u)
  BY <1>1, <1>2, <1>3 DEF Queue, BelowWire, RisingWire
<1> QED BY <1>4, <1>5, <1>6, <1>7 DEF Queue, Ahead, u, v

\* PendingNotifications: the notes follow what was given before.
LEMMA DrainQueue ==
  ASSUME NEW x \in Seq(Given), NEW s \in Seq(Given), NEW w, NEW t, NEW k,
         Queue(s, w, t), Rising(x), Ahead(x, s, w, t), UpTo(x, k), UpTo(s, k)
  PROVE  Rising(x \o s) /\ UpTo(x \o s, k) /\ Ahead(x \o s, <<>>, w, t) /\ Queue(<<>>, w, t)
<1> DEFINE y == x \o s
<1>1. /\ Len(y) = Len(x) + Len(s)
      /\ \A i \in 1 .. Len(x) + Len(s) : y[i] = IF i <= Len(x) THEN x[i] ELSE s[i - Len(x)]
  BY ConcatProperties, Zenon
<1>2. Len(x) \in Nat /\ Len(s) \in Nat
  OBVIOUS
<1> HIDE DEF y
<1>3. \A i \in 1 .. Len(y) : (i \in 1 .. Len(x) /\ y[i] = x[i]) \/ (i > Len(x) /\ i - Len(x) \in 1 .. Len(s) /\ y[i] = s[i - Len(x)])
  BY <1>1, <1>2
<1>4. ASSUME NEW i \in 1 .. Len(y), NEW j \in 1 .. Len(y), i < j PROVE y[i].n < y[j].n
  <2>1. CASE j \in 1 .. Len(x)
    BY <2>1, <1>1, <1>2, <1>4 DEF Rising
  <2>2. CASE i \in 1 .. Len(x) /\ j > Len(x)
    <3>1. y[i] = x[i]
      BY <2>2, <1>2, <1>3
    <3>2. j - Len(x) \in 1 .. Len(s) /\ y[j] = s[j - Len(x)]
      BY <2>2, <1>2, <1>3
    <3>3. Below(x, s)
      BY DEF Ahead
    <3> QED BY <2>2, <3>1, <3>2, <3>3 DEF Below
  <2>3. CASE i > Len(x)
    <3>1. i - Len(x) < j - Len(x) /\ j > Len(x)
      BY <2>3, <1>2, <1>4
    <3>2. i - Len(x) \in 1 .. Len(s) /\ y[i] = s[i - Len(x)]
      BY <2>3, <1>2, <1>3
    <3>3. j - Len(x) \in 1 .. Len(s) /\ y[j] = s[j - Len(x)]
      BY <3>1, <1>2, <1>3
    <3>4. Rising(s)
      BY DEF Queue
    <3>5. s[i - Len(x)].n < s[j - Len(x)].n
      BY <3>1, <3>2, <3>3, <3>4 DEF Rising
    <3> QED BY <3>2, <3>3, <3>5
  <2> QED BY <2>1, <2>2, <2>3, <1>2, <1>3
<1>5. UpTo(y, k) /\ BelowWire(y, w) /\ Below(y, t)
  BY <1>3 DEF Queue, Ahead, UpTo, BelowWire, Below
<1> QED BY <1>4, <1>5, EmptyFacts DEF Queue, Ahead, Rising, y

-----------------------------------------------------------------------------
(* The steps.                                                              *)

\* More snapshots are no other messages.
LEMMA WireGrows ==
  ASSUME NEW R, NEW r, NEW w \in Seq(Message(R))
  PROVE  w \in Seq(Message(R \cup {r})) /\ Sync(r) \in Message(R \cup {r})
<1>1. Message(R) \subseteq Message(R \cup {r}) /\ Sync(r) \in Message(R \cup {r})
  BY DEF Message, Sync
<1> HIDE DEF Message
<1> QED BY <1>1, SeqMonotonic

\* A step of one provider's queue keeps the invariant if it keeps the order
\* of that queue and what was given to the GUI ahead of it.
LEMMA OneQueue ==
  ASSUME FeedInv, NEW p \in Providers, FeedTypes', UnstartedInv',
         UNCHANGED <<published, current, prompts>>,
         \A q \in Providers : q # p => notes'[q] = notes[q] /\ wire'[q] = wire[q] /\ sub'[q] = sub[q],
         Queue(notes'[p], wire'[p], sub'[p]), UpTo(notes'[p], published), WireUpTo(wire'[p], published), UpTo(sub'[p], published),
         Ahead(prompts, notes[p], wire[p], sub[p]) => Ahead(prompts, notes'[p], wire'[p], sub'[p])
  PROVE  FeedInv'
<1> USE DEF FeedInv
<1>1. QueuesInv'
  <2> SUFFICES ASSUME NEW q \in Providers
               PROVE  /\ Queue(notes'[q], wire'[q], sub'[q])
                      /\ UpTo(notes'[q], published) /\ WireUpTo(wire'[q], published) /\ UpTo(sub'[q], published)
    BY Zenon DEF QueuesInv, Queue, UpTo, WireUpTo, Rising, RisingWire, Below, BelowWire, WireBelow
  <2>1. CASE q = p
    BY <2>1
  <2>2. CASE q # p
    BY <2>2 DEF QueuesInv
  <2> QED BY <2>1, <2>2
<1>2. GivenInv'
  <2>1. ASSUME current # 0 PROVE Ahead(prompts, notes'[current], wire'[current], sub'[current])
    <3>1. Ahead(prompts, notes[current], wire[current], sub[current]) /\ current \in Providers
      BY <2>1 DEF GivenInv, FeedTypes
    <3>2. CASE current = p
      BY <3>1, <3>2
    <3>3. CASE current # p
      BY <3>1, <3>3
    <3> QED BY <3>2, <3>3
  <2> QED BY <2>1 DEF GivenInv, Ahead, Rising, UpTo, Below, BelowWire
<1> QED BY <1>1, <1>2

\* What does not touch the queues keeps their order.
LEMMA SameQueues ==
  ASSUME FeedInv, UNCHANGED <<published, current, sub, wire, notes, prompts>>
  PROVE  QueuesInv' /\ GivenInv'
<1>1. QueuesInv'
  BY Zenon DEF FeedInv, QueuesInv, Queue, UpTo, WireUpTo, Rising, RisingWire, Below, BelowWire, WireBelow
<1>2. GivenInv'
  BY DEF FeedInv, GivenInv, UpTo, Ahead, Rising, Below, BelowWire
<1> QED BY <1>1, <1>2

\* Nor do steps that leave the stream and the prompts alone.
LEMMA QuietStep ==
  ASSUME FeedInv, UNCHANGED <<published, current, step, stream, sub, wire, notes, prompts>>
  PROVE  FeedInv'
<1>1. FeedTypes' /\ UnstartedInv'
  BY DEF FeedInv, FeedTypes, UnstartedInv
<1>2. QueuesInv' /\ GivenInv'
  BY SameQueues, Zenon
<1> QED BY <1>1, <1>2 DEF FeedInv

\* A mirror that goes takes the windows of its prompts, not their numbers.
LEMMA DropQueues ==
  ASSUME FeedInv, NEW c \in Callers, DropMirror(c)
  PROVE  FeedInv'
<1> DEFINE s == calls[c].id
<1>1. /\ UNCHANGED <<published, current, step, stream, sub, wire, prompts>>
      /\ notes' = [p \in Providers |-> WithoutAll(s, notes[p])]
  BY DEF DropMirror
<1>2. notes \in [Providers -> Seq(Given)]
  BY DEF FeedInv, FeedTypes
<1>3. ASSUME NEW p \in Providers
      PROVE  /\ notes'[p] \in Seq(Given) /\ Len(notes'[p]) = Len(notes[p])
             /\ \A i \in 1 .. Len(notes[p]) : notes'[p][i].n = notes[p][i].n
  <2>1. notes'[p] = WithoutAll(s, notes[p]) /\ notes[p] \in Seq(Given)
    BY <1>1, <1>2
  <2> QED BY <2>1, WithoutAllFacts
<1> HIDE DEF s
<1>4. FeedTypes'
  <2>1. notes' \in [Providers -> Seq(Given)]
    BY <1>1, <1>3
  <2> QED BY <1>1, <2>1 DEF FeedInv, FeedTypes
<1>5. UnstartedInv'
  <2>1. ASSUME NEW p \in Providers, notes[p] = <<>> PROVE notes'[p] = <<>>
    <3>1. Len(notes'[p]) = 0 /\ notes'[p] \in Seq(Given)
      BY <1>3, <2>1
    <3> QED BY <3>1
  <2> QED BY <1>1, <2>1 DEF FeedInv, UnstartedInv
<1>6. QueuesInv'
  <2> SUFFICES ASSUME NEW q \in Providers
               PROVE  /\ Queue(notes'[q], wire[q], sub[q])
                      /\ UpTo(notes'[q], published) /\ WireUpTo(wire[q], published) /\ UpTo(sub[q], published)
    BY <1>1 DEF QueuesInv, Queue, UpTo, WireUpTo, Rising, RisingWire, Below, BelowWire, WireBelow
  <2>1. /\ Queue(notes[q], wire[q], sub[q])
        /\ UpTo(notes[q], published) /\ WireUpTo(wire[q], published) /\ UpTo(sub[q], published)
    BY DEF FeedInv, QueuesInv
  <2>2. Queue(notes'[q], wire[q], sub[q]) /\ UpTo(notes'[q], published)
    BY <1>3, <2>1, SameNumbers
  <2> QED BY <2>1, <2>2
<1>7. GivenInv'
  <2>1. Rising(prompts) /\ UpTo(prompts, published)
    BY DEF FeedInv, GivenInv
  <2>2. ASSUME current # 0 PROVE Ahead(prompts, notes'[current], wire[current], sub[current])
    <3>1. current \in Providers /\ Ahead(prompts, notes[current], wire[current], sub[current])
      BY <2>2 DEF FeedInv, FeedTypes, GivenInv
    <3>2. QED BY <1>3, <3>1, SameNumbers
  <2> QED BY <1>1, <2>1, <2>2 DEF GivenInv, Ahead, Rising, UpTo, Below, BelowWire
<1> QED BY <1>4, <1>5, <1>6, <1>7 DEF FeedInv

\* The steps of the calls touch none of this otherwise.
LEMMA CallQuiet ==
  ASSUME FeedInv, NEW c \in Callers, CallStep(c)
  PROVE  FeedInv'
<1>1. CASE Request(c) \/ CallFails(c) \/ ApplyAnswer(c) \/ MakeMirror(c)
  BY <1>1, QuietStep DEF Request, CallFails, ApplyAnswer, MakeMirror
<1>2. CASE HandleCreate(c) \/ HandleWorktree(c) \/ HandleResume(c) \/ HandleDelete(c)
  BY <1>2, QuietStep DEF HandleCreate, HandleWorktree, HandleResume, HandleDelete, Launch
<1>3. CASE HandleLookup(c) \/ HandleFails(c)
  BY <1>3, QuietStep DEF HandleLookup, HandleFails
<1> QED BY <1>1, <1>2, <1>3, DropQueues, Zenon DEF CallStep

\* A hook event reaches the end of every subscription that has room.
LEMMA HookStep ==
  ASSUME FeedInv, visit \in Visits, NEW w0 \in Windows, NEW kind \in {"activity", "prompt"}, Hook(w0, kind)
  PROVE  FeedInv'
<1> USE ConstantsAssumption DEF FeedInv
<1> DEFINE h == [kind |-> kind, window |-> w0, n |-> published + 1]
<1>1. /\ published' = published + 1 /\ published < visit.events /\ published \in Nat /\ visit.events \in 0 .. MaxEvents
      /\ UNCHANGED <<current, step, stream, wire, notes, prompts>>
      /\ sub' = [p \in Providers |-> IF stream[p] = "subscribed" /\ Len(sub[p]) < SubBuffer THEN Append(sub[p], h) ELSE sub[p]]
  BY DEF Hook, Publish, FeedTypes
<1>2. h \in Hooks /\ h.n = published + 1
  BY <1>1 DEF Hooks
<1> HIDE DEF h
<1>3. ASSUME NEW p \in Providers
      PROVE  sub'[p] \in Seq(Hooks) /\ (sub'[p] = sub[p] \/ (sub'[p] = Append(sub[p], h) /\ stream[p] = "subscribed"))
  <2>1. sub[p] \in Seq(Hooks)
    BY DEF FeedTypes
  <2>2. Append(sub[p], h) \in Seq(Hooks)
    BY <1>2, <2>1
  <2> QED BY <1>1, <2>1, <2>2
<1>4. FeedTypes'
  <2>1. sub' \in [Providers -> Seq(Hooks)]
    BY <1>1, <1>3
  <2>2. published' \in 0 .. MaxEvents
    BY <1>1
  <2>3. \E R : wire' \in [Providers -> Seq(Message(R))]
    BY <1>1 DEF FeedTypes
  <2> QED BY <1>1, <2>1, <2>2, <2>3 DEF FeedTypes
<1>5. UnstartedInv'
  BY <1>1, <1>3 DEF UnstartedInv
<1>6. PICK R : wire \in [Providers -> Seq(Message(R))]
  BY DEF FeedTypes
<1>7. ASSUME NEW p \in Providers
      PROVE  /\ Queue(notes[p], wire[p], sub'[p])
             /\ UpTo(notes[p], published + 1) /\ WireUpTo(wire[p], published + 1) /\ UpTo(sub'[p], published + 1)
             /\ Ahead(prompts, notes[p], wire[p], sub[p]) => Ahead(prompts, notes[p], wire[p], sub'[p])
  <2>1. /\ prompts \in Seq(Given) /\ notes[p] \in Seq(Given) /\ wire[p] \in Seq(Message(R)) /\ sub[p] \in Seq(Hooks)
        /\ Queue(notes[p], wire[p], sub[p])
        /\ UpTo(notes[p], published) /\ WireUpTo(wire[p], published) /\ UpTo(sub[p], published) /\ UpTo(prompts, published)
    BY <1>6 DEF FeedTypes, QueuesInv, GivenInv
  <2>2. UpTo(notes[p], published + 1) /\ WireUpTo(wire[p], published + 1) /\ UpTo(sub[p], published + 1)
    BY <2>1, <1>1, UpToGrows
  <2>3. CASE sub'[p] = sub[p]
    BY <2>1, <2>2, <2>3
  <2>4. CASE sub'[p] = Append(sub[p], h)
    <3>1. /\ Queue(notes[p], wire[p], Append(sub[p], h)) /\ UpTo(Append(sub[p], h), published + 1)
          /\ Ahead(prompts, notes[p], wire[p], sub[p]) => Ahead(prompts, notes[p], wire[p], Append(sub[p], h))
      BY <2>1, <1>1, <1>2, PublishQueue, Zenon
    <3> QED BY <3>1, <2>2, <2>4
  <2> QED BY <2>3, <2>4, <1>3
<1>8. QueuesInv'
  <2>1. notes' = notes /\ wire' = wire
    BY <1>1
  <2> QED BY <1>7, <1>1, <2>1, Zenon DEF QueuesInv, Queue, UpTo, WireUpTo, Rising, RisingWire, Below, BelowWire, WireBelow
<1>9. GivenInv'
  <2>1. UpTo(prompts, published + 1)
    <3>1. prompts \in Seq(Given) /\ UpTo(prompts, published)
      BY DEF FeedTypes, GivenInv
    <3> QED BY <3>1, <1>1, <1>6, EmptySeq, UpToGrows
  <2>2. Rising(prompts)' /\ UpTo(prompts, published)'
    BY <1>1, <2>1 DEF GivenInv, Rising, UpTo
  <2>3. ASSUME current' # 0 PROVE Ahead(prompts, notes[current], wire[current], sub[current])'
    <3>1. current # 0 /\ current \in Providers /\ current' = current
      BY <1>1, <2>3 DEF FeedTypes
    <3>2. Ahead(prompts, notes[current], wire[current], sub'[current])
      BY <3>1, <1>7 DEF GivenInv
    <3> QED BY <3>1, <3>2, <1>1 DEF Ahead, Below, BelowWire
  <2> QED BY <2>2, <2>3 DEF GivenInv
<1> QED BY <1>4, <1>5, <1>8, <1>9

\* Subscribing only opens the end of the queue.
LEMMA SubscribeStep ==
  ASSUME FeedInv, NEW p \in Providers, Subscribe(p)
  PROVE  FeedInv'
<1> USE DEF FeedInv
<1>1. /\ stream[p] = "open" /\ stream' = [stream EXCEPT ![p] = "subscribed"]
      /\ UNCHANGED <<published, current, step, sub, wire, notes, prompts>>
  BY DEF Subscribe
<1>2. FeedTypes'
  BY <1>1 DEF FeedTypes
<1>3. UnstartedInv'
  BY <1>1 DEF UnstartedInv, FeedTypes
<1>4. QueuesInv' /\ GivenInv'
  <2> HIDE DEF FeedInv
  <2> QED BY <1>1, SameQueues
<1> QED BY <1>2, <1>3, <1>4

\* The handler moves an event from the subscription to the wire.
LEMMA ForwardStep ==
  ASSUME FeedInv, NEW p \in Providers, Forward(p)
  PROVE  FeedInv'
<1> USE DEF FeedInv
<1> DEFINE e == Notification(Head(sub[p]))
<1>1. /\ stream[p] = "subscribed" /\ sub[p] # <<>>
      /\ wire' = [wire EXCEPT ![p] = Append(@, e)] /\ sub' = [sub EXCEPT ![p] = Tail(@)]
      /\ UNCHANGED <<published, current, step, stream, notes, prompts>>
  BY DEF Forward
<1>2. PICK R : wire \in [Providers -> Seq(Message(R))]
  BY DEF FeedTypes
<1>3. sub[p] \in Seq(Hooks) /\ wire[p] \in Seq(Message(R)) /\ Head(sub[p]) \in Hooks
  <2>1. sub[p] \in Seq(Hooks) /\ wire[p] \in Seq(Message(R))
    BY <1>2 DEF FeedTypes
  <2> QED BY <2>1, <1>1, TailFacts
<1>4. e \in Numbered /\ e.n = Head(sub[p]).n
  BY <1>3 DEF Notification, SessionIdFor, Numbered, Hooks
<1> HIDE DEF e
<1>5. e \in Message(R)
  BY <1>4 DEF Message
<1>6. wire'[p] = Append(wire[p], e) /\ sub'[p] = Tail(sub[p])
  BY <1>1, <1>2 DEF FeedTypes
<1>7. FeedTypes'
  <2>1. Append(wire[p], e) \in Seq(Message(R)) /\ Tail(sub[p]) \in Seq(Hooks)
    BY <1>1, <1>3, <1>5, TailFacts
  <2>2. wire' \in [Providers -> Seq(Message(R))]
    BY <2>1, <1>1, <1>2
  <2>3. sub' \in [Providers -> Seq(Hooks)]
    BY <2>1, <1>1 DEF FeedTypes
  <2> QED BY <1>1, <2>2, <2>3 DEF FeedTypes
<1>8. UnstartedInv'
  BY <1>1 DEF UnstartedInv, FeedTypes
<1>9. /\ Queue(notes[p], wire'[p], sub'[p]) /\ UpTo(notes[p], published)
      /\ WireUpTo(wire'[p], published) /\ UpTo(sub'[p], published)
      /\ Ahead(prompts, notes[p], wire[p], sub[p]) => Ahead(prompts, notes[p], wire'[p], sub'[p])
  <2>1. /\ Queue(notes[p], wire[p], sub[p]) /\ UpTo(notes[p], published)
        /\ WireUpTo(wire[p], published) /\ UpTo(sub[p], published)
    BY DEF QueuesInv
  <2> HIDE DEF FeedInv
  <2>2. /\ Queue(notes[p], Append(wire[p], e), Tail(sub[p]))
        /\ WireUpTo(Append(wire[p], e), published) /\ UpTo(Tail(sub[p]), published)
        /\ Ahead(prompts, notes[p], wire[p], sub[p]) => Ahead(prompts, notes[p], Append(wire[p], e), Tail(sub[p]))
    BY <2>1, <1>1, <1>3, <1>4, ForwardQueue, Zenon
  <2> QED BY <2>1, <2>2, <1>6
<1>10. \A q \in Providers : q # p => wire'[q] = wire[q] /\ sub'[q] = sub[q]
  BY <1>1, <1>2 DEF FeedTypes
<1> QED BY <1>1, <1>7, <1>8, <1>9, <1>10, OneQueue

\* Losing the end of the wire and the subscription leaves a part of the queue.
LEMMA EndStreamStep ==
  ASSUME FeedInv, NEW p \in Providers, EndStream(p)
  PROVE  FeedInv'
<1> USE DEF FeedInv
<1>1. /\ stream[p] \in {"open", "subscribed"} /\ stream' = [stream EXCEPT ![p] = "ended"]
      /\ sub' = [sub EXCEPT ![p] = <<>>]
      /\ UNCHANGED <<published, current, step, notes, prompts>>
  BY DEF EndStream
<1>2. PICK n \in 0 .. Len(wire[p]) : wire' = [wire EXCEPT ![p] = SubSeq(@, 1, n)]
  BY DEF EndStream
<1>3. PICK R : wire \in [Providers -> Seq(Message(R))]
  BY DEF FeedTypes
<1> DEFINE v == SubSeq(wire[p], 1, n)
<1>4. wire[p] \in Seq(Message(R)) /\ Len(wire[p]) \in Nat
  BY <1>3
<1>5. /\ v \in Seq(Message(R)) /\ Len(v) = n /\ n \in Nat /\ n =< Len(wire[p])
      /\ \A i \in 1 .. n : v[i] = wire[p][i]
  BY <1>4
<1> HIDE DEF v
<1>6. wire'[p] = v /\ sub'[p] = <<>>
  BY <1>1, <1>2, <1>3 DEF v, FeedTypes
<1>7. FeedTypes'
  <2>1. wire' = [wire EXCEPT ![p] = v]
    BY <1>2 DEF v
  <2>2. wire' \in [Providers -> Seq(Message(R))]
    BY <2>1, <1>3, <1>5
  <2>3. sub' \in [Providers -> Seq(Hooks)]
    BY <1>1, EmptySeq DEF FeedTypes
  <2>4. stream' \in [Providers -> {"none", "open", "subscribed", "ended"}]
    BY <1>1 DEF FeedTypes
  <2> QED BY <1>1, <2>2, <2>3, <2>4 DEF FeedTypes
<1>8. step[p] = "up"
  BY <1>1 DEF UnstartedInv
<1>9. \A q \in Providers : q # p => wire'[q] = wire[q] /\ sub'[q] = sub[q] /\ stream'[q] = stream[q]
  BY <1>1, <1>2, <1>3 DEF FeedTypes
<1>10. UnstartedInv'
  BY <1>1, <1>8, <1>9 DEF UnstartedInv
<1>11. /\ Queue(notes[p], v, <<>>) /\ UpTo(notes[p], published) /\ WireUpTo(v, published) /\ UpTo(<<>>, published)
       /\ Ahead(prompts, notes[p], wire[p], sub[p]) => Ahead(prompts, notes[p], v, <<>>)
  <2>1. Queue(notes[p], wire[p], sub[p]) /\ UpTo(notes[p], published) /\ WireUpTo(wire[p], published)
    BY DEF QueuesInv
  <2>2. \A i \in 1 .. Len(v) : v[i] = wire[p][i + 0]
    BY <1>5
  <2>3. /\ Queue(notes[p], v, sub[p]) /\ WireUpTo(v, published)
        /\ Ahead(prompts, notes[p], wire[p], sub[p]) => Ahead(prompts, notes[p], v, sub[p])
    <3>1. Len(v) \in Nat /\ Len(v) + 0 =< Len(wire[p])
      BY <1>4, <1>5
    <3>2. 0 \in {0, 1}
      OBVIOUS
    <3> HIDE DEF FeedInv
    <3> QED BY <2>1, <2>2, <3>1, <3>2, <1>4, PartOfWire, Zenon
  <2> QED BY <2>1, <2>3, EmptyFacts DEF Queue, Ahead
<1> QED BY <1>1, <1>6, <1>7, <1>9, <1>10, <1>11, OneQueue

\* A snapshot or an activity leaves the wire; a prompt goes to the notes.
LEMMA ConsumeStep ==
  ASSUME FeedInv, NEW p \in Providers, Consume(p)
  PROVE  FeedInv'
<1> USE DEF FeedInv
<1> DEFINE e == Head(wire[p])
           g == Resolved(e.id, e)
<1>1. /\ wire[p] # <<>> /\ wire' = [wire EXCEPT ![p] = Tail(@)]
      /\ UNCHANGED <<published, current, step, stream, sub, prompts>>
  BY DEF Consume
<1>2. \/ e.kind # "prompt" /\ notes' = notes
      \/ e.kind = "prompt" /\ notes' = [notes EXCEPT ![p] = Append(@, g)]
      \/ e.kind \notin {"sync", "activity", "prompt"}
  BY DEF Consume, Take
<1>3. PICK R : wire \in [Providers -> Seq(Message(R))]
  BY DEF FeedTypes
<1>4. wire[p] \in Seq(Message(R)) /\ notes[p] \in Seq(Given)
  BY <1>3 DEF FeedTypes
<1>5. /\ e \in Message(R) /\ e = wire[p][1] /\ Len(wire[p]) \in Nat
      /\ Tail(wire[p]) \in Seq(Message(R)) /\ Len(Tail(wire[p])) = Len(wire[p]) - 1
      /\ \A i \in 1 .. Len(wire[p]) - 1 : Tail(wire[p])[i] = wire[p][i + 1]
      /\ Len(wire[p]) > 0
  BY <1>1, <1>4, TailFacts
<1>6. wire'[p] = Tail(wire[p]) /\ (\A q \in Providers : q # p => wire'[q] = wire[q])
  BY <1>1, <1>3
<1>7. wire' \in [Providers -> Seq(Message(R))]
  BY <1>1, <1>3, <1>5
<1>8. step[p] = "up"
  BY <1>1 DEF UnstartedInv, FeedTypes
<1>9. /\ Queue(notes[p], wire[p], sub[p]) /\ UpTo(notes[p], published)
      /\ WireUpTo(wire[p], published) /\ UpTo(sub[p], published)
  BY DEF QueuesInv
<1>10. CASE notes' = notes
  <2>1. FeedTypes'
    BY <1>1, <1>7, <1>10 DEF FeedTypes
  <2>2. UnstartedInv'
    BY <1>1, <1>6, <1>8, <1>10 DEF UnstartedInv
  <2>3. /\ Queue(notes[p], Tail(wire[p]), sub[p]) /\ WireUpTo(Tail(wire[p]), published)
        /\ Ahead(prompts, notes[p], wire[p], sub[p]) => Ahead(prompts, notes[p], Tail(wire[p]), sub[p])
    <3>1. Len(Tail(wire[p])) \in Nat /\ Len(Tail(wire[p])) + 1 =< Len(wire[p])
      BY <1>5
    <3>2. \A i \in 1 .. Len(Tail(wire[p])) : Tail(wire[p])[i] = wire[p][i + 1]
      BY <1>5
    <3>3. 1 \in {0, 1}
      OBVIOUS
    <3> HIDE DEF FeedInv
    <3> QED BY <1>5, <1>9, <3>1, <3>2, <3>3, PartOfWire, Zenon
  <2> QED BY <1>1, <1>6, <1>9, <1>10, <2>1, <2>2, <2>3, OneQueue
<1>11. CASE e.kind = "prompt" /\ notes' = [notes EXCEPT ![p] = Append(@, g)]
  <2>1. e \in Numbered
    BY <1>5, <1>11, MessageFacts
  <2>2. g \in Given /\ g.n = e.n
    BY <2>1 DEF Resolved, Given, Numbered
  <2> HIDE DEF g
  <2>3. Append(notes[p], g) \in Seq(Given)
    BY <1>4, <2>2
  <2>4. notes' \in [Providers -> Seq(Given)]
    BY <1>11, <2>3 DEF FeedTypes
  <2>5. notes'[p] = Append(notes[p], g) /\ (\A q \in Providers : q # p => notes'[q] = notes[q])
    BY <1>11 DEF FeedTypes
  <2>6. FeedTypes'
    BY <1>1, <1>7, <2>4 DEF FeedTypes
  <2>7. UnstartedInv'
    BY <1>1, <1>6, <1>8, <2>5 DEF UnstartedInv
  <2>8. /\ Queue(Append(notes[p], g), Tail(wire[p]), sub[p]) /\ UpTo(Append(notes[p], g), published)
        /\ WireUpTo(Tail(wire[p]), published)
        /\ Ahead(prompts, notes[p], wire[p], sub[p]) => Ahead(prompts, Append(notes[p], g), Tail(wire[p]), sub[p])
    <3>1. wire[p][1].kind # "sync" /\ g.n = wire[p][1].n
      BY <1>5, <1>11, <2>2
    <3> HIDE DEF e, FeedInv
    <3> QED BY <1>1, <1>4, <1>9, <2>2, <3>1, ConsumeQueue, Zenon
  <2> QED BY <1>1, <1>6, <1>9, <2>5, <2>6, <2>7, <2>8, OneQueue
<1>12. e.kind \in {"sync", "activity", "prompt"}
  BY <1>5 DEF Message, Numbered
<1> QED BY <1>2, <1>10, <1>11, <1>12

\* A provider is registered before anything has arrived at it.
LEMMA AddRemoteStep ==
  ASSUME FeedInv, NEW p \in Providers, AddRemote(p)
  PROVE  FeedInv'
<1> USE DEF FeedInv
<1>1. /\ step[p] = "off" /\ current' = p /\ step' = [step EXCEPT ![p] = "list"]
      /\ UNCHANGED <<published, stream, sub, wire, notes, prompts>>
  BY DEF AddRemote
<1>2. sub[p] = <<>> /\ wire[p] = <<>> /\ notes[p] = <<>>
  BY <1>1 DEF UnstartedInv
<1>3. FeedTypes'
  BY <1>1 DEF FeedTypes
<1>4. UnstartedInv'
  BY <1>1 DEF UnstartedInv, FeedTypes
<1>5. QueuesInv'
  BY <1>1 DEF QueuesInv, Queue, UpTo, WireUpTo, Rising, RisingWire, Below, BelowWire, WireBelow
<1>6. Ahead(prompts, notes[p], wire[p], sub[p])
  BY <1>2, EmptyFacts DEF Ahead
<1>7. GivenInv'
  BY <1>1, <1>6 DEF GivenInv, Ahead, Rising, UpTo, Below, BelowWire
<1> QED BY <1>3, <1>4, <1>5, <1>7

\* Listing and restoring come before the stream.
LEMMA PipelineStep ==
  ASSUME FeedInv, NEW p \in Providers, ListSessions(p) \/ RestoreMirrors(p)
  PROVE  FeedInv'
<1> USE DEF FeedInv
<1>1. /\ step[p] \in {"list", "listed"} /\ (step' = [step EXCEPT ![p] = "listed"] \/ step' = [step EXCEPT ![p] = "stream"])
      /\ UNCHANGED <<published, current, stream, sub, wire, notes, prompts>>
  BY DEF ListSessions, RestoreMirrors
<1>2. FeedTypes' /\ UnstartedInv'
  BY <1>1 DEF FeedTypes, UnstartedInv
<1>3. QueuesInv' /\ GivenInv'
  <2> HIDE DEF FeedInv
  <2> QED BY <1>1, SameQueues
<1> QED BY <1>2, <1>3

\* The stream begins with its snapshot.
LEMMA StartSSEStep ==
  ASSUME FeedInv, NEW p \in Providers, StartSSE(p)
  PROVE  FeedInv'
<1> USE DEF FeedInv
<1>1. /\ step[p] = "stream" /\ step' = [step EXCEPT ![p] = "up"]
      /\ UNCHANGED <<published, current, sub, notes, prompts>>
  BY DEF StartSSE
<1>2. \/ stream' = [stream EXCEPT ![p] = "open"] /\ wire' = [wire EXCEPT ![p] = <<Sync(remote)>>]
      \/ stream' = stream /\ wire' = wire
  BY DEF StartSSE
<1>3. sub[p] = <<>> /\ wire[p] = <<>> /\ notes[p] = <<>>
  BY <1>1 DEF UnstartedInv
<1>4. PICK R : wire \in [Providers -> Seq(Message(R))]
  BY DEF FeedTypes
<1> DEFINE T == R \cup {remote}
           m == Sync(remote)
<1>5. m \in Message(T) /\ m.kind = "sync" /\ \A q \in Providers : wire[q] \in Seq(Message(T))
  BY <1>4, WireGrows DEF Sync
<1> HIDE DEF T, m
<1>6. <<m>> \in Seq(Message(T)) /\ Len(<<m>>) = 1 /\ <<m>>[1] = m
  BY <1>5
<1>7. wire' = wire \/ wire' = [wire EXCEPT ![p] = <<m>>]
  BY <1>2 DEF m
<1>8. wire' \in [Providers -> Seq(Message(T))]
  BY <1>4, <1>5, <1>6, <1>7
<1>9. /\ stream' \in [Providers -> {"none", "open", "subscribed", "ended"}]
      /\ step' \in [Providers -> {"off", "list", "listed", "stream", "up"}]
  BY <1>1, <1>2 DEF FeedTypes
<1>10. FeedTypes'
  BY <1>1, <1>8, <1>9 DEF FeedTypes
<1>11. /\ wire'[p] = <<>> \/ wire'[p] = <<m>>
       /\ \A q \in Providers : q # p => wire'[q] = wire[q] /\ stream'[q] = stream[q] /\ step'[q] = step[q]
       /\ step'[p] = "up"
  BY <1>1, <1>2, <1>3, <1>4, <1>7 DEF FeedTypes
<1>12. UnstartedInv'
  BY <1>1, <1>11 DEF UnstartedInv
<1>13. \A i \in 1 .. Len(wire'[p]) : wire'[p][i].kind = "sync"
  BY <1>5, <1>6, <1>11
<1>14. RisingWire(wire'[p]) /\ BelowWire(notes[p], wire'[p]) /\ BelowWire(prompts, wire'[p])
       /\ WireBelow(wire'[p], sub[p]) /\ WireUpTo(wire'[p], published)
  BY <1>13, Zenon DEF RisingWire, BelowWire, WireBelow, WireUpTo
<1>15. /\ Queue(notes[p], wire'[p], sub[p]) /\ UpTo(notes[p], published) /\ UpTo(sub[p], published)
       /\ Ahead(prompts, notes[p], wire[p], sub[p]) => Ahead(prompts, notes[p], wire'[p], sub[p])
  BY <1>14 DEF QueuesInv, Queue, Ahead
<1> QED BY <1>1, <1>10, <1>11, <1>12, <1>14, <1>15, OneQueue

\* The tick gives the notes of the registered provider to the GUI.
LEMMA DrainStep ==
  ASSUME FeedInv, PendingNotifications
  PROVE  FeedInv'
<1> USE DEF FeedInv
<1>1. /\ current # 0 /\ prompts' = prompts \o notes[current] /\ notes' = [notes EXCEPT ![current] = <<>>]
      /\ UNCHANGED <<published, current, step, stream, sub, wire>>
  BY DEF PendingNotifications, Drain
<1> DEFINE p == current
<1>2. p \in Providers /\ notes[p] \in Seq(Given) /\ prompts \in Seq(Given)
  BY <1>1 DEF FeedTypes
<1>3. notes'[p] = <<>> /\ (\A q \in Providers : q # p => notes'[q] = notes[q])
  BY <1>1, <1>2 DEF FeedTypes
<1>4. notes' \in [Providers -> Seq(Given)]
  BY <1>1, <1>2, EmptySeq DEF FeedTypes
<1>5. prompts' \in Seq(Given)
  BY <1>1, <1>2, ConcatProperties
<1>6. FeedTypes'
  BY <1>1, <1>4, <1>5 DEF FeedTypes
<1>7. UnstartedInv'
  BY <1>1, <1>3 DEF UnstartedInv
<1>8. /\ Rising(prompts') /\ UpTo(prompts', published)
      /\ Ahead(prompts', <<>>, wire[p], sub[p]) /\ Queue(<<>>, wire[p], sub[p])
  <2>1. /\ Queue(notes[p], wire[p], sub[p]) /\ UpTo(notes[p], published)
        /\ Rising(prompts) /\ UpTo(prompts, published) /\ Ahead(prompts, notes[p], wire[p], sub[p])
    BY <1>1, <1>2 DEF QueuesInv, GivenInv
  <2> HIDE DEF FeedInv
  <2> QED BY <1>1, <1>2, <2>1, DrainQueue, Zenon
<1>9. QueuesInv'
  <2> SUFFICES ASSUME NEW q \in Providers
               PROVE  /\ Queue(notes'[q], wire[q], sub[q])
                      /\ UpTo(notes'[q], published) /\ WireUpTo(wire[q], published) /\ UpTo(sub[q], published)
    BY <1>1 DEF QueuesInv, Queue, UpTo, WireUpTo, Rising, RisingWire, Below, BelowWire, WireBelow
  <2>1. CASE q = p
    BY <2>1, <1>2, <1>3, <1>8, EmptyFacts DEF QueuesInv
  <2>2. CASE q # p
    BY <2>2, <1>3 DEF QueuesInv
  <2> QED BY <2>1, <2>2
<1>10. GivenInv'
  BY <1>1, <1>3, <1>8 DEF GivenInv, Ahead, Rising, UpTo, Below, BelowWire
<1> QED BY <1>6, <1>7, <1>9, <1>10

-----------------------------------------------------------------------------
(* The theorem.                                                            *)

\* At first all queues are empty.
LEMMA InitFeed == Init => FeedInv
<1> SUFFICES ASSUME Init PROVE FeedInv
  OBVIOUS
<1> USE ConstantsAssumption
<1>1. \A p \in Providers : sub[p] = <<>> /\ wire[p] = <<>> /\ notes[p] = <<>> /\ stream[p] = "none"
  BY DEF Init
<1>2. FeedTypes
  <2>1. wire \in [Providers -> Seq(Message({}))] /\ sub \in [Providers -> Seq(Hooks)] /\ notes \in [Providers -> Seq(Given)]
    BY EmptySeq DEF Init
  <2>2. prompts \in Seq(Given) /\ published \in 0 .. MaxEvents
    BY EmptySeq DEF Init
  <2> QED BY <2>1, <2>2 DEF Init, FeedTypes
<1>3. UnstartedInv
  BY <1>1 DEF UnstartedInv
<1>4. QueuesInv
  BY <1>1, EmptyFacts DEF QueuesInv, Queue
<1>5. GivenInv
  BY EmptyFacts DEF GivenInv, Init
<1> QED BY <1>2, <1>3, <1>4, <1>5 DEF FeedInv

\* The invariant is inductive.
LEMMA NextFeed == FeedInv /\ visit \in Visits /\ [Next]_vars => FeedInv'
<1> SUFFICES ASSUME FeedInv, visit \in Visits, [Next]_vars PROVE FeedInv'
  OBVIOUS
<1>1. CASE UNCHANGED vars
  BY <1>1, QuietStep DEF vars
<1>2. CASE RemoteChange \/ TakeLocal \/ \E u \in updates : ApplyUpdate(u)
  BY <1>2, QuietStep DEF RemoteChange, TakeLocal, ApplyUpdate
<1>3. ASSUME NEW p \in Providers, ProviderStep(p) PROVE FeedInv'
  BY <1>3, SubscribeStep, ForwardStep, EndStreamStep, ConsumeStep, AddRemoteStep, PipelineStep, StartSSEStep, Zenon
  DEF ProviderStep
<1>4. CASE Next
  BY <1>2, <1>3, <1>4, HookStep, CallQuiet, DrainStep, Zenon DEF Next
<1> QED BY <1>1, <1>4

\* The bounds of an execution are chosen once.
LEMMA VisitStays == visit \in Visits /\ [Next]_vars => (visit \in Visits)'
<1> SUFFICES ASSUME visit \in Visits, [Next]_vars PROVE visit' = visit
  OBVIOUS
<1>1. CASE UNCHANGED vars
  BY <1>1 DEF vars
<1>2. ASSUME NEW p \in Providers, ProviderStep(p) PROVE visit' = visit
  BY <1>2 DEF ProviderStep, Subscribe, Forward, EndStream, Consume, AddRemote, ListSessions, RestoreMirrors, StartSSE
<1>3. ASSUME NEW c \in Callers, CallStep(c) PROVE visit' = visit
  BY <1>3 DEF CallStep, Request, HandleCreate, HandleWorktree, Launch, HandleResume, HandleDelete, HandleLookup, HandleFails,
              ApplyAnswer, MakeMirror, DropMirror, CallFails
<1>4. CASE TakeLocal \/ (\E u \in updates : ApplyUpdate(u)) \/ PendingNotifications \/ RemoteChange
  BY <1>4 DEF TakeLocal, ApplyUpdate, PendingNotifications, Drain, RemoteChange
<1>5. CASE \E w \in Windows, kind \in {"activity", "prompt"} : Hook(w, kind)
  BY <1>5 DEF Hook
<1>6. QED BY <1>1, <1>2, <1>3, <1>4, <1>5, Zenon DEF Next

\* For any number of connections, of which older ones may still stream, and
\* any losses, the GUI is given the prompts of a host in the order of their
\* hooks and none twice: a provider gets its stream after it was registered,
\* so all it hears of is younger than what its predecessors delivered.
THEOREM PromptsKeepTheirOrder == Spec => []PromptsInOrder
<1>1. FeedInv => PromptsInOrder
  <2> SUFFICES ASSUME FeedInv PROVE PromptsInOrder
    OBVIOUS
  <2>1. DOMAIN prompts = 1 .. Len(prompts) /\ Rising(prompts)
    BY DEF FeedInv, FeedTypes, GivenInv
  <2> QED BY <2>1 DEF PromptsInOrder, Rising
<1>2. Init => visit \in Visits
  BY DEF Init
<1> QED BY <1>1, <1>2, InitFeed, NextFeed, VisitStays, PTL DEF Spec

-----------------------------------------------------------------------------
(* The invariants of the cache and the sidebar.                            *)

\* The types of everything, of the snapshots on the wire too.
Wires == Seq(Message(Seq(Ids)))
DaemonTypes == remote \in Seq(Ids) /\ used \subseteq Ids /\ published \in 0 .. MaxEvents
StreamTypes ==
  /\ stream \in [Providers -> {"none", "open", "subscribed", "ended"}]
  /\ sub \in [Providers -> Seq(Hooks)] /\ wire \in [Providers -> Wires]
  /\ \A p \in Providers : Len(sub[p]) =< SubBuffer /\ Len(wire[p]) =< WireSize
PipeTypes ==
  /\ step \in [Providers -> {"off", "list", "listed", "stream", "up"}]
  /\ answer \in [Providers -> Seq(Ids)] /\ current \in Providers \cup {0}
CacheTypes == cache \in [Providers -> Seq(Ids)] /\ notes \in [Providers -> Seq(Prompt)] /\ {made, crossed} \subseteq [Providers -> SUBSET Ids]
\* Only a new session has no id until the daemon made it.
CallTypes ==
  /\ calls \in [Callers -> Call \cup {NoCall}]
  /\ \A c \in Callers : calls[c].id = NoId =>
       calls[c].at = "idle" \/ (calls[c].kind \in {"create", "worktree"} /\ calls[c].at \in {"sent", "failed"})
GuiTypes == mirrored \subseteq Ids /\ sidebar \in [Ids -> Shown] /\ prompts \in Seq(Prompt) /\ strayed \in BOOLEAN
LoopTypes ==
  /\ local \in Seq(Prompt) /\ Len(local) =< LocalBuffer /\ updates \subseteq Prompt
  /\ dropped \subseteq 1 .. MaxEvents /\ overtaken \subseteq 1 .. MaxEvents
BoundTypes == visit \in Visits /\ called \in 0 .. visit.calls /\ changes \in 0 .. visit.changes
Typed == DaemonTypes /\ StreamTypes /\ PipeTypes /\ CacheTypes /\ CallTypes /\ GuiTypes /\ LoopTypes /\ BoundTypes

\* Providers come one after the other.
TurnInv ==
  /\ \A p \in Providers : step[p] # "off" => p =< current /\ \A q \in Providers : q < p => step[q] = "up"
  /\ current # 0 => step[current] # "off"

\* A sequence without an entry that is there twice.
NoTwins(s) == \A i, j \in 1 .. Len(s) : i # j => s[i] # s[j]
\* The daemon has every session once, and nobody knows an id it did not make.
StoreInv ==
  /\ NoTwins(remote) /\ ToSet(remote) \subseteq used /\ mirrored \subseteq used
  /\ \A p \in Providers : ToSet(answer[p]) \subseteq used
  /\ \A c \in Callers : calls[c].id \in used \cup {NoId}

\* A session whose launch crossed nothing is in every list under way, and
\* no answer of a delete of it is.
Known(p, s) ==
  /\ step[p] = "listed" => s \in ToSet(answer[p])
  /\ \A i \in 1 .. Len(wire[p]) : wire[p][i].kind = "sync" => s \in ToSet(wire[p][i].ids)
  /\ ~Deleting(p, s)
ListInv == \A p \in Providers, s \in ToSet(remote) : s \in crossed[p] \/ Known(p, s)
MadeInv ==
  \A p \in Providers : made[p] \subseteq ToSet(remote) /\ made[p] \subseteq CacheIds(p) \cup crossed[p]

\* What is on the wire names its session or none, and none only if strayed.
NamedInv ==
  \A p \in Providers : \A i \in 1 .. Len(wire[p]) : wire[p][i].kind # "sync" =>
    wire[p][i].id \in {wire[p][i].window, NoId} /\ (wire[p][i].id = NoId => strayed)

\* What is on its way is younger than what the TUI has, while there is one
\* connection.
WireAbove(w, k) == \A i \in 1 .. Len(w) : w[i].kind # "sync" => k < w[i].n
Above(t, k) == \A i \in 1 .. Len(t) : k < t[i].n
Low(k) == k =< published /\ (current =< 1 => \A p \in Providers : WireAbove(wire[p], k) /\ Above(sub[p], k))
LowInv == (\A s \in Ids : Low(sidebar[s].n)) /\ (\A u \in updates \cup ToSet(local) : Low(u.n))

\* What the TUI has in hand is for its own session, and younger than what the
\* sidebar shows or noted as overtaken.
Fit(v) ==
  /\ v.window = v.mirror \/ strayed
  /\ current =< 1 => sidebar[v.mirror].n < v.n \/ v.n \in overtaken
WaitInv == \A v \in Waiting : v.mirror \in Ids => Fit(v)

-----------------------------------------------------------------------------
(* Facts about searching in sequences.                                     *)

\* A set of positions has a first and a last one.
LEMMA FirstAndLast ==
  ASSUME NEW n \in Nat, NEW I, I \subseteq 1 .. n, I # {}
  PROVE  Min(I) \in I /\ Max(I) \in I
<1>1. ASSUME NEW J, J \subseteq Nat, J # {} PROVE \E x \in J : \A y \in J : x =< y
  <2> DEFINE R == OpToRel(<, Nat)
  <2>1. IsWellFoundedOn(R, Nat)
    BY NatLessThanWellFounded
  <2>2. \A x, y \in Nat : x < y => <<x, y>> \in R
    BY Zenon DEF OpToRel
  <2> HIDE DEF R
  <2>3. PICK x \in J : \A y \in J : <<y, x>> \notin R
    BY <1>1, <2>1, WFMin
  <2>4. x \in Nat /\ \A y \in J : y \in Nat
    BY <1>1
  <2>5. \A y \in J : ~(y < x)
    BY <2>2, <2>3, <2>4, Zenon
  <2>6. QED BY <2>4, <2>5
<1>2. \E x \in I : \A y \in I : x =< y
  <2>1. I \subseteq Nat
    OBVIOUS
  <2>2. QED BY <1>1, <2>1
<1>3. \E x \in I : \A y \in I : x >= y
  <2> DEFINE J == {n - i : i \in I}
  <2>1. J \subseteq Nat /\ J # {}
    <3>1. \A i \in I : n - i \in Nat
      OBVIOUS
    <3>2. QED BY <3>1
  <2>2. PICK z \in J : \A y \in J : z =< y
    BY <1>1, <2>1
  <2>3. PICK x \in I : z = n - x
    BY <2>2
  <2>4. ASSUME NEW y \in I PROVE x >= y
    <3>1. n - x =< n - y
      BY <2>2, <2>3
    <3>2. x \in Nat /\ y \in Nat
      OBVIOUS
    <3>3. QED BY <3>1, <3>2
  <2>5. QED BY <2>4
<1>4. Min(I) \in I
  BY <1>2 DEF Min
<1>5. Max(I) \in I
  BY <1>3 DEF Max
<1>6. QED BY <1>4, <1>5

\* removeFromCache and Store.Remove take away one record, of that id.
LEMMA RemoveFirstFacts ==
  ASSUME NEW S, NEW s \in Seq(S), NEW e
  PROVE  /\ RemoveFirst(s, e) \in Seq(S)
         /\ ToSet(s) \ {e} \subseteq ToSet(RemoveFirst(s, e))
         /\ NoTwins(s) => NoTwins(RemoveFirst(s, e)) /\ ToSet(RemoveFirst(s, e)) = ToSet(s) \ {e}
<1>1. CASE ~\E i \in 1 .. Len(s) : s[i] = e
  <2>1. RemoveFirst(s, e) = s
    BY <1>1 DEF RemoveFirst
  <2>2. ToSet(s) = ToSet(s) \ {e}
    BY <1>1 DEF ToSet
  <2>3. QED BY <2>1, <2>2
<1>2. CASE \E i \in 1 .. Len(s) : s[i] = e
  <2> DEFINE I == {i \in 1 .. Len(s) : s[i] = e}
             k == Min(I)
             a == SubSeq(s, 1, k - 1)
             b == SubSeq(s, k + 1, Len(s))
  <2>1. RemoveFirst(s, e) = a \o b
    <3>1. RemoveFirst(s, e) = RemoveAt(s, k)
      BY <1>2 DEF RemoveFirst, SelectInSeq
    <3>2. QED BY <3>1 DEF RemoveAt
  <2>2. k \in 1 .. Len(s) /\ s[k] = e /\ Len(s) \in Nat
    <3>1. I \subseteq 1 .. Len(s) /\ I # {} /\ Len(s) \in Nat
      BY <1>2
    <3>2. k \in I
      BY <3>1, FirstAndLast
    <3>3. QED BY <3>1, <3>2
  <2> HIDE DEF k
  <2>3. /\ a \in Seq(S) /\ Len(a) = k - 1 /\ (\A i \in 1 .. k - 1 : a[i] = s[i])
        /\ b \in Seq(S) /\ Len(b) = Len(s) - k /\ (\A i \in 1 .. Len(s) - k : b[i] = s[k + i])
    BY <2>2
  <2> HIDE DEF a, b
  <2>4. /\ a \o b \in Seq(S) /\ Len(a \o b) = Len(a) + Len(b)
        /\ \A i \in 1 .. Len(a) + Len(b) : (a \o b)[i] = IF i <= Len(a) THEN a[i] ELSE b[i - Len(a)]
    BY <2>3, ConcatProperties, Zenon
  <2>5. ASSUME NEW i \in 1 .. Len(s), i # k PROVE \E j \in 1 .. Len(a \o b) : (a \o b)[j] = s[i]
    <3>1. CASE i < k
      <4>1. i \in 1 .. Len(a) + Len(b) /\ i <= Len(a) /\ i \in 1 .. k - 1
        BY <2>2, <2>3, <3>1
      <4>2. QED BY <2>3, <2>4, <4>1
    <3>2. CASE i > k
      <4>1. i - 1 \in 1 .. Len(a) + Len(b) /\ ~(i - 1 <= Len(a)) /\ (i - 1) - Len(a) = i - k /\ i - k \in 1 .. Len(s) - k
        BY <2>2, <2>3, <3>2
      <4>2. (a \o b)[i - 1] = b[i - k]
        BY <2>4, <4>1
      <4>3. b[i - k] = s[i]
        BY <2>2, <2>3, <4>1
      <4>4. QED BY <2>4, <4>1, <4>2, <4>3
    <3>3. QED BY <2>2, <2>5, <3>1, <3>2
  <2>6. DOMAIN s = 1 .. Len(s) /\ DOMAIN (a \o b) = 1 .. Len(a \o b)
    BY <2>4
  <2>7. ToSet(s) \ {e} \subseteq ToSet(a \o b)
    BY <2>2, <2>5, <2>6 DEF ToSet
  <2>8. ASSUME NEW j \in 1 .. Len(a \o b)
        PROVE  LET i == IF j < k THEN j ELSE j + 1 IN i \in 1 .. Len(s) /\ i # k /\ (a \o b)[j] = s[i]
    <3>1. CASE j < k
      BY <2>2, <2>3, <2>4, <3>1
    <3>2. CASE ~(j < k)
      <4>1. j \in 1 .. Len(a) + Len(b) /\ ~(j <= Len(a)) /\ j - Len(a) \in 1 .. Len(s) - k /\ k + (j - Len(a)) = j + 1
        BY <2>2, <2>3, <2>4, <3>2
      <4>2. (a \o b)[j] = b[j - Len(a)] /\ b[j - Len(a)] = s[j + 1]
        BY <2>3, <2>4, <4>1
      <4>3. j + 1 \in 1 .. Len(s) /\ j + 1 # k
        BY <2>2, <2>3, <2>4, <3>2
      <4>4. QED BY <3>2, <4>2, <4>3
    <3>3. QED BY <3>1, <3>2
  <2>9. ASSUME NoTwins(s) PROVE NoTwins(a \o b) /\ ToSet(a \o b) = ToSet(s) \ {e}
    <3> DEFINE At(j) == IF j < k THEN j ELSE j + 1
    <3>1. \A j \in 1 .. Len(a \o b) : At(j) \in 1 .. Len(s) /\ At(j) # k /\ (a \o b)[j] = s[At(j)]
      BY <2>8
    <3>2. \A i, j \in 1 .. Len(a \o b) : i # j => At(i) # At(j)
      BY <2>2
    <3> HIDE DEF At
    <3>3. NoTwins(a \o b)
      BY <2>9, <3>1, <3>2 DEF NoTwins
    <3>4. \A j \in 1 .. Len(a \o b) : (a \o b)[j] \in ToSet(s) \ {e}
      BY <2>2, <2>6, <2>9, <3>1 DEF NoTwins, ToSet
    <3>5. ToSet(a \o b) \subseteq ToSet(s) \ {e}
      BY <2>6, <3>4 DEF ToSet
    <3>6. QED BY <2>7, <3>3, <3>5
  <2>10. QED BY <2>1, <2>4, <2>7, <2>9
<1>3. QED BY <1>1, <1>2

\* addToCache and Append leave everything where it is.
LEMMA AddedFacts ==
  ASSUME NEW S, NEW s \in Seq(S), NEW e \in S
  PROVE  /\ Append(s, e) \in Seq(S) /\ ToSet(Append(s, e)) = ToSet(s) \cup {e}
         /\ Added(s, e) \in Seq(S) /\ ToSet(Added(s, e)) = ToSet(s) \cup {e}
         /\ NoTwins(s) /\ e \notin ToSet(s) => NoTwins(Append(s, e))
<1>1. /\ Append(s, e) \in Seq(S) /\ Len(s) \in Nat /\ Len(Append(s, e)) = Len(s) + 1
      /\ (\A i \in 1 .. Len(s) : Append(s, e)[i] = s[i]) /\ Append(s, e)[Len(s) + 1] = e
  BY AppendFacts
<1>2. DOMAIN s = 1 .. Len(s) /\ DOMAIN Append(s, e) = 1 .. Len(s) + 1
  BY <1>1
<1>3. ToSet(Append(s, e)) = ToSet(s) \cup {e}
  BY <1>1, <1>2 DEF ToSet
<1>4. ASSUME NoTwins(s), e \notin ToSet(s) PROVE NoTwins(Append(s, e))
  <2>1. \A i \in 1 .. Len(s) : s[i] # e
    BY <1>2, <1>4 DEF ToSet
  <2>2. \A i \in 1 .. Len(s) + 1 : i \in 1 .. Len(s) \/ i = Len(s) + 1
    BY <1>1
  <2>3. QED BY <1>1, <1>4, <2>1, <2>2 DEF NoTwins
<1>5. QED BY <1>1, <1>3, <1>4 DEF Added

\* The sessions of the store in some order.
LEMMA OrderedFacts ==
  ASSUME NEW S, IsFiniteSet(S)
  PROVE  SetToSeq(S) \in Seq(S) /\ ToSet(SetToSeq(S)) \subseteq S /\ NoTwins(SetToSeq(S))
<1> DEFINE n == Cardinality(S)
<1>1. n \in Nat /\ \E f \in [1 .. n -> S] : IsInjective(f)
  BY FS_CardinalityType, Zenon DEF ExistsBijection, Bijection, Injection, IsInjective
<1>2. SetToSeq(S) \in [1 .. n -> S] /\ IsInjective(SetToSeq(S))
  BY <1>1 DEF SetToSeq
<1>3. SetToSeq(S) \in Seq(S) /\ Len(SetToSeq(S)) = n /\ DOMAIN SetToSeq(S) = 1 .. n
  BY <1>1, <1>2
<1>4. ToSet(SetToSeq(S)) \subseteq S
  BY <1>2, <1>3 DEF ToSet
<1>5. NoTwins(SetToSeq(S))
  BY <1>2, <1>3 DEF IsInjective, NoTwins
<1>6. QED BY <1>3, <1>4, <1>5

-----------------------------------------------------------------------------
(* The types.                                                              *)

\* What the daemon sends for a hook, and what the provider makes of it.
LEMMA NotificationFacts ==
  ASSUME remote \in Seq(Ids), NEW h \in Hooks
  PROVE  /\ Notification(h) \in Numbered /\ Notification(h).n = h.n /\ Notification(h).window = h.window
         /\ Notification(h).id \in {h.window, NoId} /\ Notification(h).kind # "sync"
BY DEF Notification, SessionIdFor, Numbered, Hooks

\* The session an activity is taken for is cached, and the one it names
\* unless it names none.
LEMMA FirstMatchFacts ==
  ASSUME NEW p \in Providers, cache[p] \in Seq(Ids), NEW id
  PROVE  FirstMatch(p, id) = NoId \/ (FirstMatch(p, id) \in Ids /\ (id # NoId => FirstMatch(p, id) = id))
<1> DEFINE hits == {i \in DOMAIN cache[p] : Matches(cache[p][i], id)}
<1>1. FirstMatch(p, id) = IF hits = {} THEN NoId ELSE cache[p][Min(hits)]
  BY DEF FirstMatch
<1>2. hits \subseteq 1 .. Len(cache[p]) /\ Len(cache[p]) \in Nat
  OBVIOUS
<1>3. \A i \in hits : i \in 1 .. Len(cache[p]) /\ cache[p][i] \in Ids /\ (cache[p][i] = id \/ id = NoId)
  BY <1>2 DEF Matches
<1> HIDE DEF hits
<1>4. hits # {} => Min(hits) \in hits
  BY <1>2, FirstAndLast
<1>5. QED BY <1>1, <1>3, <1>4

\* A marked window shows the last of its own prompts.
LEMMA MarkedFacts ==
  ASSUME NEW ms \in Seq(Prompt), NEW s \in Ids
  PROVE  \/ Marked(ms)[s] = sidebar[s]
         \/ \E i \in 1 .. Len(ms) : ms[i].mirror = s /\ Marked(ms)[s] = [window |-> ms[i].window, n |-> ms[i].n]
<1> DEFINE own == {i \in DOMAIN ms : ms[i].mirror = s}
<1>1. Marked(ms)[s] = IF own = {} THEN sidebar[s] ELSE [window |-> ms[Max(own)].window, n |-> ms[Max(own)].n]
  BY Zenon DEF Marked
<1>2. own \subseteq 1 .. Len(ms) /\ Len(ms) \in Nat
  OBVIOUS
<1>3. \A i \in own : ms[i].mirror = s
  OBVIOUS
<1> HIDE DEF own
<1>4. own # {} => Max(own) \in own
  BY <1>2, FirstAndLast
<1>5. QED BY <1>1, <1>2, <1>3, <1>4

\* The limits of the buffers.
LEMMA Sizes == SubBuffer \in Nat /\ WireSize \in Nat /\ LocalBuffer \in Nat
BY ConstantsAssumption

\* Hook, Subscribe, Forward, EndStream: the stream on the host's side.
LEMMA StreamTyped ==
  ASSUME Typed, \/ \E w \in Windows, kind \in {"activity", "prompt"} : Hook(w, kind)
                \/ \E p \in Providers : Subscribe(p) \/ Forward(p) \/ EndStream(p)
  PROVE  Typed'
<1> USE DEF Typed
<1>1. ASSUME NEW w0 \in Windows, NEW kind \in {"activity", "prompt"}, Hook(w0, kind) PROVE Typed'
  <2> DEFINE h == [kind |-> kind, window |-> w0, n |-> published + 1]
  <2>1. /\ published' = published + 1 /\ published < visit.events /\ visit.events \in 0 .. MaxEvents
        /\ UNCHANGED <<remote, used, stream, wire, pipeVars, cache, notes, madeVars, calls, guiVars, loopVars, strayed, visit, called, changes>>
        /\ sub' = [p \in Providers |-> IF stream[p] = "subscribed" /\ Len(sub[p]) < SubBuffer THEN Append(sub[p], h) ELSE sub[p]]
    BY <1>1, ConstantsAssumption DEF Hook, Publish, BoundTypes
  <2>2. DaemonTypes'
    BY <2>1, ConstantsAssumption DEF DaemonTypes
  <2>3. h \in Hooks
    BY <2>1, ConstantsAssumption DEF DaemonTypes, Hooks
  <2> HIDE DEF h
  <2>4. ASSUME NEW p \in Providers
        PROVE  sub'[p] \in Seq(Hooks) /\ Len(sub'[p]) =< SubBuffer
    <3>1. sub[p] \in Seq(Hooks) /\ Len(sub[p]) =< SubBuffer /\ Len(sub[p]) \in Nat /\ SubBuffer \in Nat
      BY Sizes DEF StreamTypes
    <3>2. Append(sub[p], h) \in Seq(Hooks) /\ Len(Append(sub[p], h)) = Len(sub[p]) + 1
      BY <2>3, <3>1
    <3>3. QED BY <2>1, <3>1, <3>2
  <2>5. sub' \in [Providers -> Seq(Hooks)]
    BY <2>1, <2>4
  <2>6. StreamTypes'
    BY <2>1, <2>4, <2>5 DEF StreamTypes
  <2>7. PipeTypes' /\ CacheTypes' /\ CallTypes' /\ GuiTypes' /\ BoundTypes' /\ LoopTypes'
    BY <2>1 DEF PipeTypes, CacheTypes, CallTypes, GuiTypes, BoundTypes, LoopTypes
  <2>8. QED BY <2>2, <2>6, <2>7
<1>2. ASSUME NEW p \in Providers, Subscribe(p) PROVE Typed'
  <2>1. StreamTypes'
    BY <1>2 DEF Subscribe, StreamTypes
  <2>2. DaemonTypes' /\ PipeTypes' /\ CacheTypes' /\ CallTypes' /\ GuiTypes' /\ BoundTypes' /\ LoopTypes'
    BY <1>2 DEF Subscribe, DaemonTypes, PipeTypes, CacheTypes, CallTypes, GuiTypes, BoundTypes, LoopTypes
  <2>3. QED BY <2>1, <2>2
<1>3. ASSUME NEW p \in Providers, Forward(p) PROVE Typed'
  <2> DEFINE e == Notification(Head(sub[p]))
  <2>1. /\ sub[p] # <<>> /\ Len(wire[p]) < WireSize
        /\ wire' = [wire EXCEPT ![p] = Append(@, e)] /\ sub' = [sub EXCEPT ![p] = Tail(@)]
        /\ strayed' = (strayed \/ e.id = NoId)
        /\ UNCHANGED <<daemonVars, stream, pipeVars, cache, notes, madeVars, calls, guiVars, loopVars, visit, called, changes>>
    BY <1>3 DEF Forward
  <2>2. sub[p] \in Seq(Hooks) /\ wire[p] \in Wires /\ Len(sub[p]) =< SubBuffer /\ remote \in Seq(Ids)
    BY DEF StreamTypes, DaemonTypes
  <2>3. Head(sub[p]) \in Hooks /\ Tail(sub[p]) \in Seq(Hooks) /\ Len(Tail(sub[p])) = Len(sub[p]) - 1 /\ Len(sub[p]) \in Nat
    BY <2>1, <2>2, TailFacts
  <2>4. e \in Message(Seq(Ids))
    BY <2>2, <2>3, NotificationFacts DEF Message
  <2> HIDE DEF e
  <2>5. Append(wire[p], e) \in Wires /\ Len(Append(wire[p], e)) = Len(wire[p]) + 1 /\ Len(wire[p]) \in Nat
    BY <2>2, <2>4, AppendFacts DEF Wires
  <2>6. wire' \in [Providers -> Wires] /\ sub' \in [Providers -> Seq(Hooks)]
    BY <2>1, <2>3, <2>5 DEF StreamTypes
  <2>7. ASSUME NEW q \in Providers PROVE Len(sub'[q]) =< SubBuffer /\ Len(wire'[q]) =< WireSize
    <3>1. CASE q = p
      <4>1. sub'[q] = Tail(sub[p]) /\ wire'[q] = Append(wire[p], e)
        BY <2>1, <3>1 DEF StreamTypes
      <4>2. SubBuffer \in Nat /\ WireSize \in Nat
        BY ConstantsAssumption
      <4>3. Len(sub'[q]) = Len(sub[p]) - 1 /\ Len(wire'[q]) = Len(wire[p]) + 1
        BY <2>3, <2>5, <4>1
      <4>4. Len(wire[p]) < WireSize /\ Len(sub[p]) =< SubBuffer /\ Len(wire[p]) \in Nat /\ Len(sub[p]) \in Nat
        BY <2>1, <2>2, <2>3, <2>5
      <4>5. QED BY <4>2, <4>3, <4>4
    <3>2. CASE q # p
      BY <2>1, <3>2 DEF StreamTypes
    <3>3. QED BY <3>1, <3>2
  <2>8. StreamTypes'
    BY <2>1, <2>6, <2>7 DEF StreamTypes
  <2>9. GuiTypes'
    BY <2>1 DEF GuiTypes
  <2>10. DaemonTypes' /\ PipeTypes' /\ CacheTypes' /\ CallTypes' /\ BoundTypes' /\ LoopTypes'
    BY <2>1 DEF DaemonTypes, PipeTypes, CacheTypes, CallTypes, BoundTypes, LoopTypes
  <2>11. QED BY <2>8, <2>9, <2>10
<1>4. ASSUME NEW p \in Providers, EndStream(p) PROVE Typed'
  <2>1. /\ stream' = [stream EXCEPT ![p] = "ended"] /\ sub' = [sub EXCEPT ![p] = <<>>]
        /\ UNCHANGED <<daemonVars, pipeVars, cache, notes, madeVars, calls, guiVars, loopVars, strayed, visit, called, changes>>
    BY <1>4 DEF EndStream
  <2>2. PICK n \in 0 .. Len(wire[p]) : wire' = [wire EXCEPT ![p] = SubSeq(@, 1, n)]
    BY <1>4 DEF EndStream
  <2> DEFINE v == SubSeq(wire[p], 1, n)
  <2>3. wire[p] \in Wires /\ Len(wire[p]) =< WireSize /\ Len(wire[p]) \in Nat /\ SubBuffer \in Nat /\ WireSize \in Nat
    BY Sizes DEF StreamTypes, Wires
  <2>4. v \in Wires /\ Len(v) = n
    BY <2>3 DEF Wires
  <2>c. v = SubSeq(wire[p], 1, n)
    OBVIOUS
  <2> HIDE DEF v
  <2>5. wire' = [wire EXCEPT ![p] = v]
    BY <2>2, <2>c
  <2>6. /\ wire' \in [Providers -> Wires] /\ sub' \in [Providers -> Seq(Hooks)]
        /\ stream' \in [Providers -> {"none", "open", "subscribed", "ended"}]
    BY <2>1, <2>4, <2>5, EmptySeq DEF StreamTypes
  <2>7. ASSUME NEW q \in Providers PROVE Len(sub'[q]) =< SubBuffer /\ Len(wire'[q]) =< WireSize
    <3>1. CASE q = p
      <4>1. sub'[q] = <<>> /\ wire'[q] = v
        BY <2>1, <2>5, <3>1 DEF StreamTypes
      <4>2. Len(sub'[q]) = 0
        BY <4>1, EmptySeq
      <4>3. QED BY <2>3, <2>4, <4>1, <4>2
    <3>2. CASE q # p
      BY <2>1, <2>5, <3>2 DEF StreamTypes
    <3>3. QED BY <3>1, <3>2
  <2>8. StreamTypes'
    BY <2>6, <2>7 DEF StreamTypes
  <2>9. DaemonTypes' /\ PipeTypes' /\ CacheTypes' /\ CallTypes' /\ GuiTypes' /\ BoundTypes' /\ LoopTypes'
    BY <2>1 DEF DaemonTypes, PipeTypes, CacheTypes, CallTypes, GuiTypes, BoundTypes, LoopTypes
  <2>10. QED BY <2>8, <2>9
<1>5. QED BY <1>1, <1>2, <1>3, <1>4

\* What waits in the TUI has the type of a prompt.
LEMMA WaitingTyped ==
  ASSUME updates' \subseteq Prompt, local' \in Seq(Prompt), notes' \in [Providers -> Seq(Prompt)]
  PROVE  Waiting' \subseteq Prompt /\ Outdated' \subseteq 1 .. MaxEvents
<1>1. ASSUME NEW q \in Seq(Prompt) PROVE ToSet(q) \subseteq Prompt
  BY DEF ToSet
<1>2. Waiting' \subseteq Prompt
  BY <1>1 DEF Waiting
<1>3. \A u \in Prompt : u.n \in 1 .. MaxEvents
  BY DEF Prompt
<1> QED BY <1>2, <1>3 DEF Outdated

\* consumeSSE.
LEMMA ConsumeTyped ==
  ASSUME Typed, NEW p \in Providers, Consume(p)
  PROVE  Typed'
<1> USE DEF Typed
<1> DEFINE e == Head(wire[p])
<1>1. /\ wire[p] # <<>> /\ wire' = [wire EXCEPT ![p] = Tail(@)] /\ Take(p, e)
      /\ UNCHANGED <<daemonVars, stream, sub, pipeVars, madeVars, calls, guiVars, updates, overtaken, strayed, visit, called, changes>>
  BY DEF Consume
<1>2. /\ wire[p] \in Wires /\ Len(wire[p]) =< WireSize /\ WireSize \in Nat
      /\ cache[p] \in Seq(Ids) /\ notes[p] \in Seq(Prompt) /\ mirrored \subseteq Ids
  BY ConstantsAssumption DEF StreamTypes, CacheTypes, GuiTypes
<1>3. e \in Message(Seq(Ids)) /\ Tail(wire[p]) \in Wires /\ Len(Tail(wire[p])) = Len(wire[p]) - 1 /\ Len(wire[p]) \in Nat
  BY <1>1, <1>2, TailFacts DEF Wires
<1>4. e \in Numbered \/ (e.kind = "sync" /\ e.ids \in Seq(Ids))
  BY <1>3 DEF Message
<1> HIDE DEF e
<1>5. StreamTypes'
  <2>1. wire' \in [Providers -> Wires]
    BY <1>1, <1>3 DEF StreamTypes
  <2>2. \A q \in Providers : Len(wire'[q]) =< WireSize
    BY <1>1, <1>2, <1>3 DEF StreamTypes
  <2> QED BY <1>1, <2>1, <2>2 DEF StreamTypes
<1>6. ASSUME e \in Numbered, NEW s PROVE Resolved(s, e) \in Prompt /\ e.n \in 1 .. MaxEvents
  BY <1>2, <1>6 DEF Numbered, Prompt, Resolved
<1>7. CacheTypes' /\ LoopTypes'
  <2>1. CASE e.kind = "sync" /\ cache' = [cache EXCEPT ![p] = e.ids] /\ UNCHANGED <<notes, local, dropped>>
    <3>1. e.ids \in Seq(Ids)
      BY <1>4, <2>1 DEF Numbered
    <3> QED BY <1>1, <2>1, <3>1 DEF CacheTypes, LoopTypes
  <2>2. CASE e.kind = "activity" /\ ShowActivity(p, e) /\ UNCHANGED <<cache, notes>>
    <3>1. e \in Numbered
      BY <1>4, <2>2
    <3>2. CASE UNCHANGED <<local, dropped>>
      BY <1>1, <2>2, <3>2 DEF CacheTypes, LoopTypes
    <3>3. CASE Len(local) < LocalBuffer /\ local' = Append(local, Resolved(FirstMatch(p, e.id), e)) /\ UNCHANGED dropped
      <4>1. Resolved(FirstMatch(p, e.id), e) \in Prompt
        BY <1>6, <3>1
      <4>2. local' \in Seq(Prompt) /\ Len(local') = Len(local) + 1 /\ Len(local) \in Nat
        BY <3>3, <4>1, AppendFacts DEF LoopTypes
      <4>3. Len(local') =< LocalBuffer
        BY <3>3, <4>2, ConstantsAssumption
      <4> QED BY <1>1, <2>2, <3>3, <4>2, <4>3 DEF CacheTypes, LoopTypes
    <3>4. CASE dropped' = dropped \cup {e.n} /\ UNCHANGED local
      BY <1>1, <1>6, <2>2, <3>1, <3>4 DEF CacheTypes, LoopTypes
    <3> QED BY <2>2, <3>2, <3>3, <3>4 DEF ShowActivity
  <2>3. CASE e.kind = "prompt" /\ notes' = [notes EXCEPT ![p] = Append(@, Resolved(e.id, e))] /\ UNCHANGED <<cache, local, dropped>>
    <3>1. Resolved(e.id, e) \in Prompt
      BY <1>4, <1>6, <2>3
    <3>2. Append(notes[p], Resolved(e.id, e)) \in Seq(Prompt)
      BY <1>2, <3>1, AppendFacts
    <3>3. notes' \in [Providers -> Seq(Prompt)]
      BY <2>3, <3>2 DEF CacheTypes
    <3> QED BY <1>1, <2>3, <3>3 DEF CacheTypes, LoopTypes
  <2> QED BY <1>1, <2>1, <2>2, <2>3 DEF Take
<1>8. DaemonTypes' /\ PipeTypes' /\ CallTypes' /\ GuiTypes' /\ BoundTypes'
  BY <1>1 DEF DaemonTypes, PipeTypes, CallTypes, GuiTypes, BoundTypes
<1> QED BY <1>5, <1>7, <1>8

\* The GUI's loop, its updates and its tick.
LEMMA GuiTyped ==
  ASSUME Typed, PendingNotifications \/ TakeLocal \/ \E u \in updates : ApplyUpdate(u)
  PROVE  Typed'
<1> USE DEF Typed
<1>1. ASSUME PendingNotifications PROVE Typed'
  <2>1. /\ current # 0 /\ prompts' = prompts \o notes[current] /\ sidebar' = Marked(notes[current])
        /\ notes' = [notes EXCEPT ![current] = <<>>] /\ overtaken' = overtaken \cup Outdated'
        /\ UNCHANGED <<daemonVars, streamVars, pipeVars, cache, madeVars, calls, mirrored, local, updates, dropped, strayed, visit, called, changes>>
    BY <1>1 DEF PendingNotifications, Drain
  <2>2. current \in Providers /\ notes[current] \in Seq(Prompt)
    BY <2>1 DEF PipeTypes, CacheTypes
  <2>3. prompts' \in Seq(Prompt)
    BY <2>1, <2>2, ConcatProperties DEF GuiTypes
  <2>4. ASSUME NEW s \in Ids PROVE sidebar'[s] \in Shown
    <3>1. sidebar[s] \in Shown
      BY DEF GuiTypes
    <3>2. \A i \in 1 .. Len(notes[current]) : notes[current][i] \in Prompt
      BY <2>2
    <3>3. \A m \in Prompt : [window |-> m.window, n |-> m.n] \in Shown
      BY ConstantsAssumption DEF Prompt, Shown
    <3>4. \/ sidebar'[s] = sidebar[s]
          \/ \E i \in 1 .. Len(notes[current]) :
               sidebar'[s] = [window |-> notes[current][i].window, n |-> notes[current][i].n]
      BY <2>1, <2>2, MarkedFacts
    <3>5. QED BY <3>1, <3>2, <3>3, <3>4
  <2>5. sidebar' \in [Ids -> Shown]
    <3>1. sidebar' = [s \in Ids |-> sidebar'[s]]
      BY <2>1 DEF Marked
    <3>2. QED BY <2>4, <3>1
  <2>6. GuiTypes'
    BY <2>1, <2>3, <2>5 DEF GuiTypes
  <2>7. CacheTypes'
    BY <2>1, EmptySeq DEF CacheTypes
  <2>8. LoopTypes'
    BY <2>1, <2>7, WaitingTyped DEF LoopTypes, CacheTypes
  <2>9. DaemonTypes' /\ StreamTypes' /\ PipeTypes' /\ CallTypes' /\ BoundTypes'
    BY <2>1 DEF DaemonTypes, StreamTypes, PipeTypes, CallTypes, BoundTypes
  <2>10. QED BY <2>6, <2>7, <2>8, <2>9
<1>2. ASSUME TakeLocal PROVE Typed'
  <2>1. /\ local # <<>> /\ updates' = updates \cup {Head(local)} /\ local' = Tail(local)
        /\ UNCHANGED <<daemonVars, streamVars, pipeVars, cache, notes, madeVars, calls, guiVars, dropped, overtaken, strayed,
                        visit, called, changes>>
    BY <1>2 DEF TakeLocal
  <2>2. Head(local) \in Prompt /\ local' \in Seq(Prompt) /\ Len(local') = Len(local) - 1 /\ Len(local) \in Nat
    BY <2>1, TailFacts DEF LoopTypes
  <2>3. LoopTypes'
    BY <2>1, <2>2, ConstantsAssumption DEF LoopTypes
  <2>4. DaemonTypes' /\ StreamTypes' /\ PipeTypes' /\ CacheTypes' /\ CallTypes' /\ GuiTypes' /\ BoundTypes'
    BY <2>1 DEF DaemonTypes, StreamTypes, PipeTypes, CacheTypes, CallTypes, GuiTypes, BoundTypes
  <2>5. QED BY <2>3, <2>4
<1>3. ASSUME NEW u \in updates, ApplyUpdate(u) PROVE Typed'
  <2>1. /\ updates' = updates \ {u}
        /\ sidebar' = IF u.mirror = NoId THEN sidebar ELSE [sidebar EXCEPT ![u.mirror] = [window |-> u.window, n |-> u.n]]
        /\ overtaken' = overtaken \cup Outdated'
        /\ UNCHANGED <<daemonVars, streamVars, pipeVars, cache, notes, madeVars, calls, mirrored, prompts, local, dropped, strayed,
                        visit, called, changes>>
    BY <1>3 DEF ApplyUpdate
  <2>2. u \in Prompt
    BY DEF LoopTypes
  <2>3. [window |-> u.window, n |-> u.n] \in Shown
    BY <2>2, ConstantsAssumption DEF Prompt, Shown
  <2>4. GuiTypes'
    BY <2>1, <2>3 DEF GuiTypes
  <2>5. LoopTypes'
    <3>1. updates' \subseteq Prompt /\ local' \in Seq(Prompt) /\ notes' \in [Providers -> Seq(Prompt)]
      BY <2>1 DEF LoopTypes, CacheTypes
    <3>2. Outdated' \subseteq 1 .. MaxEvents
      BY <3>1, WaitingTyped
    <3> QED BY <2>1, <3>1, <3>2 DEF LoopTypes
  <2>6. DaemonTypes' /\ StreamTypes' /\ PipeTypes' /\ CacheTypes' /\ CallTypes' /\ BoundTypes'
    BY <2>1 DEF DaemonTypes, StreamTypes, PipeTypes, CacheTypes, CallTypes, BoundTypes
  <2>7. QED BY <2>4, <2>5, <2>6
<1>4. QED BY <1>1, <1>2, <1>3

\* The steps of connectRemoteHost.
LEMMA PipelineTyped ==
  ASSUME Typed, NEW p \in Providers, AddRemote(p) \/ ListSessions(p) \/ RestoreMirrors(p) \/ StartSSE(p)
  PROVE  Typed'
<1> USE DEF Typed
<1>1. CASE AddRemote(p)
  <2>1. PipeTypes'
    BY <1>1 DEF AddRemote, PipeTypes
  <2>2. DaemonTypes' /\ StreamTypes' /\ CacheTypes' /\ CallTypes' /\ GuiTypes' /\ BoundTypes' /\ LoopTypes'
    BY <1>1 DEF AddRemote, DaemonTypes, StreamTypes, CacheTypes, CallTypes, GuiTypes, BoundTypes, LoopTypes
  <2>3. QED BY <2>1, <2>2
<1>2. CASE ListSessions(p)
  <2>1. PipeTypes'
    BY <1>2 DEF ListSessions, PipeTypes, DaemonTypes
  <2>2. DaemonTypes' /\ StreamTypes' /\ CacheTypes' /\ CallTypes' /\ GuiTypes' /\ BoundTypes' /\ LoopTypes'
    BY <1>2 DEF ListSessions, DaemonTypes, StreamTypes, CacheTypes, CallTypes, GuiTypes, BoundTypes, LoopTypes
  <2>3. QED BY <2>1, <2>2
<1>3. CASE RestoreMirrors(p)
  <2>1. /\ step' = [step EXCEPT ![p] = "stream"] /\ cache' = [cache EXCEPT ![p] = answer[p]]
        /\ answer' = [answer EXCEPT ![p] = <<>>]
        /\ \E failed : mirrored' = mirrored \cup (ToSet(answer[p]) \ failed)
        /\ UNCHANGED <<daemonVars, streamVars, current, notes, madeVars, calls, sidebar, prompts, loopVars, strayed, visit, called, changes>>
    BY <1>3 DEF RestoreMirrors
  <2>2. answer[p] \in Seq(Ids) /\ ToSet(answer[p]) \subseteq Ids
    BY DEF PipeTypes, ToSet
  <2>3. PipeTypes'
    BY <2>1, EmptySeq DEF PipeTypes
  <2>4. CacheTypes' /\ GuiTypes'
    BY <2>1, <2>2 DEF CacheTypes, GuiTypes
  <2>5. DaemonTypes' /\ StreamTypes' /\ CallTypes' /\ BoundTypes' /\ LoopTypes'
    BY <2>1 DEF DaemonTypes, StreamTypes, CallTypes, BoundTypes, LoopTypes
  <2>6. QED BY <2>3, <2>4, <2>5
<1>4. CASE StartSSE(p)
  <2> DEFINE m == Sync(remote)
  <2>1. /\ step' = [step EXCEPT ![p] = "up"]
        /\ \/ stream' = [stream EXCEPT ![p] = "open"] /\ wire' = [wire EXCEPT ![p] = <<m>>]
           \/ UNCHANGED <<stream, wire>>
        /\ UNCHANGED <<daemonVars, sub, answer, current, cache, notes, madeVars, calls, guiVars, loopVars, strayed, visit, called, changes>>
    BY <1>4 DEF StartSSE
  <2>2. m \in Message(Seq(Ids))
    BY DEF Sync, Message, DaemonTypes
  <2> HIDE DEF m
  <2>3. <<m>> \in Wires /\ Len(<<m>>) = 1 /\ 1 =< WireSize
    BY <2>2, ConstantsAssumption DEF Wires
  <2>4. wire' \in [Providers -> Wires] /\ stream' \in [Providers -> {"none", "open", "subscribed", "ended"}]
    BY <2>1, <2>3 DEF StreamTypes
  <2>5. ASSUME NEW q \in Providers PROVE Len(wire'[q]) =< WireSize
    BY <2>1, <2>3 DEF StreamTypes
  <2>6. StreamTypes'
    BY <2>1, <2>4, <2>5 DEF StreamTypes
  <2>7. PipeTypes'
    BY <2>1 DEF PipeTypes
  <2>8. DaemonTypes' /\ CacheTypes' /\ CallTypes' /\ GuiTypes' /\ BoundTypes' /\ LoopTypes'
    BY <2>1 DEF DaemonTypes, CacheTypes, CallTypes, GuiTypes, BoundTypes, LoopTypes
  <2>9. QED BY <2>6, <2>7, <2>8
<1>5. QED BY <1>1, <1>2, <1>3, <1>4

\* A call that is under way, and its next place.
LEMMA CallFacts ==
  ASSUME Typed, NEW c \in Callers, calls[c].at # "idle"
  PROVE  /\ calls[c] \in Call /\ calls[c].id \in Ids \cup {NoId} /\ calls[c].via \in Providers
         /\ calls[c].kind \notin {"create", "worktree"} \/ calls[c].at \notin {"sent", "failed"} => calls[c].id \in Ids
         /\ \A at : [calls EXCEPT ![c].at = at] = [calls EXCEPT ![c] = [calls[c] EXCEPT !.at = at]]
         /\ \A at \in {"sent", "ok", "failed", "mirror"} : [calls[c] EXCEPT !.at = at] \in Call
<1>1. calls[c] \in Call
  BY DEF Typed, CallTypes, NoCall
<1>2. calls[c].id \in Ids \cup {NoId} /\ calls[c].via \in Providers
  BY <1>1 DEF Call
<1>3. calls[c].kind \notin {"create", "worktree"} \/ calls[c].at \notin {"sent", "failed"} => calls[c].id \in Ids
  BY <1>2 DEF Typed, CallTypes
<1>4. \A at \in {"sent", "ok", "failed", "mirror"} : [calls[c] EXCEPT !.at = at] \in Call
  BY <1>1 DEF Call
<1>5. \A at : [calls EXCEPT ![c].at = at] = [calls EXCEPT ![c] = [calls[c] EXCEPT !.at = at]]
  OBVIOUS
<1>6. QED BY <1>1, <1>2, <1>3, <1>4, <1>5

\* A call replaced by one of the right type.
LEMMA NextCallTyped ==
  ASSUME CallTypes, NEW c \in Callers, NEW d \in Call \cup {NoCall}, calls' = [calls EXCEPT ![c] = d],
         d.id = NoId => d.at = "idle" \/ (d.kind \in {"create", "worktree"} /\ d.at \in {"sent", "failed"})
  PROVE  CallTypes'
<1>1. calls' \in [Callers -> Call \cup {NoCall}] /\ calls'[c] = d /\ \A b \in Callers : b # c => calls'[b] = calls[b]
  BY DEF CallTypes
<1>2. QED BY <1>1 DEF CallTypes

\* The steps of a call on the daemon.
LEMMA HandlerTyped ==
  ASSUME Typed, NEW c \in Callers,
         HandleCreate(c) \/ HandleWorktree(c) \/ HandleResume(c) \/ HandleDelete(c) \/ HandleLookup(c) \/ HandleFails(c)
  PROVE  Typed'
<1> USE DEF Typed
<1>c. \A S, s : S \in SUBSET Ids /\ s \in Ids => S \cup {s} \in SUBSET Ids /\ S \ {s} \in SUBSET Ids
  OBVIOUS
<1>1. CASE HandleCreate(c) \/ HandleWorktree(c)
  <2>1. /\ calls[c].at = "sent"
        /\ UNCHANGED <<published, streamVars, pipeVars, cache, notes, made, guiVars, loopVars, strayed, visit, called, changes>>
        /\ \E s \in Ids : Launch(c, s)
    BY <1>1 DEF HandleCreate, HandleWorktree, Handling, Launch
  <2>2. PICK s \in Ids : Launch(c, s)
    BY <2>1
  <2>3. /\ used' = used \cup {s} /\ remote' = Append(remote, s) /\ Cross(s)
        /\ calls' = [calls EXCEPT ![c] = [@ EXCEPT !.id = s, !.at = "ok"]]
    BY <2>2 DEF Launch
  <2>4. CallTypes'
    <3>1. calls[c] \in Call
      BY <2>1, CallFacts
    <3>2. [calls[c] EXCEPT !.id = s, !.at = "ok"] \in Call /\ [calls[c] EXCEPT !.id = s, !.at = "ok"].id # NoId
      BY <3>1, ConstantsAssumption DEF Call
    <3>3. calls' = [calls EXCEPT ![c] = [calls[c] EXCEPT !.id = s, !.at = "ok"]]
      BY <2>3
    <3> QED BY <3>2, <3>3, NextCallTyped, Zenon
  <2>5. DaemonTypes'
    BY <2>1, <2>3, AppendFacts DEF DaemonTypes
  <2>6. CacheTypes'
    BY <2>1, <2>3 DEF CacheTypes, Cross
  <2>7. StreamTypes' /\ PipeTypes' /\ GuiTypes' /\ BoundTypes' /\ LoopTypes'
    BY <2>1 DEF StreamTypes, PipeTypes, GuiTypes, BoundTypes, LoopTypes
  <2>8. QED BY <2>4, <2>5, <2>6, <2>7
<1>2. CASE HandleResume(c) \/ HandleDelete(c) \/ HandleLookup(c) \/ HandleFails(c)
  <2>1. /\ calls[c].at \in {"sent", "ok"}
        /\ \E at \in {"ok", "failed"} : calls' = [calls EXCEPT ![c].at = at] /\ (at = "ok" => calls[c].kind \notin {"create", "worktree"})
        /\ UNCHANGED <<used, published, streamVars, pipeVars, cache, notes, guiVars, loopVars, strayed, visit, called, changes>>
    BY <1>2, Zenon DEF HandleResume, HandleDelete, HandleLookup, HandleFails, Handling, Answer
  <2>2. CallTypes'
    <3>1. PICK at \in {"ok", "failed"} :
             calls' = [calls EXCEPT ![c].at = at] /\ (at = "ok" => calls[c].kind \notin {"create", "worktree"})
      BY <2>1
    <3> DEFINE d == [calls[c] EXCEPT !.at = at]
    <3>2. calls' = [calls EXCEPT ![c] = d] /\ d \in Call /\ calls[c] \in Call
      BY <2>1, <3>1, CallFacts
    <3>3. d.id = calls[c].id /\ d.kind = calls[c].kind /\ d.at = at
      BY <3>2 DEF Call
    <3>4. calls[c].id = NoId => calls[c].kind \in {"create", "worktree"}
      BY <2>1 DEF CallTypes
    <3>5. d.id = NoId => d.kind \in {"create", "worktree"} /\ d.at \in {"sent", "failed"}
      BY <3>1, <3>3, <3>4
    <3> HIDE DEF d
    <3> QED BY <3>2, <3>5, NextCallTyped
  <2>3. DaemonTypes' /\ CacheTypes'
    <3>1. CASE HandleResume(c)
      <4> DEFINE x == calls[c].id
      <4>1. /\ calls[c].kind = "resume" /\ remote' = Append(RemoveFirst(remote, x), x) /\ Cross(x) /\ made' = made
        BY <3>1 DEF HandleResume, Handling
      <4>2. x \in Ids
        BY <2>1, <4>1, CallFacts
      <4> HIDE DEF x
      <4>3. remote' \in Seq(Ids)
        <5>1. RemoveFirst(remote, x) \in Seq(Ids)
          BY RemoveFirstFacts DEF DaemonTypes
        <5> QED BY <4>1, <4>2, <5>1, AppendFacts
      <4>4. CacheTypes'
        BY <2>1, <4>1, <4>2 DEF CacheTypes, Cross
      <4> QED BY <2>1, <4>3, <4>4 DEF DaemonTypes
    <3>2. CASE HandleDelete(c)
      <4>1. remote' = RemoveFirst(remote, calls[c].id) /\ Lose(calls[c].id) /\ crossed' = crossed
        BY <3>2 DEF HandleDelete
      <4>2. remote' \in Seq(Ids)
        BY <4>1, RemoveFirstFacts DEF DaemonTypes
      <4>3. CacheTypes'
        BY <2>1, <4>1 DEF CacheTypes, Lose
      <4> QED BY <2>1, <4>2, <4>3 DEF DaemonTypes
    <3>3. CASE HandleLookup(c) \/ HandleFails(c)
      BY <3>3 DEF HandleLookup, HandleFails, DaemonTypes, CacheTypes
    <3> QED BY <1>2, <3>1, <3>2, <3>3
  <2>4. StreamTypes' /\ PipeTypes' /\ GuiTypes' /\ BoundTypes' /\ LoopTypes'
    BY <2>1 DEF StreamTypes, PipeTypes, GuiTypes, BoundTypes, LoopTypes
  <2>5. QED BY <2>2, <2>3, <2>4
<1>3. QED BY <1>1, <1>2

\* The steps of a call in the TUI.
LEMMA ClientTyped ==
  ASSUME Typed, NEW c \in Callers, Request(c) \/ ApplyAnswer(c) \/ MakeMirror(c) \/ DropMirror(c) \/ CallFails(c)
  PROVE  Typed'
<1> USE DEF Typed
<1>1. CASE Request(c)
  <2>1. /\ called < visit.calls /\ called' = called + 1 /\ current # 0 /\ visit.kinds \subseteq Kinds
        /\ UNCHANGED <<daemonVars, streamVars, pipeVars, cache, notes, madeVars, guiVars, loopVars, strayed, visit, changes>>
    BY <1>1, ConstantsAssumption DEF Request, BoundTypes
  <2>2. PICK k \in visit.kinds, s \in Ids \cup {NoId} :
          /\ k \in {"create", "worktree"} => s = NoId
          /\ k \in {"delete", "resume", "lookup"} => s \in mirrored
          /\ calls' = [calls EXCEPT ![c] = [kind |-> k, id |-> s, via |-> current, at |-> "sent"]]
    BY <1>1 DEF Request
  <2> DEFINE d == [kind |-> k, id |-> s, via |-> current, at |-> "sent"]
  <2>3. d \in Call
    BY <2>1, <2>2 DEF Call, PipeTypes
  <2>4. d.id = NoId => d.kind \in {"create", "worktree"} /\ d.at \in {"sent", "failed"}
    <3>1. NoId \notin mirrored
      BY ConstantsAssumption DEF GuiTypes
    <3>2. k \in Kinds
      BY <2>1, <2>2
    <3> QED BY <2>2, <3>1, <3>2, ConstantsAssumption
  <2>5. CallTypes'
    BY <2>2, <2>3, <2>4, NextCallTyped
  <2>6. DaemonTypes' /\ BoundTypes'
    BY <2>1, ConstantsAssumption DEF DaemonTypes, BoundTypes
  <2>7. StreamTypes' /\ PipeTypes' /\ CacheTypes' /\ GuiTypes' /\ LoopTypes'
    BY <2>1 DEF StreamTypes, PipeTypes, CacheTypes, GuiTypes, LoopTypes
  <2>8. QED BY <2>5, <2>6, <2>7
<1>2. CASE ApplyAnswer(c)
  <2> DEFINE q == calls[c].via
             x == calls[c].id
             d == IF calls[c].kind = "lookup" THEN NoCall ELSE [calls[c] EXCEPT !.at = "mirror"]
  <2>1. /\ calls[c].at = "ok" /\ cache' = [cache EXCEPT ![q] = Cached(calls[c].kind, @, x)]
        /\ made' = made \/ made' = [made EXCEPT ![q] = @ \cup ({x} \cap ToSet(remote))]
        /\ calls' = [calls EXCEPT ![c] = d]
        /\ UNCHANGED <<daemonVars, streamVars, pipeVars, notes, crossed, guiVars, loopVars, strayed, visit, called, changes>>
    BY <1>2 DEF ApplyAnswer
  <2>2. x \in Ids /\ q \in Providers
    BY <2>1, CallFacts
  <2>3. Cached(calls[c].kind, cache[q], x) \in Seq(Ids)
    BY <2>2, AddedFacts, RemoveFirstFacts DEF Cached, Removed, CacheTypes
  <2>4. CallTypes'
    <3>1. d \in Call \cup {NoCall} /\ (d = NoCall \/ d.id = x)
      <4>1. calls[c] \in Call /\ [calls[c] EXCEPT !.at = "mirror"] \in Call
        BY <2>1, CallFacts
      <4>2. [calls[c] EXCEPT !.at = "mirror"].id = x
        BY <4>1 DEF Call
      <4> QED BY <4>1, <4>2
    <3>2. d.id = NoId => d.at = "idle"
      BY <2>2, <3>1, ConstantsAssumption DEF NoCall
    <3> HIDE DEF d
    <3> QED BY <2>1, <3>1, <3>2, NextCallTyped
  <2> HIDE DEF x, q, d
  <2>5. CacheTypes'
    <3>1. made' \in [Providers -> SUBSET Ids]
      BY <2>1, <2>2 DEF CacheTypes
    <3> QED BY <2>1, <2>2, <2>3, <3>1 DEF CacheTypes
  <2>6. DaemonTypes' /\ StreamTypes' /\ PipeTypes' /\ GuiTypes' /\ BoundTypes' /\ LoopTypes'
    BY <2>1 DEF DaemonTypes, StreamTypes, PipeTypes, GuiTypes, BoundTypes, LoopTypes
  <2>7. QED BY <2>4, <2>5, <2>6
<1>3. CASE MakeMirror(c) \/ CallFails(c)
  <2>1. /\ calls[c].at # "idle" /\ calls' = [calls EXCEPT ![c] = NoCall]
        /\ mirrored' = mirrored \/ (calls[c].at = "mirror" /\ mirrored' = mirrored \cup {calls[c].id})
        /\ UNCHANGED <<daemonVars, streamVars, pipeVars, cache, notes, madeVars, sidebar, prompts, loopVars, strayed, visit, called, changes>>
    BY <1>3 DEF MakeMirror, CallFails
  <2>2. CallTypes'
    BY <2>1, NextCallTyped DEF NoCall
  <2>3. mirrored' \subseteq Ids
    <3>1. calls[c].at = "mirror" => calls[c].id \in Ids
      BY CallFacts
    <3>2. QED BY <2>1, <3>1 DEF GuiTypes
  <2>4. GuiTypes'
    BY <2>1, <2>3 DEF GuiTypes
  <2>5. DaemonTypes' /\ StreamTypes' /\ PipeTypes' /\ CacheTypes' /\ BoundTypes' /\ LoopTypes'
    BY <2>1 DEF DaemonTypes, StreamTypes, PipeTypes, CacheTypes, BoundTypes, LoopTypes
  <2>6. QED BY <2>2, <2>4, <2>5
<1>4. CASE DropMirror(c)
  <2> DEFINE s == calls[c].id
  <2>1. /\ calls' = [calls EXCEPT ![c] = NoCall] /\ mirrored' = mirrored \ {s}
        /\ sidebar' = [sidebar EXCEPT ![s] = Nothing]
        /\ notes' = [p \in Providers |-> WithoutAll(s, notes[p])]
        /\ local' = WithoutAll(s, local) /\ updates' = {Without(s, u) : u \in updates}
        /\ UNCHANGED <<daemonVars, streamVars, pipeVars, cache, madeVars, prompts, dropped, overtaken, strayed, visit, called, changes>>
    BY <1>4 DEF DropMirror
  <2> HIDE DEF s
  <2>2. CallTypes'
    BY <2>1, NextCallTyped DEF NoCall
  <2>3. Nothing \in Shown
    BY ConstantsAssumption DEF Nothing, Shown
  <2>4. GuiTypes'
    BY <2>1, <2>3 DEF GuiTypes
  <2>5. CacheTypes'
    <3>1. \A p \in Providers : WithoutAll(s, notes[p]) \in Seq(Prompt)
      BY WithoutAllFacts DEF CacheTypes
    <3> QED BY <2>1, <3>1 DEF CacheTypes
  <2>6. LoopTypes'
    <3>1. local' \in Seq(Prompt) /\ Len(local') = Len(local)
      BY <2>1, WithoutAllFacts DEF LoopTypes
    <3>2. updates' \subseteq Prompt
      BY <2>1, WithoutFacts DEF LoopTypes
    <3> QED BY <2>1, <3>1, <3>2 DEF LoopTypes
  <2>7. DaemonTypes' /\ StreamTypes' /\ PipeTypes' /\ BoundTypes'
    BY <2>1 DEF DaemonTypes, StreamTypes, PipeTypes, BoundTypes
  <2>8. QED BY <2>2, <2>4, <2>5, <2>6, <2>7
<1>5. QED BY <1>1, <1>2, <1>3, <1>4

\* A worker made or collected on the host.
LEMMA ChangeTyped ==
  ASSUME Typed, RemoteChange
  PROVE  Typed'
<1> USE DEF Typed
<1>1. /\ visit.changes \in Nat /\ changes < visit.changes /\ changes' = changes + 1
      /\ \/ \E s \in Ids \ used : remote' = Append(remote, s) /\ used' = used \cup {s} /\ Cross(s) /\ UNCHANGED made
         \/ \E s \in ToSet(remote) : remote' = Removed(remote, s) /\ Lose(s) /\ UNCHANGED <<used, crossed>>
      /\ UNCHANGED <<published, streamVars, pipeVars, cache, notes, calls, guiVars, loopVars, strayed, visit, called>>
  BY ConstantsAssumption DEF RemoteChange, BoundTypes
<1>2. DaemonTypes'
  <2>1. remote \in Seq(Ids) /\ used \subseteq Ids
    BY DEF DaemonTypes
  <2>2. remote' \in Seq(Ids) /\ used' \subseteq Ids
    BY <1>1, <2>1, AppendFacts, RemoveFirstFacts DEF Removed
  <2>3. QED BY <1>1, <2>2 DEF DaemonTypes
<1>3. BoundTypes' /\ LoopTypes'
  BY <1>1, ConstantsAssumption DEF BoundTypes, LoopTypes
<1>4. StreamTypes' /\ PipeTypes' /\ CallTypes' /\ GuiTypes'
  BY <1>1 DEF StreamTypes, PipeTypes, CallTypes, GuiTypes
<1>6. CacheTypes'
  BY <1>1 DEF CacheTypes, Cross, Lose
<1>5. QED BY <1>2, <1>3, <1>4, <1>6

\* The host's sessions in some order, and nothing else yet.
LEMMA InitTyped == Init => Typed
<1> SUFFICES ASSUME Init PROVE Typed
  OBVIOUS
<1>1. DaemonTypes
  <2>1. PICK old \in SUBSET Ids : IsFiniteSet(old) /\ remote = SetToSeq(old) /\ used = old
    BY DEF Init
  <2>2. remote \in Seq(old)
    BY <2>1, OrderedFacts
  <2>3. remote \in Seq(Ids)
    BY <2>2
  <2>4. published \in 0 .. MaxEvents
    BY ConstantsAssumption DEF Init
  <2>5. QED BY <2>1, <2>3, <2>4 DEF DaemonTypes
<1>2. StreamTypes
  <2>1. stream = [p \in Providers |-> "none"] /\ sub = [p \in Providers |-> <<>>] /\ wire = [p \in Providers |-> <<>>]
    BY DEF Init
  <2>2. <<>> \in Seq(Hooks) /\ <<>> \in Wires /\ Len(<<>>) = 0
    BY EmptySeq DEF Wires
  <2>3. 0 =< SubBuffer /\ 0 =< WireSize
    BY ConstantsAssumption
  <2>4. QED BY <2>1, <2>2, <2>3 DEF StreamTypes
<1>3. PipeTypes /\ CacheTypes
  BY EmptySeq DEF Init, PipeTypes, CacheTypes
<1>4. CallTypes
  BY DEF Init, CallTypes, NoCall
<1>5. GuiTypes
  <2>1. Nothing \in Shown /\ <<>> \in Seq(Prompt)
    BY ConstantsAssumption, EmptySeq DEF Nothing, Shown
  <2>2. QED BY <2>1 DEF Init, GuiTypes
<1>6. BoundTypes /\ LoopTypes
  <2>1. <<>> \in Seq(Prompt) /\ Len(<<>>) = 0 /\ 0 =< LocalBuffer
    BY ConstantsAssumption, EmptySeq
  <2>2. QED BY <2>1, ConstantsAssumption DEF Init, BoundTypes, LoopTypes
<1>7. QED BY <1>1, <1>2, <1>3, <1>4, <1>5, <1>6 DEF Typed

\* Every step keeps the types.
LEMMA NextTyped == Typed /\ [Next]_vars => Typed'
<1> SUFFICES ASSUME Typed, [Next]_vars PROVE Typed'
  OBVIOUS
<1>1. CASE UNCHANGED vars
  BY <1>1 DEF vars, Typed, DaemonTypes, StreamTypes, PipeTypes, CacheTypes,
              CallTypes, GuiTypes, BoundTypes, LoopTypes
<1>2. ASSUME NEW p \in Providers, ProviderStep(p) PROVE Typed'
  BY <1>2, StreamTyped, ConsumeTyped, PipelineTyped, Zenon DEF ProviderStep
<1>3. ASSUME NEW w \in Windows, NEW kind \in {"activity", "prompt"}, Hook(w, kind) PROVE Typed'
  BY <1>3, StreamTyped, Zenon
<1>4. ASSUME NEW c \in Callers, CallStep(c) PROVE Typed'
  BY <1>4, HandlerTyped, ClientTyped, Zenon DEF CallStep
<1>5. CASE Next
  BY <1>2, <1>3, <1>4, <1>5, GuiTyped, ChangeTyped, Zenon DEF Next
<1>6. QED BY <1>1, <1>5

-----------------------------------------------------------------------------
(* What was made stays cached.                                             *)

\* What a step of the stream does to the wire of its provider.
LEMMA WireFacts ==
  ASSUME Typed, NEW p \in Providers, Forward(p) \/ EndStream(p) \/ Consume(p)
  PROVE  /\ \A q \in Providers : q # p => wire'[q] = wire[q]
         /\ \A i \in 1 .. Len(wire'[p]) :
              \/ \E j \in 1 .. Len(wire[p]) : wire'[p][i] = wire[p][j] /\ (Consume(p) => j = i + 1)
              \/ Forward(p) /\ sub[p] # <<>> /\ wire'[p][i] = Notification(Head(sub[p]))
         /\ DOMAIN wire[p] = 1 .. Len(wire[p]) /\ DOMAIN wire'[p] = 1 .. Len(wire'[p])
<1>1. wire[p] \in Wires /\ Len(wire[p]) \in Nat /\ wire \in [Providers -> Wires]
  BY DEF Typed, StreamTypes, Wires
<1>2. wire'[p] \in Wires
  BY StreamTyped, ConsumeTyped DEF Typed, StreamTypes
<1>3. DOMAIN wire[p] = 1 .. Len(wire[p]) /\ DOMAIN wire'[p] = 1 .. Len(wire'[p])
  BY <1>1, <1>2 DEF Wires
<1>4. CASE Forward(p)
  <2> DEFINE e == Notification(Head(sub[p]))
  <2>1. wire' = [wire EXCEPT ![p] = Append(@, e)] /\ sub[p] # <<>>
    BY <1>4 DEF Forward
  <2>2. sub[p] \in Seq(Hooks) /\ remote \in Seq(Ids)
    BY DEF Typed, StreamTypes, DaemonTypes
  <2>3. e \in Message(Seq(Ids))
    BY <2>1, <2>2, TailFacts, NotificationFacts DEF Message
  <2>c. e = Notification(Head(sub[p]))
    OBVIOUS
  <2> HIDE DEF e
  <2>4. wire'[p] = Append(wire[p], e) /\ \A q \in Providers : q # p => wire'[q] = wire[q]
    BY <1>1, <2>1
  <2>5. /\ Len(wire'[p]) = Len(wire[p]) + 1 /\ wire'[p][Len(wire[p]) + 1] = e
        /\ \A i \in 1 .. Len(wire[p]) : wire'[p][i] = wire[p][i]
    BY <1>1, <2>3, <2>4, AppendFacts DEF Wires
  <2>6. \A i \in 1 .. Len(wire'[p]) : i \in 1 .. Len(wire[p]) \/ i = Len(wire[p]) + 1
    BY <1>1, <2>5
  <2>7. ~Consume(p)
    <3>1. ASSUME Consume(p) PROVE FALSE
      <4>1. wire'[p] = Tail(wire[p]) /\ wire[p] # <<>>
        BY <1>1, <3>1 DEF Consume
      <4>2. Len(Tail(wire[p])) = Len(wire[p]) - 1
        BY <1>1, <4>1 DEF Wires
      <4>3. QED BY <1>1, <2>5, <4>1, <4>2
    <3>2. QED BY <3>1
  <2>8. QED BY <1>3, <1>4, <2>1, <2>4, <2>5, <2>6, <2>7, <2>c
<1>5. CASE EndStream(p)
  <2>1. PICK n \in 0 .. Len(wire[p]) : wire' = [wire EXCEPT ![p] = SubSeq(@, 1, n)]
    BY <1>5 DEF EndStream
  <2>2. wire'[p] = SubSeq(wire[p], 1, n) /\ \A q \in Providers : q # p => wire'[q] = wire[q]
    BY <1>1, <2>1
  <2>3. Len(wire'[p]) = n /\ \A i \in 1 .. n : i \in 1 .. Len(wire[p]) /\ wire'[p][i] = wire[p][i]
    BY <1>1, <2>2 DEF Wires
  <2>4. ~Consume(p)
    BY <1>5 DEF EndStream, Consume, Typed, StreamTypes
  <2>5. QED BY <1>3, <2>2, <2>3, <2>4
<1>6. CASE Consume(p)
  <2>1. wire[p] # <<>> /\ wire' = [wire EXCEPT ![p] = Tail(@)]
    BY <1>6 DEF Consume
  <2>2. wire'[p] = Tail(wire[p]) /\ \A q \in Providers : q # p => wire'[q] = wire[q]
    BY <1>1, <2>1
  <2>3. Len(wire'[p]) = Len(wire[p]) - 1 /\ \A i \in 1 .. Len(wire[p]) - 1 : wire'[p][i] = wire[p][i + 1]
    BY <1>1, <2>1, <2>2, TailFacts DEF Wires
  <2>4. \A i \in 1 .. Len(wire[p]) - 1 : i + 1 \in 1 .. Len(wire[p])
    BY <1>1
  <2>5. QED BY <1>3, <2>2, <2>3, <2>4
<1>7. QED BY <1>4, <1>5, <1>6

\* The steps that have nothing to do with the store.
LEMMA StoreFrame == StoreInv /\ UNCHANGED <<remote, used, mirrored, answer, calls>> => StoreInv'
BY DEF StoreInv

\* The id of a call is kept until it ends.
LEMMA CallIds ==
  ASSUME Typed, NEW c \in Callers, calls[c].at # "idle",
         calls' = [calls EXCEPT ![c] = NoCall] \/ \E at : calls' = [calls EXCEPT ![c].at = at]
  PROVE  \A d \in Callers : calls'[d].id \in {calls[d].id, NoId}
<1>1. calls[c] \in Call
  BY CallFacts
<1>2. \A d \in Callers : calls'[d] = calls[d] \/ (d = c /\ (calls'[d] = NoCall \/ \E at : calls'[d] = [calls[c] EXCEPT !.at = at]))
  BY DEF Typed, CallTypes
<1>3. \A at : [calls[c] EXCEPT !.at = at].id = calls[c].id
  BY <1>1 DEF Call
<1>4. NoCall.id = NoId
  BY DEF NoCall
<1>5. QED BY <1>2, <1>3, <1>4

\* A new session: at the end of the store, under an id nobody knew.
LEMMA LaunchFacts ==
  ASSUME Typed, StoreInv, NEW c \in Callers, HandleCreate(c) \/ HandleWorktree(c)
  PROVE  \E s \in Ids :
           /\ remote' = Append(remote, s) /\ used' = used \cup {s} /\ ToSet(remote') = ToSet(remote) \cup {s} /\ NoTwins(remote')
           /\ Cross(s) /\ UNCHANGED <<step, answer, wire, cache, made, mirrored>>
           /\ \A d \in Callers : d # c => calls'[d] = calls[d]
           /\ calls'[c].id = s /\ calls'[c].kind # "delete"
<1>1. calls[c].at = "sent" /\ calls[c].kind \in {"create", "worktree"} /\ \E s \in Ids : Launch(c, s)
  BY DEF HandleCreate, HandleWorktree, Handling
<1>2. PICK s \in Ids : Launch(c, s)
  BY <1>1
<1>3. /\ s \in Ids \ used /\ used' = used \cup {s} /\ remote' = Append(remote, s) /\ Cross(s)
      /\ calls' = [calls EXCEPT ![c] = [@ EXCEPT !.id = s, !.at = "ok"]]
      /\ UNCHANGED <<step, answer, wire, cache, made, mirrored>>
  BY <1>2 DEF Launch
<1>4. calls[c] \in Call
  BY <1>1, CallFacts
<1>5. calls'[c] = [calls[c] EXCEPT !.id = s, !.at = "ok"] /\ \A d \in Callers : d # c => calls'[d] = calls[d]
  BY <1>3 DEF Typed, CallTypes
<1>6. calls'[c].id = s /\ calls'[c].kind = calls[c].kind
  BY <1>4, <1>5 DEF Call
<1>7. remote \in Seq(Ids) /\ s \notin ToSet(remote) /\ NoTwins(remote)
  BY <1>3 DEF Typed, DaemonTypes, StoreInv
<1>8. ToSet(remote') = ToSet(remote) \cup {s} /\ NoTwins(remote')
  BY <1>3, <1>7, AddedFacts
<1>9. QED BY <1>1, <1>3, <1>5, <1>6, <1>8

\* A resumed session: at the end of the store, under its old id.
LEMMA ResumeFacts ==
  ASSUME Typed, StoreInv, NEW c \in Callers, HandleResume(c)
  PROVE  /\ calls[c].id \in Ids \cap used /\ ToSet(remote') = ToSet(remote) \cup {calls[c].id} /\ NoTwins(remote')
         /\ Cross(calls[c].id) /\ UNCHANGED <<used, step, answer, wire, cache, made, mirrored>>
         /\ calls' = [calls EXCEPT ![c].at = "ok"] /\ calls[c].kind = "resume" /\ calls[c].at = "sent"
<1> DEFINE x == calls[c].id
           r == RemoveFirst(remote, x)
<1>1. /\ calls[c].at = "sent" /\ calls[c].kind = "resume" /\ remote' = Append(r, x) /\ Cross(x)
      /\ calls' = [calls EXCEPT ![c].at = "ok"] /\ UNCHANGED <<used, step, answer, wire, cache, made, mirrored>>
  BY DEF HandleResume, Handling, Answer
<1>2. x \in Ids
  BY <1>1, CallFacts
<1>3. x \in used
  BY <1>2, ConstantsAssumption DEF StoreInv
<1>4. r \in Seq(Ids) /\ NoTwins(r) /\ ToSet(r) = ToSet(remote) \ {x}
  BY RemoveFirstFacts DEF Typed, DaemonTypes, StoreInv
<1> HIDE DEF r, x
<1>5. NoTwins(Append(r, x)) /\ ToSet(Append(r, x)) = ToSet(r) \cup {x}
  <2>1. x \notin ToSet(r)
    BY <1>4
  <2>2. QED BY <1>2, <1>4, <2>1, AddedFacts
<1>6. NoTwins(remote') /\ ToSet(remote') = ToSet(remote) \cup {x}
  BY <1>1, <1>4, <1>5
<1>7. QED BY <1>1, <1>2, <1>3, <1>6 DEF x

\* A deleted session.
LEMMA DeleteFacts ==
  ASSUME Typed, StoreInv, NEW c \in Callers, HandleDelete(c)
  PROVE  /\ ToSet(remote') = ToSet(remote) \ {calls[c].id} /\ NoTwins(remote') /\ Lose(calls[c].id)
         /\ UNCHANGED <<used, step, answer, wire, cache, crossed, mirrored>>
         /\ \E at : calls' = [calls EXCEPT ![c].at = at]
         /\ calls[c].at = "sent" /\ calls[c].id \in Ids
<1>1. /\ calls[c].at = "sent" /\ calls[c].kind = "delete" /\ remote' = RemoveFirst(remote, calls[c].id) /\ Lose(calls[c].id)
      /\ \E at : calls' = [calls EXCEPT ![c].at = at]
      /\ UNCHANGED <<used, step, answer, wire, cache, crossed, mirrored>>
  BY DEF HandleDelete, Handling, Answer
<1>2. calls[c].id \in Ids
  BY <1>1, CallFacts
<1>3. NoTwins(RemoveFirst(remote, calls[c].id)) /\ ToSet(RemoveFirst(remote, calls[c].id)) = ToSet(remote) \ {calls[c].id}
  BY RemoveFirstFacts DEF Typed, DaemonTypes, StoreInv
<1>4. QED BY <1>1, <1>2, <1>3

\* A session that comes or goes on the host.
LEMMA ChangeFacts ==
  ASSUME Typed, StoreInv, RemoteChange
  PROVE  /\ NoTwins(remote') /\ ToSet(remote') \subseteq used' /\ used \subseteq used'
         /\ UNCHANGED <<step, answer, wire, cache, calls, mirrored>>
         /\ \E s : \/ ToSet(remote') = ToSet(remote) \cup {s} /\ Cross(s) /\ UNCHANGED made
                   \/ ToSet(remote') = ToSet(remote) \ {s} /\ Lose(s) /\ UNCHANGED crossed
<1>1. /\ UNCHANGED <<step, answer, wire, cache, calls, mirrored>>
      /\ \/ \E s \in Ids \ used : remote' = Append(remote, s) /\ used' = used \cup {s} /\ Cross(s) /\ UNCHANGED made
         \/ \E s \in ToSet(remote) : remote' = Removed(remote, s) /\ Lose(s) /\ UNCHANGED <<used, crossed>>
  BY DEF RemoteChange
<1>2. remote \in Seq(Ids) /\ NoTwins(remote) /\ ToSet(remote) \subseteq used
  BY DEF Typed, DaemonTypes, StoreInv
<1>3. ASSUME NEW s \in Ids \ used, remote' = Append(remote, s)
      PROVE  NoTwins(remote') /\ ToSet(remote') = ToSet(remote) \cup {s}
  BY <1>2, <1>3, AddedFacts
<1>4. ASSUME NEW s \in ToSet(remote), remote' = Removed(remote, s)
      PROVE  NoTwins(remote') /\ ToSet(remote') = ToSet(remote) \ {s}
  BY <1>2, <1>4, RemoveFirstFacts DEF Removed
<1>5. CASE \E s \in Ids \ used : remote' = Append(remote, s) /\ used' = used \cup {s} /\ Cross(s) /\ UNCHANGED made
  BY <1>1, <1>2, <1>3, <1>5
<1>6. CASE \E s \in ToSet(remote) : remote' = Removed(remote, s) /\ Lose(s) /\ UNCHANGED <<used, crossed>>
  BY <1>1, <1>2, <1>4, <1>6
<1>7. QED BY <1>1, <1>5, <1>6

\* Every step keeps the store a set and its ids the daemon's own.
LEMMA NextStore == Typed /\ StoreInv /\ [Next]_vars => StoreInv'
<1> SUFFICES ASSUME Typed, StoreInv, [Next]_vars PROVE StoreInv'
  OBVIOUS
<1>1. ASSUME NEW p \in Providers, ProviderStep(p) PROVE StoreInv'
  <2>1. CASE Subscribe(p) \/ Forward(p) \/ EndStream(p) \/ Consume(p) \/ AddRemote(p) \/ StartSSE(p)
    BY <2>1, StoreFrame DEF Subscribe, Forward, EndStream, Consume, AddRemote, StartSSE
  <2>2. CASE ListSessions(p)
    <3>1. UNCHANGED <<remote, used, mirrored, calls>> /\ answer' = [answer EXCEPT ![p] = remote]
      BY <2>2 DEF ListSessions
    <3>2. \A q \in Providers : ToSet(answer'[q]) \subseteq used
      BY <3>1 DEF Typed, PipeTypes, StoreInv
    <3>3. QED BY <3>1, <3>2 DEF StoreInv
  <2>3. CASE RestoreMirrors(p)
    <3>1. /\ UNCHANGED <<remote, used, calls>> /\ answer' = [answer EXCEPT ![p] = <<>>]
          /\ \E failed : mirrored' = mirrored \cup (ToSet(answer[p]) \ failed)
      BY <2>3 DEF RestoreMirrors
    <3>2. ToSet(<<>>) = {}
      BY DEF ToSet
    <3>3. \A q \in Providers : ToSet(answer'[q]) \subseteq used
      BY <3>1, <3>2 DEF Typed, PipeTypes, StoreInv
    <3>4. mirrored' \subseteq used
      BY <3>1 DEF StoreInv
    <3>5. QED BY <3>1, <3>3, <3>4 DEF StoreInv
  <2>4. QED BY <1>1, <2>1, <2>2, <2>3, Zenon DEF ProviderStep
<1>2. ASSUME NEW c \in Callers, HandleCreate(c) \/ HandleWorktree(c) PROVE StoreInv'
  <2>1. PICK s \in Ids :
           /\ remote' = Append(remote, s) /\ used' = used \cup {s} /\ ToSet(remote') = ToSet(remote) \cup {s} /\ NoTwins(remote')
           /\ Cross(s) /\ UNCHANGED <<step, answer, wire, cache, made, mirrored>>
           /\ \A d \in Callers : d # c => calls'[d] = calls[d]
           /\ calls'[c].id = s /\ calls'[c].kind # "delete"
    BY <1>2, LaunchFacts, Zenon
  <2>2. \A d \in Callers : calls'[d].id \in used' \cup {NoId}
    BY <2>1 DEF StoreInv
  <2>3. QED BY <2>1, <2>2 DEF StoreInv
<1>3. ASSUME NEW c \in Callers, HandleResume(c) \/ HandleDelete(c) PROVE StoreInv'
  <2>1. /\ NoTwins(remote') /\ ToSet(remote') \subseteq used /\ UNCHANGED <<used, answer, mirrored>>
        /\ calls[c].at = "sent" /\ \E at : calls' = [calls EXCEPT ![c].at = at]
    BY <1>3, ResumeFacts, DeleteFacts DEF StoreInv
  <2>2. \A d \in Callers : calls'[d].id \in {calls[d].id, NoId}
    BY <2>1, CallIds
  <2>3. QED BY <2>1, <2>2 DEF StoreInv
<1>4. ASSUME NEW c \in Callers, Request(c) PROVE StoreInv'
  <2>1. UNCHANGED <<remote, used, mirrored, answer>>
    BY <1>4 DEF Request
  <2>2. PICK k \in visit.kinds, s \in Ids \cup {NoId} :
          /\ k \in {"create", "worktree"} => s = NoId
          /\ k \in {"delete", "resume", "lookup"} => s \in mirrored
          /\ calls' = [calls EXCEPT ![c] = [kind |-> k, id |-> s, via |-> current, at |-> "sent"]]
    BY <1>4 DEF Request
  <2>3. s \in used \cup {NoId}
    <3>1. k \in Kinds
      BY <2>2, ConstantsAssumption DEF Typed, BoundTypes
    <3>2. QED BY <2>2, <3>1, ConstantsAssumption DEF StoreInv
  <2>4. \A d \in Callers : calls'[d].id \in used \cup {NoId}
    BY <2>2, <2>3 DEF StoreInv, Typed, CallTypes
  <2>5. QED BY <2>1, <2>4 DEF StoreInv
<1>5. ASSUME NEW c \in Callers, HandleLookup(c) \/ HandleFails(c) \/ ApplyAnswer(c) \/ MakeMirror(c) \/ DropMirror(c) \/ CallFails(c)
      PROVE  StoreInv'
  <2>1. /\ UNCHANGED <<remote, used, answer>> /\ calls[c].at # "idle"
        /\ mirrored' \subseteq mirrored \/ (calls[c].at = "mirror" /\ mirrored' = mirrored \cup {calls[c].id})
    BY <1>5 DEF HandleLookup, HandleFails, ApplyAnswer, MakeMirror, DropMirror, CallFails, Handling
  <2>2. calls' = [calls EXCEPT ![c] = NoCall] \/ \E at : calls' = [calls EXCEPT ![c].at = at]
    BY <1>5, Zenon DEF HandleLookup, HandleFails, MakeMirror, DropMirror, CallFails, Answer, ApplyAnswer
  <2>3. \A d \in Callers : calls'[d].id \in {calls[d].id, NoId}
    BY <2>1, <2>2, CallIds
  <2>4. calls[c].at = "mirror" => calls[c].id \in used
    <3>1. calls[c].at = "mirror" => calls[c].id \in Ids
      BY CallFacts
    <3>2. QED BY <3>1, ConstantsAssumption DEF StoreInv
  <2>5. mirrored' \subseteq used
    BY <2>1, <2>4 DEF StoreInv
  <2>6. QED BY <2>1, <2>3, <2>5 DEF StoreInv
<1>6. CASE RemoteChange
  <2>1. /\ NoTwins(remote') /\ ToSet(remote') \subseteq used' /\ used \subseteq used' /\ UNCHANGED <<answer, calls, mirrored>>
    BY <1>6, ChangeFacts
  <2>2. QED BY <2>1 DEF StoreInv
<1>7. CASE PendingNotifications \/ TakeLocal \/ \E u \in updates : ApplyUpdate(u)
  BY <1>7, StoreFrame DEF PendingNotifications, Drain, TakeLocal, ApplyUpdate
<1>8. ASSUME NEW w \in Windows, NEW kind \in {"activity", "prompt"}, Hook(w, kind) PROVE StoreInv'
  BY <1>8, StoreFrame DEF Hook
<1>9. CASE Next
  BY <1>1, <1>2, <1>3, <1>4, <1>5, <1>6, <1>7, <1>8, <1>9, Zenon DEF Next, CallStep
<1>10. QED BY <1>9, StoreFrame DEF vars

\* A list does not lose a session on its way.
LEMMA KnownFrame ==
  ASSUME NEW p \in Providers, NEW s, Known(p, s),
         step'[p] = "listed" => step[p] = "listed" /\ answer'[p] = answer[p],
         \A i \in 1 .. Len(wire'[p]) : wire'[p][i].kind # "sync" \/ \E j \in 1 .. Len(wire[p]) : wire'[p][i] = wire[p][j],
         \A d \in Callers : calls'[d] = calls[d] \/ calls'[d].kind # "delete" \/ calls'[d].at # "ok"
  PROVE  Known(p, s)'
<1>1. ~Deleting(p, s)'
  BY DEF Known, Deleting
<1>2. QED BY <1>1 DEF Known

\* The same for every session and provider.
LEMMA ListFrame ==
  ASSUME ListInv, UNCHANGED <<remote, crossed>>,
         \A p \in Providers :
           /\ step'[p] = "listed" => step[p] = "listed" /\ answer'[p] = answer[p]
           /\ \A i \in 1 .. Len(wire'[p]) : wire'[p][i].kind # "sync" \/ \E j \in 1 .. Len(wire[p]) : wire'[p][i] = wire[p][j],
         \A d \in Callers : calls'[d] = calls[d] \/ calls'[d].kind # "delete" \/ calls'[d].at # "ok"
  PROVE  ListInv'
<1>1. ASSUME NEW p \in Providers, NEW s \in ToSet(remote), s \notin crossed[p] PROVE Known(p, s)'
  BY <1>1, KnownFrame DEF ListInv
<1>2. QED BY <1>1 DEF ListInv

\* A launch crosses a list or a delete, or there is none.
LEMMA CrossKnown ==
  ASSUME Typed, ListInv, NEW s0, Cross(s0), NEW p \in Providers, NEW s \in ToSet(remote) \cup {s0}, s \notin crossed'[p]
  PROVE  Known(p, s)
<1>1. crossed'[p] = IF Listing(p) \/ Deleting(p, s0) THEN crossed[p] \cup {s0} ELSE crossed[p]
  BY DEF Cross
<1>2. wire[p] \in Wires
  BY DEF Typed, StreamTypes
<1>3. DOMAIN wire[p] = 1 .. Len(wire[p])
  BY <1>2 DEF Wires
<1>4. CASE s \in ToSet(remote)
  BY <1>1, <1>4 DEF ListInv
<1>5. CASE s = s0
  <2>1. ~Listing(p) /\ ~Deleting(p, s)
    BY <1>1, <1>5
  <2>2. QED BY <1>3, <2>1 DEF Known, Listing
<1>6. QED BY <1>4, <1>5

\* The stream and the pipeline.
LEMMA ProviderList ==
  ASSUME Typed, ListInv, NEW p \in Providers, ProviderStep(p)
  PROVE  ListInv'
<1>1. CASE Forward(p) \/ EndStream(p) \/ Consume(p)
  <2>1. UNCHANGED <<remote, crossed, step, answer, calls>>
    BY <1>1 DEF Forward, EndStream, Consume
  <2>2. Forward(p) /\ sub[p] # <<>> => Notification(Head(sub[p])).kind # "sync"
    <3>1. sub[p] \in Seq(Hooks) /\ remote \in Seq(Ids)
      BY DEF Typed, StreamTypes, DaemonTypes
    <3>2. QED BY <3>1, TailFacts, NotificationFacts
  <2>3. ASSUME NEW q \in Providers, NEW i \in 1 .. Len(wire'[q])
        PROVE  wire'[q][i].kind # "sync" \/ \E j \in 1 .. Len(wire[q]) : wire'[q][i] = wire[q][j]
    <3>1. CASE q # p
      <4>1. wire'[q] = wire[q]
        BY <1>1, <3>1, WireFacts
      <4>2. QED BY <4>1
    <3>2. CASE q = p
      BY <1>1, <2>2, <3>2, WireFacts
    <3>3. QED BY <3>1, <3>2
  <2>4. QED BY <2>1, <2>3, ListFrame
<1>2. CASE Subscribe(p) \/ AddRemote(p)
  <2>1. /\ UNCHANGED <<remote, crossed, wire, answer, calls>>
        /\ step' = step \/ step' = [step EXCEPT ![p] = "list"]
    BY <1>2 DEF Subscribe, AddRemote
  <2>2. \A q \in Providers : step'[q] = "listed" => step[q] = "listed"
    BY <2>1 DEF Typed, PipeTypes
  <2>3. QED BY <2>1, <2>2, ListFrame
<1>3. CASE ListSessions(p)
  <2>1. /\ UNCHANGED <<remote, crossed, wire, calls>> /\ answer' = [answer EXCEPT ![p] = remote]
        /\ step' = [step EXCEPT ![p] = "listed"]
    BY <1>3 DEF ListSessions
  <2>2. \A q \in Providers : /\ q # p => step'[q] = step[q] /\ answer'[q] = answer[q]
                             /\ q = p => answer'[q] = remote
    BY <2>1 DEF Typed, PipeTypes
  <2>3. ASSUME NEW q \in Providers, NEW s \in ToSet(remote), s \notin crossed[q] PROVE Known(q, s)'
    <3>1. Known(q, s)
      BY <2>3 DEF ListInv
    <3>2. ~Deleting(q, s)'
      BY <2>1, <3>1 DEF Known, Deleting
    <3>3. QED BY <2>1, <2>2, <2>3, <3>1, <3>2 DEF Known
  <2>4. QED BY <2>1, <2>3 DEF ListInv
<1>4. CASE RestoreMirrors(p)
  <2>1. /\ UNCHANGED <<remote, crossed, wire, calls>> /\ answer' = [answer EXCEPT ![p] = <<>>]
        /\ step' = [step EXCEPT ![p] = "stream"]
    BY <1>4 DEF RestoreMirrors
  <2>2. \A q \in Providers : step'[q] = "listed" => step[q] = "listed" /\ answer'[q] = answer[q]
    BY <2>1 DEF Typed, PipeTypes
  <2>3. QED BY <2>1, <2>2, ListFrame
<1>5. CASE StartSSE(p)
  <2>1. /\ UNCHANGED <<remote, crossed, calls, answer>>
        /\ wire' = wire \/ wire' = [wire EXCEPT ![p] = <<Sync(remote)>>]
        /\ step' = [step EXCEPT ![p] = "up"]
    BY <1>5 DEF StartSSE
  <2>2. \A q \in Providers : /\ step'[q] = "listed" => step[q] = "listed"
                             /\ wire'[q] = wire[q] \/ wire'[q] = <<Sync(remote)>>
    BY <2>1 DEF Typed, PipeTypes, StreamTypes
  <2>3. Len(<<Sync(remote)>>) = 1 /\ <<Sync(remote)>>[1].ids = remote
    BY DEF Sync
  <2>4. \A i \in 1 .. Len(<<Sync(remote)>>) : <<Sync(remote)>>[i].ids = remote
    BY <2>3
  <2>5. ASSUME NEW q \in Providers, NEW s \in ToSet(remote), s \notin crossed[q] PROVE Known(q, s)'
    <3>1. Known(q, s)
      BY <2>5 DEF ListInv
    <3>2. ~Deleting(q, s)'
      BY <2>1, <3>1 DEF Known, Deleting
    <3>3. \A i \in 1 .. Len(wire'[q]) : wire'[q][i].kind = "sync" => s \in ToSet(wire'[q][i].ids)
      BY <2>2, <2>4, <3>1 DEF Known
    <3>4. QED BY <2>1, <2>2, <3>1, <3>2, <3>3 DEF Known
  <2>6. QED BY <2>1, <2>5 DEF ListInv
<1>6. QED BY <1>1, <1>2, <1>3, <1>4, <1>5, Zenon DEF ProviderStep

\* A launch that crosses nothing is in what comes later, what is deleted is
\* no session any more.
LEMMA NextList == Typed /\ StoreInv /\ ListInv /\ [Next]_vars => ListInv'
<1> SUFFICES ASSUME Typed, StoreInv, ListInv, [Next]_vars PROVE ListInv'
  OBVIOUS
<1>0. ASSUME UNCHANGED <<remote, crossed, step, answer, wire, calls>> PROVE ListInv'
  BY <1>0, ListFrame
<1>1. ASSUME NEW s0, Cross(s0), ToSet(remote') = ToSet(remote) \cup {s0}, UNCHANGED <<step, answer, wire>>,
             \A d \in Callers : calls'[d] = calls[d] \/ calls'[d].kind # "delete" \/ calls'[d].at # "ok"
      PROVE  ListInv'
  <2>1. ASSUME NEW p \in Providers, NEW s \in ToSet(remote'), s \notin crossed'[p] PROVE Known(p, s)'
    <3>1. Known(p, s)
      BY <1>1, <2>1, CrossKnown
    <3>2. QED BY <1>1, <3>1, KnownFrame
  <2>2. QED BY <2>1 DEF ListInv
<1>2. ASSUME NEW c \in Callers, HandleCreate(c) \/ HandleWorktree(c) PROVE ListInv'
  <2>1. PICK s \in Ids :
           /\ remote' = Append(remote, s) /\ used' = used \cup {s} /\ ToSet(remote') = ToSet(remote) \cup {s} /\ NoTwins(remote')
           /\ Cross(s) /\ UNCHANGED <<step, answer, wire, cache, made, mirrored>>
           /\ \A d \in Callers : d # c => calls'[d] = calls[d]
           /\ calls'[c].id = s /\ calls'[c].kind # "delete"
    BY <1>2, LaunchFacts, Zenon
  <2>2. QED BY <1>1, <2>1
<1>3. ASSUME NEW c \in Callers, HandleResume(c) PROVE ListInv'
  <2>1. /\ ToSet(remote') = ToSet(remote) \cup {calls[c].id} /\ Cross(calls[c].id)
        /\ UNCHANGED <<step, answer, wire>> /\ calls[c].kind = "resume" /\ calls[c].at = "sent"
        /\ calls' = [calls EXCEPT ![c].at = "ok"]
    BY <1>3, ResumeFacts
  <2>2. calls[c] \in Call
    BY <2>1, CallFacts
  <2>3. calls'[c].kind # "delete" /\ \A d \in Callers : d # c => calls'[d] = calls[d]
    BY <2>1, <2>2 DEF Typed, CallTypes, Call
  <2>4. QED BY <1>1, <2>1, <2>3
<1>4. ASSUME NEW c \in Callers, HandleDelete(c) PROVE ListInv'
  <2>1. /\ ToSet(remote') = ToSet(remote) \ {calls[c].id} /\ UNCHANGED <<step, answer, wire, crossed>>
        /\ calls[c].at = "sent" /\ \E at : calls' = [calls EXCEPT ![c].at = at]
    BY <1>4, DeleteFacts
  <2>2. calls[c] \in Call
    BY <2>1, CallFacts
  <2>3. calls'[c].id = calls[c].id /\ \A d \in Callers : d # c => calls'[d] = calls[d]
    BY <2>1, <2>2 DEF Typed, CallTypes, Call
  <2>4. ASSUME NEW p \in Providers, NEW s \in ToSet(remote'), s \notin crossed'[p] PROVE Known(p, s)'
    <3>1. Known(p, s) /\ s # calls[c].id
      BY <2>1, <2>4 DEF ListInv
    <3>2. ~Deleting(p, s)'
      <4>1. ASSUME NEW d \in Callers, calls'[d] = [kind |-> "delete", id |-> s, via |-> p, at |-> "ok"] PROVE FALSE
        <5>1. d # c
          BY <2>3, <3>1, <4>1
        <5>2. QED BY <2>3, <3>1, <4>1, <5>1 DEF Known, Deleting
      <4>2. QED BY <4>1 DEF Deleting
    <3>3. QED BY <2>1, <3>1, <3>2 DEF Known
  <2>5. QED BY <2>4 DEF ListInv
<1>5. ASSUME NEW c \in Callers, HandleLookup(c) \/ HandleFails(c) \/ ApplyAnswer(c) \/ MakeMirror(c) \/ DropMirror(c) \/ CallFails(c)
      PROVE  ListInv'
  <2>1. UNCHANGED <<remote, crossed, step, answer, wire>> /\ calls[c].at # "idle"
    BY <1>5 DEF HandleLookup, HandleFails, ApplyAnswer, MakeMirror, DropMirror, CallFails, Handling
  <2>2. calls[c] \in Call
    BY <2>1, CallFacts
  <2>3. \/ calls' = [calls EXCEPT ![c] = NoCall]
        \/ \E at : calls' = [calls EXCEPT ![c].at = at] /\ (at # "ok" \/ calls[c].kind = "lookup")
    <3>1. ASSUME HandleLookup(c) PROVE calls[c].kind = "lookup" /\ \E at : calls' = [calls EXCEPT ![c].at = at]
      BY <3>1 DEF HandleLookup, Answer, Handling
    <3>2. ASSUME HandleFails(c) PROVE calls' = [calls EXCEPT ![c].at = "failed"]
      BY <3>2 DEF HandleFails, Answer
    <3>3. ASSUME ApplyAnswer(c)
          PROVE  calls' = [calls EXCEPT ![c] = NoCall] \/ calls' = [calls EXCEPT ![c].at = "mirror"]
      BY <3>3 DEF ApplyAnswer
    <3>4. ASSUME MakeMirror(c) \/ DropMirror(c) \/ CallFails(c) PROVE calls' = [calls EXCEPT ![c] = NoCall]
      BY <3>4 DEF MakeMirror, DropMirror, CallFails
    <3>5. QED BY <1>5, <3>1, <3>2, <3>3, <3>4
  <2>4. \A d \in Callers : calls'[d] = calls[d] \/ calls'[d].kind # "delete" \/ calls'[d].at # "ok"
    BY <2>2, <2>3 DEF Typed, CallTypes, Call, NoCall
  <2>5. QED BY <2>1, <2>4, ListFrame
<1>6. ASSUME NEW c \in Callers, Request(c) PROVE ListInv'
  <2>1. /\ UNCHANGED <<remote, crossed, step, answer, wire>>
        /\ \E k, s : calls' = [calls EXCEPT ![c] = [kind |-> k, id |-> s, via |-> current, at |-> "sent"]]
    BY <1>6 DEF Request
  <2>2. \A d \in Callers : calls'[d] = calls[d] \/ calls'[d].at # "ok"
    BY <2>1 DEF Typed, CallTypes
  <2>3. QED BY <2>1, <2>2, ListFrame
<1>7. CASE RemoteChange
  <2>1. /\ UNCHANGED <<step, answer, wire, cache, calls, mirrored>>
        /\ \E s : \/ ToSet(remote') = ToSet(remote) \cup {s} /\ Cross(s) /\ UNCHANGED made
                  \/ ToSet(remote') = ToSet(remote) \ {s} /\ Lose(s) /\ UNCHANGED crossed
    BY <1>7, ChangeFacts
  <2>2. CASE \E s : ToSet(remote') = ToSet(remote) \cup {s} /\ Cross(s)
    BY <1>1, <2>1, <2>2
  <2>3. ASSUME ToSet(remote') \subseteq ToSet(remote), crossed' = crossed PROVE ListInv'
    <3>1. ASSUME NEW p \in Providers, NEW s \in ToSet(remote'), s \notin crossed[p] PROVE Known(p, s)'
      <4>1. Known(p, s)
        BY <2>3, <3>1 DEF ListInv
      <4>2. QED BY <2>1, <4>1, KnownFrame
    <3>2. QED BY <2>3, <3>1 DEF ListInv
  <2>4. QED BY <2>1, <2>2, <2>3
<1>8. CASE PendingNotifications \/ TakeLocal \/ \E u \in updates : ApplyUpdate(u)
  BY <1>0, <1>8 DEF PendingNotifications, Drain, TakeLocal, ApplyUpdate
<1>9. ASSUME NEW w \in Windows, NEW kind \in {"activity", "prompt"}, Hook(w, kind) PROVE ListInv'
  BY <1>0, <1>9 DEF Hook
<1>10. CASE Next
  BY <1>2, <1>3, <1>4, <1>5, <1>6, <1>7, <1>8, <1>9, <1>10, ProviderList, Zenon DEF Next, CallStep
<1>11. QED BY <1>0, <1>10 DEF vars

\* Every list that is applied and every answer of a delete leaves what was made
\* in the cache, unless its launch crossed them.
LEMMA NextMade == Typed /\ StoreInv /\ ListInv /\ MadeInv /\ [Next]_vars => MadeInv'
<1> SUFFICES ASSUME Typed, StoreInv, ListInv, MadeInv, [Next]_vars PROVE MadeInv'
  OBVIOUS
<1>0. ASSUME UNCHANGED <<remote, made, crossed, cache>> PROVE MadeInv'
  BY <1>0 DEF MadeInv, CacheIds
<1>1. ASSUME NEW p \in Providers, NEW ids \in Seq(Ids), UNCHANGED <<remote, made, crossed>>,
             cache' = [cache EXCEPT ![p] = ids], \A s \in ToSet(remote) \ crossed[p] : s \in ToSet(ids)
      PROVE  MadeInv'
  <2>1. \A q \in Providers : cache'[q] = IF q = p THEN ids ELSE cache[q]
    BY <1>1 DEF Typed, CacheTypes
  <2>2. QED BY <1>1, <2>1 DEF MadeInv, CacheIds
<1>2. ASSUME NEW p \in Providers, Consume(p) PROVE MadeInv'
  <2> DEFINE e == Head(wire[p])
  <2>1. wire[p] # <<>> /\ UNCHANGED <<remote, made, crossed>>
        /\ (cache' = cache \/ (e.kind = "sync" /\ cache' = [cache EXCEPT ![p] = e.ids]))
    BY <1>2 DEF Consume, Take
  <2>2. wire[p] \in Seq(Message(Seq(Ids)))
    BY DEF Typed, StreamTypes, Wires
  <2>3. e = wire[p][1] /\ 1 \in 1 .. Len(wire[p]) /\ e \in Message(Seq(Ids))
    BY <2>1, <2>2, TailFacts
  <2> HIDE DEF e
  <2>4. CASE cache' = cache
    BY <1>0, <2>1, <2>4
  <2>5. CASE e.kind = "sync" /\ cache' = [cache EXCEPT ![p] = e.ids]
    <3>1. e.ids \in Seq(Ids)
      BY <2>3, <2>5 DEF Message, Numbered
    <3>2. \A s \in ToSet(remote) \ crossed[p] : s \in ToSet(e.ids)
      BY <2>3, <2>5 DEF ListInv, Known
    <3>3. QED BY <1>1, <2>1, <2>5, <3>1, <3>2
  <2>6. QED BY <2>1, <2>4, <2>5
<1>3. ASSUME NEW p \in Providers, RestoreMirrors(p) PROVE MadeInv'
  <2>1. step[p] = "listed" /\ UNCHANGED <<remote, made, crossed>> /\ cache' = [cache EXCEPT ![p] = answer[p]]
    BY <1>3 DEF RestoreMirrors
  <2>2. answer[p] \in Seq(Ids)
    BY DEF Typed, PipeTypes
  <2>3. \A s \in ToSet(remote) \ crossed[p] : s \in ToSet(answer[p])
    BY <2>1 DEF ListInv, Known
  <2>4. QED BY <1>1, <2>1, <2>2, <2>3
<1>4. ASSUME NEW p \in Providers, ProviderStep(p) PROVE MadeInv'
  <2>1. CASE Subscribe(p) \/ Forward(p) \/ EndStream(p) \/ AddRemote(p) \/ ListSessions(p) \/ StartSSE(p)
    BY <1>0, <2>1 DEF Subscribe, Forward, EndStream, AddRemote, ListSessions, StartSSE
  <2>2. QED BY <1>2, <1>3, <1>4, <2>1, Zenon DEF ProviderStep
<1>5. ASSUME NEW s0, Cross(s0), ToSet(remote) \subseteq ToSet(remote'), UNCHANGED <<made, cache>> PROVE MadeInv'
  <2>1. \A p \in Providers : crossed[p] \subseteq crossed'[p]
    BY <1>5 DEF Cross
  <2>2. QED BY <1>5, <2>1 DEF MadeInv, CacheIds
<1>6. ASSUME NEW s0, Lose(s0), ToSet(remote') = ToSet(remote) \ {s0}, UNCHANGED <<crossed, cache>> PROVE MadeInv'
  <2>1. \A p \in Providers : made'[p] = made[p] \ {s0}
    BY <1>6 DEF Lose
  <2>2. QED BY <1>6, <2>1 DEF MadeInv, CacheIds
<1>7. ASSUME NEW c \in Callers, HandleCreate(c) \/ HandleWorktree(c) PROVE MadeInv'
  <2>1. PICK s \in Ids :
           /\ remote' = Append(remote, s) /\ used' = used \cup {s} /\ ToSet(remote') = ToSet(remote) \cup {s} /\ NoTwins(remote')
           /\ Cross(s) /\ UNCHANGED <<step, answer, wire, cache, made, mirrored>>
           /\ \A d \in Callers : d # c => calls'[d] = calls[d]
           /\ calls'[c].id = s /\ calls'[c].kind # "delete"
    BY <1>7, LaunchFacts, Zenon
  <2>2. QED BY <1>5, <2>1
<1>8. ASSUME NEW c \in Callers, HandleResume(c) PROVE MadeInv'
  BY <1>5, <1>8, ResumeFacts
<1>9. ASSUME NEW c \in Callers, HandleDelete(c) PROVE MadeInv'
  BY <1>6, <1>9, DeleteFacts
<1>10. ASSUME NEW c \in Callers, ApplyAnswer(c) PROVE MadeInv'
  <2> DEFINE q == calls[c].via
             x == calls[c].id
             k == calls[c].kind
  <2>1. /\ calls[c].at = "ok" /\ cache' = [cache EXCEPT ![q] = Cached(k, @, x)]
        /\ made' = IF k \in Launching THEN [made EXCEPT ![q] = @ \cup ({x} \cap ToSet(remote))] ELSE made
        /\ UNCHANGED <<remote, crossed>>
    BY <1>10 DEF ApplyAnswer
  <2>2. calls[c] \in Call /\ x \in Ids /\ q \in Providers
    BY <2>1, CallFacts
  <2>3. k = "delete" => Deleting(q, x)
    <3>1. k = "delete" => calls[c] = [kind |-> "delete", id |-> x, via |-> q, at |-> "ok"]
      BY <2>1, <2>2 DEF Call
    <3>2. QED BY <3>1 DEF Deleting
  <2> HIDE DEF q, x, k
  <2>4. /\ cache'[q] = Cached(k, cache[q], x) /\ cache[q] \in Seq(Ids)
        /\ made'[q] = IF k \in Launching THEN made[q] \cup ({x} \cap ToSet(remote)) ELSE made[q]
        /\ \A p \in Providers : p # q => made'[p] = made[p] /\ cache'[p] = cache[p]
    BY <2>1, <2>2 DEF Typed, CacheTypes
  <2>5. made[q] \subseteq ToSet(remote) /\ made[q] \subseteq ToSet(cache[q]) \cup crossed[q]
    BY <2>2 DEF MadeInv, CacheIds
  <2>6. made'[q] \subseteq ToSet(remote) /\ made'[q] \subseteq ToSet(cache'[q]) \cup crossed[q]
    <3>1. CASE k \in Launching
      <4>1. cache'[q] = Added(cache[q], x)
        BY <2>4, <3>1 DEF Cached, Launching
      <4>2. QED BY <2>2, <2>4, <2>5, <3>1, <4>1, AddedFacts
    <3>2. CASE k = "delete"
      <4>1. cache'[q] = Removed(cache[q], x) /\ made'[q] = made[q]
        BY <2>4, <3>2 DEF Cached, Launching
      <4>2. \A y \in ToSet(cache[q]) : y # x => y \in ToSet(cache'[q])
        BY <2>4, <4>1, RemoveFirstFacts DEF Removed
      <4>3. x \in made[q] => x \in crossed[q]
        BY <2>2, <2>3, <2>5, <3>2 DEF ListInv, Known
      <4>4. QED BY <2>5, <4>1, <4>2, <4>3
    <3>3. CASE k \notin Launching \cup {"delete"}
      BY <2>4, <2>5, <3>3 DEF Cached
    <3>4. QED BY <3>1, <3>2, <3>3
  <2>7. QED BY <2>1, <2>4, <2>6 DEF MadeInv, CacheIds
<1>11. ASSUME NEW c \in Callers, Request(c) \/ HandleLookup(c) \/ HandleFails(c) \/ MakeMirror(c) \/ DropMirror(c) \/ CallFails(c)
       PROVE  MadeInv'
  BY <1>0, <1>11 DEF Request, HandleLookup, HandleFails, MakeMirror, DropMirror, CallFails
<1>12. CASE RemoteChange
  <2>1. /\ cache' = cache
        /\ \E s : \/ ToSet(remote') = ToSet(remote) \cup {s} /\ Cross(s) /\ UNCHANGED made
                  \/ ToSet(remote') = ToSet(remote) \ {s} /\ Lose(s) /\ UNCHANGED crossed
    BY <1>12, ChangeFacts
  <2>2. QED BY <1>5, <1>6, <2>1
<1>13. CASE PendingNotifications \/ TakeLocal \/ \E u \in updates : ApplyUpdate(u)
  BY <1>0, <1>13 DEF PendingNotifications, Drain, TakeLocal, ApplyUpdate
<1>14. ASSUME NEW w \in Windows, NEW kind \in {"activity", "prompt"}, Hook(w, kind) PROVE MadeInv'
  BY <1>0, <1>14 DEF Hook
<1>15. CASE Next
  BY <1>4, <1>7, <1>8, <1>9, <1>10, <1>11, <1>12, <1>13, <1>14, <1>15, Zenon DEF Next, CallStep
<1>16. QED BY <1>0, <1>15 DEF vars

\* Nothing is made at first, nothing is under way.
LEMMA InitMade == Init => StoreInv /\ ListInv /\ MadeInv
<1> SUFFICES ASSUME Init PROVE StoreInv /\ ListInv /\ MadeInv
  OBVIOUS
<1>1. PICK old \in SUBSET Ids : IsFiniteSet(old) /\ remote = SetToSeq(old) /\ used = old
  BY DEF Init
<1>2. NoTwins(remote) /\ ToSet(remote) \subseteq used
  BY <1>1, OrderedFacts
<1>3. ToSet(<<>>) = {}
  BY DEF ToSet
<1>4. /\ \A p \in Providers : answer[p] = <<>> /\ step[p] = "off" /\ wire[p] = <<>> /\ made[p] = {}
      /\ \A c \in Callers : calls[c] = NoCall
      /\ mirrored = {}
  BY DEF Init
<1>5. StoreInv
  BY <1>2, <1>3, <1>4 DEF StoreInv, NoCall
<1>6. ListInv
  BY <1>4 DEF ListInv, Known, Deleting, NoCall
<1>7. QED BY <1>4, <1>5, <1>6 DEF MadeInv

-----------------------------------------------------------------------------
(* The sidebar follows the newest activity.                                *)

\* Until a second connection only the first provider has anything.
LEMMA FirstAlone ==
  ASSUME FeedInv, TurnInv, current =< 1, NEW p \in Providers, p # 1
  PROVE  wire[p] = <<>> /\ sub[p] = <<>> /\ notes[p] = <<>>
<1>1. current \in 0 .. Connections /\ Connections \in Nat
  BY ConstantsAssumption DEF FeedInv, FeedTypes
<1>2. step[p] = "off"
  BY <1>1 DEF TurnInv
<1>3. QED BY <1>2 DEF FeedInv, UnstartedInv

\* Providers start in turn.
LEMMA NextTurn == Typed /\ TurnInv /\ [Next]_vars => TurnInv'
<1> SUFFICES ASSUME Typed, TurnInv, [Next]_vars PROVE TurnInv'
  OBVIOUS
<1>1. CASE UNCHANGED <<step, current>>
  BY <1>1 DEF TurnInv
<1>2. ASSUME NEW p \in Providers, AddRemote(p) PROVE TurnInv'
  <2>1. /\ current' = p /\ step[p] = "off" /\ step' = [step EXCEPT ![p] = "list"]
        /\ \A q \in Providers : q < p => step[q] = "up"
    BY <1>2 DEF AddRemote
  <2>2. \A q \in Providers : step'[q] = IF q = p THEN "list" ELSE step[q]
    BY <2>1 DEF Typed, PipeTypes
  <2>3. ASSUME NEW q \in Providers, step[q] # "off" PROVE q < p
    <3>1. ~(p < q)
      BY <2>1, <2>3 DEF TurnInv
    <3>2. QED BY <2>1, <2>3, <3>1, ConstantsAssumption
  <2>4. ASSUME NEW q \in Providers, step'[q] # "off"
        PROVE  q =< current' /\ \A r \in Providers : r < q => step'[r] = "up"
    <3>1. CASE q = p
      BY <2>1, <2>2, <3>1, ConstantsAssumption
    <3>2. CASE q # p
      <4>1. q < p /\ step[q] # "off"
        BY <2>2, <2>3, <2>4, <3>2
      <4>2. \A r \in Providers : r < q => r # p /\ step[r] = "up"
        BY <4>1, ConstantsAssumption DEF TurnInv
      <4>3. QED BY <2>1, <2>2, <4>1, <4>2, ConstantsAssumption
    <3>3. QED BY <3>1, <3>2
  <2>5. current' # 0 => step'[current'] # "off"
    BY <2>1, <2>2
  <2>6. QED BY <2>4, <2>5 DEF TurnInv
<1>3. ASSUME NEW p \in Providers, ListSessions(p) \/ RestoreMirrors(p) \/ StartSSE(p) PROVE TurnInv'
  <2>1. current' = current /\ step[p] \notin {"off", "up"} /\ \E x \in {"listed", "stream", "up"} : step' = [step EXCEPT ![p] = x]
    BY <1>3 DEF ListSessions, RestoreMirrors, StartSSE
  <2>2. \A q \in Providers : /\ step'[q] # "off" <=> step[q] # "off"
                             /\ step[q] = "up" => step'[q] = "up"
    BY <2>1 DEF Typed, PipeTypes
  <2>3. current \in Providers \cup {0}
    BY DEF Typed, PipeTypes
  <2>4. QED BY <2>1, <2>2, <2>3 DEF TurnInv
<1>4. ASSUME NEW p \in Providers, ProviderStep(p) PROVE TurnInv'
  <2>1. CASE Subscribe(p) \/ Forward(p) \/ EndStream(p) \/ Consume(p)
    BY <1>1, <2>1 DEF Subscribe, Forward, EndStream, Consume
  <2>2. QED BY <1>2, <1>3, <1>4, <2>1, Zenon DEF ProviderStep
<1>5. ASSUME NEW c \in Callers, CallStep(c) PROVE TurnInv'
  <2>1. UNCHANGED <<step, current>>
    BY <1>5 DEF CallStep, Request, HandleCreate, HandleWorktree, Launch, HandleResume, HandleDelete, HandleLookup, HandleFails,
                ApplyAnswer, MakeMirror, DropMirror, CallFails
  <2>2. QED BY <1>1, <2>1
<1>6. CASE PendingNotifications \/ RemoteChange \/ TakeLocal \/ \E u \in updates : ApplyUpdate(u)
  BY <1>1, <1>6 DEF PendingNotifications, Drain, RemoteChange, TakeLocal, ApplyUpdate
<1>7. ASSUME NEW w \in Windows, NEW kind \in {"activity", "prompt"}, Hook(w, kind) PROVE TurnInv'
  BY <1>1, <1>7 DEF Hook
<1>8. CASE Next
  BY <1>4, <1>5, <1>6, <1>7, <1>8, Zenon DEF Next
<1>9. QED BY <1>1, <1>8 DEF vars

\* A session the handler finds is named, any other strays.
LEMMA NextNamed == Typed /\ NamedInv /\ [Next]_vars => NamedInv'
<1> SUFFICES ASSUME Typed, NamedInv, [Next]_vars PROVE NamedInv'
  OBVIOUS
<1>1. CASE UNCHANGED <<wire, strayed>>
  BY <1>1 DEF NamedInv
<1>2. ASSUME NEW p \in Providers, Forward(p) \/ EndStream(p) \/ Consume(p) PROVE NamedInv'
  <2>1. strayed => strayed'
    BY <1>2 DEF Forward, EndStream, Consume
  <2>2. ASSUME NEW i \in 1 .. Len(wire'[p])
        PROVE  wire'[p][i].kind # "sync" =>
                 wire'[p][i].id \in {wire'[p][i].window, NoId} /\ (wire'[p][i].id = NoId => strayed')
    <3>1. CASE \E j \in 1 .. Len(wire[p]) : wire'[p][i] = wire[p][j]
      BY <2>1, <3>1 DEF NamedInv
    <3>2. CASE Forward(p) /\ sub[p] # <<>> /\ wire'[p][i] = Notification(Head(sub[p]))
      <4>1. strayed' = (strayed \/ Notification(Head(sub[p])).id = NoId)
        BY <3>2 DEF Forward
      <4>2. sub[p] \in Seq(Hooks) /\ remote \in Seq(Ids)
        BY DEF Typed, StreamTypes, DaemonTypes
      <4>3. Head(sub[p]) \in Hooks
        BY <3>2, <4>2, TailFacts
      <4>4. Notification(Head(sub[p])).id \in {Notification(Head(sub[p])).window, NoId}
        BY <4>2, <4>3, NotificationFacts
      <4>5. QED BY <3>2, <4>1, <4>4
    <3>3. QED BY <1>2, <3>1, <3>2, WireFacts
  <2>3. ASSUME NEW q \in Providers, q # p PROVE wire'[q] = wire[q]
    BY <1>2, <2>3, WireFacts
  <2>4. ASSUME NEW q \in Providers, NEW i \in 1 .. Len(wire'[q])
        PROVE  wire'[q][i].kind # "sync" =>
                 wire'[q][i].id \in {wire'[q][i].window, NoId} /\ (wire'[q][i].id = NoId => strayed')
    <3>1. CASE q = p
      BY <2>2, <3>1
    <3>2. CASE q # p
      BY <2>1, <2>3, <3>2 DEF NamedInv
    <3>3. QED BY <3>1, <3>2
  <2>5. QED BY <2>4 DEF NamedInv
<1>3. ASSUME NEW p \in Providers, StartSSE(p) PROVE NamedInv'
  <2>1. strayed' = strayed /\ (wire' = wire \/ wire' = [wire EXCEPT ![p] = <<Sync(remote)>>])
    BY <1>3 DEF StartSSE
  <2>2. CASE wire' = wire
    BY <1>1, <2>1, <2>2
  <2>3. CASE wire' = [wire EXCEPT ![p] = <<Sync(remote)>>]
    <3>1. Len(<<Sync(remote)>>) = 1 /\ <<Sync(remote)>>[1].kind = "sync"
      BY DEF Sync
    <3>2. \A q \in Providers : wire'[q] = wire[q] \/ wire'[q] = <<Sync(remote)>>
      BY <2>3 DEF Typed, StreamTypes
    <3>3. \A i \in 1 .. Len(<<Sync(remote)>>) : <<Sync(remote)>>[i].kind = "sync"
      BY <3>1
    <3>4. ASSUME NEW q \in Providers, NEW i \in 1 .. Len(wire'[q])
          PROVE  wire'[q][i].kind # "sync" =>
                   wire'[q][i].id \in {wire'[q][i].window, NoId} /\ (wire'[q][i].id = NoId => strayed')
      BY <2>1, <3>2, <3>3 DEF NamedInv
    <3>5. QED BY <3>4 DEF NamedInv
  <2>4. QED BY <2>1, <2>2, <2>3
<1>4. ASSUME NEW p \in Providers, ProviderStep(p) PROVE NamedInv'
  <2>1. CASE Subscribe(p) \/ AddRemote(p) \/ ListSessions(p) \/ RestoreMirrors(p)
    BY <1>1, <2>1 DEF Subscribe, AddRemote, ListSessions, RestoreMirrors
  <2>2. QED BY <1>2, <1>3, <1>4, <2>1, Zenon DEF ProviderStep
<1>5. ASSUME NEW c \in Callers, CallStep(c) PROVE NamedInv'
  <2>1. UNCHANGED <<wire, strayed>>
    BY <1>5 DEF CallStep, Request, HandleCreate, HandleWorktree, Launch, HandleResume, HandleDelete, HandleLookup, HandleFails,
                ApplyAnswer, MakeMirror, DropMirror, CallFails
  <2>2. QED BY <1>1, <2>1
<1>6. CASE PendingNotifications \/ RemoteChange \/ TakeLocal \/ \E u \in updates : ApplyUpdate(u)
  BY <1>1, <1>6 DEF PendingNotifications, Drain, RemoteChange, TakeLocal, ApplyUpdate
<1>7. ASSUME NEW w \in Windows, NEW kind \in {"activity", "prompt"}, Hook(w, kind) PROVE NamedInv'
  BY <1>1, <1>7 DEF Hook
<1>8. CASE Next
  BY <1>4, <1>5, <1>6, <1>7, <1>8, Zenon DEF Next
<1>9. QED BY <1>1, <1>8 DEF vars

\* Numbers of what is shown, sent and on the wire.
LEMMA ShownFacts ==
  ASSUME Typed
  PROVE  /\ published \in Nat /\ current \in Nat
         /\ \A s \in Ids : sidebar[s].n \in Nat
         /\ \A p \in Providers :
              /\ wire[p] \in Wires /\ sub[p] \in Seq(Hooks) /\ notes[p] \in Seq(Prompt)
              /\ \A i \in 1 .. Len(wire[p]) : wire[p][i].kind = "sync" \/ (wire[p][i] \in Numbered /\ wire[p][i].n \in Nat \ {0})
              /\ \A i \in 1 .. Len(sub[p]) : sub[p][i].n \in Nat \ {0}
<1>1. published \in Nat /\ current \in Nat
  BY ConstantsAssumption DEF Typed, DaemonTypes, PipeTypes
<1>2. \A s \in Ids : sidebar[s].n \in Nat
  BY ConstantsAssumption DEF Typed, GuiTypes, Shown
<1>3. ASSUME NEW p \in Providers
      PROVE  /\ wire[p] \in Wires /\ sub[p] \in Seq(Hooks) /\ notes[p] \in Seq(Prompt)
             /\ \A i \in 1 .. Len(wire[p]) : wire[p][i].kind = "sync" \/ (wire[p][i] \in Numbered /\ wire[p][i].n \in Nat \ {0})
             /\ \A i \in 1 .. Len(sub[p]) : sub[p][i].n \in Nat \ {0}
  <2>1. wire[p] \in Wires /\ sub[p] \in Seq(Hooks) /\ notes[p] \in Seq(Prompt)
    BY DEF Typed, StreamTypes, CacheTypes
  <2>2. \A e \in Message(Seq(Ids)) : e.kind = "sync" \/ (e \in Numbered /\ e.n \in Nat \ {0})
    BY ConstantsAssumption DEF Message, Numbered
  <2>3. \A h \in Hooks : h.n \in Nat \ {0}
    BY ConstantsAssumption DEF Hooks
  <2>4. \A i \in 1 .. Len(wire[p]) : wire[p][i] \in Message(Seq(Ids))
    BY <2>1 DEF Wires
  <2>5. \A i \in 1 .. Len(sub[p]) : sub[p][i] \in Hooks
    BY <2>1
  <2>6. QED BY <2>1, <2>2, <2>3, <2>4, <2>5
<1>4. QED BY <1>1, <1>2, <1>3

\* The head of a queue and what is left of it.
LEMMA TakenSets ==
  ASSUME NEW S, NEW s \in Seq(S), s # <<>>
  PROVE  Head(s) \in ToSet(s) /\ ToSet(Tail(s)) \subseteq ToSet(s)
<1>1. /\ Head(s) = s[1] /\ Len(s) \in Nat /\ Len(s) > 0 /\ Tail(s) \in Seq(S) /\ Len(Tail(s)) = Len(s) - 1
      /\ \A i \in 1 .. Len(s) - 1 : Tail(s)[i] = s[i + 1]
  BY TailFacts
<1>2. DOMAIN s = 1 .. Len(s) /\ DOMAIN Tail(s) = 1 .. Len(s) - 1
  BY <1>1
<1>3. 1 \in 1 .. Len(s) /\ \A i \in 1 .. Len(s) - 1 : i + 1 \in 1 .. Len(s)
  BY <1>1
<1>4. QED BY <1>1, <1>2, <1>3 DEF ToSet

\* What strayed or was overtaken stays so.
LEMMA StrayedKept == [Next]_vars => (strayed => strayed') /\ overtaken \subseteq overtaken'
<1> SUFFICES ASSUME [Next]_vars PROVE (strayed => strayed') /\ overtaken \subseteq overtaken'
  OBVIOUS
<1>1. ASSUME NEW p \in Providers, ProviderStep(p) PROVE (strayed => strayed') /\ overtaken' = overtaken
  <2>1. CASE Forward(p)
    <3>1. strayed' = (strayed \/ Notification(Head(sub[p])).id = NoId) /\ overtaken' = overtaken
      BY <2>1 DEF Forward
    <3>2. QED BY <3>1, Zenon
  <2>2. CASE ~Forward(p)
    <3>1. strayed' = strayed /\ overtaken' = overtaken
      BY <1>1, <2>2 DEF ProviderStep, Subscribe, EndStream, Consume, AddRemote, ListSessions, RestoreMirrors, StartSSE
    <3>2. QED BY <3>1, Zenon
  <2>3. QED BY <2>1, <2>2
<1>2. ASSUME NEW c \in Callers, CallStep(c) PROVE UNCHANGED <<strayed, overtaken>>
  BY <1>2 DEF CallStep, Request, HandleCreate, HandleWorktree, Launch, HandleResume, HandleDelete, HandleLookup, HandleFails,
              ApplyAnswer, MakeMirror, DropMirror, CallFails
<1>3. CASE RemoteChange \/ TakeLocal \/ UNCHANGED vars
  BY <1>3 DEF RemoteChange, TakeLocal, vars
<1>4. CASE PendingNotifications \/ \E u \in updates : ApplyUpdate(u)
  <2>1. overtaken' = overtaken \cup Outdated'
    BY <1>4 DEF PendingNotifications, Drain, ApplyUpdate
  <2>2. strayed' = strayed
    BY <1>4 DEF PendingNotifications, Drain, ApplyUpdate
  <2>3. QED BY <2>1, <2>2
<1>5. ASSUME NEW w \in Windows, NEW kind \in {"activity", "prompt"}, Hook(w, kind) PROVE UNCHANGED <<strayed, overtaken>>
  BY <1>5 DEF Hook
<1>6. QED BY <1>1, <1>2, <1>3, <1>4, <1>5 DEF Next

\* The oldest message of a wire becomes what the TUI has in hand, if anything.
LEMMA TakenFacts ==
  ASSUME Typed, NamedInv, NEW p \in Providers, Consume(p)
  PROVE  \/ UNCHANGED <<local, notes>>
         \/ \E v \in Prompt :
              /\ wire[p] # <<>> /\ 1 \in 1 .. Len(wire[p]) /\ wire[p][1].kind # "sync" /\ v.n = wire[p][1].n
              /\ v.mirror \in {NoId, v.window} \/ strayed
              /\ ToSet(local') \subseteq ToSet(local) \cup {v} /\ Waiting' \subseteq Waiting \cup {v}
<1> DEFINE e == Head(wire[p])
<1>1. /\ wire[p] # <<>> /\ wire[p] \in Seq(Message(Seq(Ids))) /\ cache[p] \in Seq(Ids) /\ mirrored \subseteq Ids
      /\ notes \in [Providers -> Seq(Prompt)] /\ local \in Seq(Prompt) /\ Take(p, e) /\ updates' = updates
  BY DEF Consume, Typed, StreamTypes, CacheTypes, GuiTypes, LoopTypes, Wires
<1>2. e = wire[p][1] /\ 1 \in 1 .. Len(wire[p]) /\ e \in Message(Seq(Ids))
  BY <1>1, TailFacts
<1> HIDE DEF e
<1>3. CASE e.kind = "sync" /\ UNCHANGED <<notes, local>>
  BY <1>3
<1>4. CASE e.kind \in {"activity", "prompt"}
  <2>1. e \in Numbered /\ e.kind # "sync"
    BY <1>2, <1>4 DEF Message
  <2>2. e.id \in {e.window, NoId} /\ (e.id = NoId => strayed)
    BY <1>2, <2>1 DEF NamedInv
  <2>3. ASSUME NEW s PROVE /\ Resolved(s, e) \in Prompt /\ Resolved(s, e).n = wire[p][1].n
                           /\ Resolved(s, e).window = e.window /\ Resolved(s, e).mirror \in {NoId, s}
    BY <1>1, <1>2, <2>1 DEF Numbered, Prompt, Resolved
  <2>4. CASE e.kind = "activity"
    <3> DEFINE s == FirstMatch(p, e.id)
               v == Resolved(s, e)
    <3>1. s = NoId \/ (e.id # NoId => s = e.id)
      BY <1>1, FirstMatchFacts
    <3>2. notes' = notes /\ (local' = local \/ local' = Append(local, v))
      BY <1>1, <2>4 DEF Take, ShowActivity
    <3> HIDE DEF s
    <3>3. v \in Prompt /\ v.n = wire[p][1].n /\ v.window = e.window /\ v.mirror \in {NoId, s}
      BY <2>3
    <3> HIDE DEF v
    <3>4. CASE local' = Append(local, v)
      <4>1. ToSet(local') = ToSet(local) \cup {v}
        BY <1>1, <3>3, <3>4, AddedFacts
      <4>2. Waiting' \subseteq Waiting \cup {v}
        BY <1>1, <3>2, <4>1 DEF Waiting
      <4>3. v.mirror \in {NoId, v.window} \/ strayed
        BY <2>2, <3>1, <3>3
      <4>4. QED BY <1>1, <1>2, <2>1, <3>3, <4>1, <4>2, <4>3
    <3>5. QED BY <3>2, <3>4
  <2>5. CASE e.kind = "prompt"
    <3> DEFINE v == Resolved(e.id, e)
    <3>1. local' = local /\ notes' = [notes EXCEPT ![p] = Append(@, v)]
      BY <1>1, <2>5 DEF Take
    <3>2. v \in Prompt /\ v.n = wire[p][1].n /\ v.window = e.window /\ v.mirror \in {NoId, e.id}
      BY <2>3
    <3> HIDE DEF v
    <3>3. \A q \in Providers : ToSet(notes'[q]) \subseteq ToSet(notes[q]) \cup {v}
      <4>1. ToSet(Append(notes[p], v)) = ToSet(notes[p]) \cup {v}
        <5>1. notes[p] \in Seq(Prompt) /\ v \in Prompt
          BY <1>1, <3>2
        <5>2. QED BY <5>1, AddedFacts
      <4>2. QED BY <1>1, <3>1, <4>1
    <3>4. Waiting' \subseteq Waiting \cup {v}
      BY <1>1, <3>1, <3>3 DEF Waiting
    <3>5. v.mirror \in {NoId, v.window} \/ strayed
      BY <2>2, <3>2
    <3>6. QED BY <1>1, <1>2, <2>1, <3>1, <3>2, <3>4, <3>5
  <2>6. QED BY <1>4, <2>4, <2>5
<1>5. QED BY <1>1, <1>3, <1>4 DEF Take

\* What waits is a prompt, and has a number.
LEMMA HandFacts ==
  ASSUME Typed
  PROVE  /\ Waiting \subseteq Prompt /\ updates \cup ToSet(local) \subseteq Waiting
         /\ \A v \in Prompt : v.n \in Nat \ {0} /\ v.mirror \in Ids \cup {NoId}
<1>1. ASSUME NEW q \in Seq(Prompt) PROVE ToSet(q) \subseteq Prompt
  BY DEF ToSet
<1>2. Waiting \subseteq Prompt
  BY <1>1 DEF Waiting, Typed, LoopTypes, CacheTypes
<1>3. \A v \in Prompt : v.n \in Nat \ {0} /\ v.mirror \in Ids \cup {NoId}
  BY ConstantsAssumption DEF Prompt
<1>4. QED BY <1>2, <1>3 DEF Waiting

\* Only the first provider begins while none did.
LEMMA FirstBegins ==
  ASSUME Typed, TurnInv, NEW p \in Providers, AddRemote(p), p =< 1
  PROVE  p = 1 /\ current =< 1 /\ \A q \in Providers : step[q] # "up"
<1>1. p = 1 /\ step[p] = "off" /\ current \in Providers \cup {0} /\ Connections \in Nat
  BY ConstantsAssumption DEF AddRemote, Typed, PipeTypes
<1>2. ASSUME NEW q \in Providers, step[q] # "off" PROVE FALSE
  <2>1. q = 1 \/ 1 < q
    BY <1>1
  <2>2. 1 < q => step[p] = "up"
    BY <1>1, <1>2 DEF TurnInv
  <2>3. QED BY <1>1, <1>2, <2>1, <2>2
<1>3. current = 0
  BY <1>1, <1>2 DEF TurnInv
<1>4. QED BY <1>1, <1>2, <1>3

\* The host is connected again only once it was connected.
LEMMA CurrentKept == ASSUME Typed, TurnInv, [Next]_vars, current' =< 1 PROVE current =< 1
<1>1. ASSUME NEW p \in Providers, ProviderStep(p) PROVE current =< 1
  <2>1. CASE AddRemote(p)
    <3>1. current' = p
      BY <2>1 DEF AddRemote
    <3>2. QED BY <2>1, <3>1, FirstBegins
  <2>2. CASE ~AddRemote(p)
    <3>1. current' = current
      BY <1>1, <2>2 DEF ProviderStep, Subscribe, Forward, EndStream, Consume, ListSessions, RestoreMirrors, StartSSE
    <3>2. QED BY <3>1
  <2>3. QED BY <2>1, <2>2
<1>2. ASSUME NEW c \in Callers, CallStep(c) PROVE current' = current
  BY <1>2 DEF CallStep, Request, HandleCreate, HandleWorktree, Launch, HandleResume, HandleDelete, HandleLookup, HandleFails,
              ApplyAnswer, MakeMirror, DropMirror, CallFails
<1>3. CASE RemoteChange \/ TakeLocal \/ PendingNotifications \/ (\E u \in updates : ApplyUpdate(u)) \/ UNCHANGED vars
  BY <1>3 DEF RemoteChange, TakeLocal, PendingNotifications, Drain, ApplyUpdate, vars
<1>4. ASSUME NEW w \in Windows, NEW kind \in {"activity", "prompt"}, Hook(w, kind) PROVE current' = current
  BY <1>4 DEF Hook
<1>5. QED BY <1>1, <1>2, <1>3, <1>4 DEF Next

\* Numbers below everything on its way stay so.
LEMMA LowFrame == ASSUME UNCHANGED <<published, current, sub, wire>>, NEW k, Low(k) PROVE Low(k)'
BY DEF Low, WireAbove, Above

\* A new event is younger than any other.
LEMMA HookLow ==
  ASSUME Typed, NEW w0 \in Windows, NEW kind \in {"activity", "prompt"}, Hook(w0, kind), NEW k \in Nat, Low(k)
  PROVE  Low(k)'
<1> DEFINE h == [kind |-> kind, window |-> w0, n |-> published + 1]
<1>1. /\ published' = published + 1 /\ UNCHANGED <<current, wire>>
      /\ \A p \in Providers : sub'[p] = sub[p] \/ sub'[p] = Append(sub[p], h)
  BY DEF Hook, Publish
<1>2. h \in Hooks /\ h.n = published + 1
  BY ConstantsAssumption DEF Hooks, Hook, Typed, DaemonTypes, BoundTypes
<1> HIDE DEF h
<1>3. published \in Nat
  BY ShownFacts
<1>4. ASSUME NEW p \in Providers, Above(sub[p], k) PROVE Above(sub'[p], k)
  <2>1. CASE sub'[p] = sub[p]
    BY <1>4, <2>1
  <2>2. CASE sub'[p] = Append(sub[p], h)
    <3>1. sub[p] \in Seq(Hooks)
      BY ShownFacts
    <3>2. /\ Len(sub'[p]) = Len(sub[p]) + 1 /\ Len(sub[p]) \in Nat /\ sub'[p][Len(sub[p]) + 1] = h
          /\ \A i \in 1 .. Len(sub[p]) : sub'[p][i] = sub[p][i]
      BY <1>2, <2>2, <3>1, AppendFacts
    <3>3. \A i \in 1 .. Len(sub'[p]) : i \in 1 .. Len(sub[p]) \/ i = Len(sub[p]) + 1
      BY <3>2
    <3>4. k < h.n
      BY <1>2, <1>3 DEF Low
    <3>5. QED BY <1>4, <3>2, <3>3, <3>4 DEF Above
  <2>3. QED BY <1>1, <2>1, <2>2
<1>5. k =< published + 1
  BY <1>3 DEF Low
<1>6. QED BY <1>1, <1>4, <1>5 DEF Low, WireAbove, Above

\* A stream moves events along, or loses them.
LEMMA StreamLow ==
  ASSUME Typed, NEW p \in Providers, Forward(p) \/ EndStream(p) \/ Consume(p), NEW k \in Nat, Low(k)
  PROVE  Low(k)'
<1>1. UNCHANGED <<published, current>> /\ \A q \in Providers : q # p => sub'[q] = sub[q]
  BY DEF Forward, EndStream, Consume, Typed, StreamTypes
<1>2. sub[p] \in Seq(Hooks) /\ remote \in Seq(Ids)
  BY DEF Typed, StreamTypes, DaemonTypes
<1>3. ASSUME WireAbove(wire[p], k), Above(sub[p], k)
      PROVE  WireAbove(wire'[p], k) /\ Above(sub'[p], k)
  <2>1. CASE Forward(p)
    <3>1. sub[p] # <<>> /\ sub'[p] = Tail(sub[p])
      BY <1>2, <2>1 DEF Forward, Typed, StreamTypes
    <3>2. /\ Head(sub[p]) \in Hooks /\ Head(sub[p]) = sub[p][1] /\ Len(sub[p]) \in Nat /\ Len(sub[p]) > 0
          /\ Len(sub'[p]) = Len(sub[p]) - 1 /\ \A i \in 1 .. Len(sub[p]) - 1 : sub'[p][i] = sub[p][i + 1]
      BY <1>2, <3>1, TailFacts
    <3>3. \A i \in 1 .. Len(sub'[p]) : i + 1 \in 1 .. Len(sub[p]) /\ sub'[p][i] = sub[p][i + 1]
      BY <3>2
    <3>4. Above(sub'[p], k)
      BY <1>3, <3>3 DEF Above
    <3>5. Notification(Head(sub[p])).n = sub[p][1].n /\ k < sub[p][1].n
      BY <1>2, <1>3, <3>2, NotificationFacts DEF Above
    <3>6. \A i \in 1 .. Len(wire'[p]) : \/ \E j \in 1 .. Len(wire[p]) : wire'[p][i] = wire[p][j]
                                        \/ wire'[p][i] = Notification(Head(sub[p]))
      BY <2>1, WireFacts
    <3>7. WireAbove(wire'[p], k)
      BY <1>3, <3>5, <3>6 DEF WireAbove
    <3>8. QED BY <3>4, <3>7
  <2>2. CASE EndStream(p)
    <3>1. sub'[p] = <<>>
      BY <2>2 DEF EndStream, Typed, StreamTypes
    <3>2. ~Forward(p)
      BY <3>1, <2>2 DEF Forward, EndStream, Typed, StreamTypes
    <3>3. \A i \in 1 .. Len(wire'[p]) : \E j \in 1 .. Len(wire[p]) : wire'[p][i] = wire[p][j]
      BY <2>2, <3>2, WireFacts
    <3>4. WireAbove(wire'[p], k)
      BY <1>3, <3>3 DEF WireAbove
    <3>5. Above(<<>>, k)
      BY DEF Above
    <3>6. QED BY <3>1, <3>4, <3>5
  <2>3. CASE Consume(p) /\ ~Forward(p)
    <3>1. sub' = sub
      BY <2>3 DEF Consume
    <3>2. \A i \in 1 .. Len(wire'[p]) : \E j \in 1 .. Len(wire[p]) : wire'[p][i] = wire[p][j]
      BY <2>3, WireFacts
    <3>3. QED BY <1>3, <3>1, <3>2 DEF WireAbove
  <2>4. QED BY <2>1, <2>2, <2>3
<1>4. \A q \in Providers : q # p => wire'[q] = wire[q]
  BY WireFacts
<1>5. ASSUME current =< 1, NEW q \in Providers PROVE WireAbove(wire'[q], k) /\ Above(sub'[q], k)
  <2>1. WireAbove(wire[q], k) /\ Above(sub[q], k)
    BY <1>5 DEF Low
  <2>2. QED BY <1>1, <1>3, <1>4, <2>1
<1>6. QED BY <1>1, <1>5 DEF Low, WireAbove, Above

\* Every step keeps such a number low.
LEMMA LowKept ==
  ASSUME Typed, FeedInv, TurnInv, [Next]_vars, NEW k \in Nat, Low(k)
  PROVE  Low(k)'
<1>1. ASSUME NEW p \in Providers, AddRemote(p) PROVE Low(k)'
  <2>1. UNCHANGED <<published, sub, wire>> /\ current' = p
    BY <1>1 DEF AddRemote
  <2>2. p =< 1 => \A q \in Providers : wire[q] = <<>> /\ sub[q] = <<>>
    BY <1>1, FirstBegins DEF FeedInv, UnstartedInv
  <2>3. QED BY <2>1, <2>2 DEF Low, WireAbove, Above
<1>2. ASSUME NEW p \in Providers, StartSSE(p) PROVE Low(k)'
  <2>1. /\ UNCHANGED <<published, current, sub>>
        /\ wire' = wire \/ wire' = [wire EXCEPT ![p] = <<Sync(remote)>>]
    BY <1>2 DEF StartSSE
  <2>2. WireAbove(<<Sync(remote)>>, k)
    <3>1. Len(<<Sync(remote)>>) = 1 /\ <<Sync(remote)>>[1].kind = "sync"
      BY DEF Sync
    <3>2. \A i \in 1 .. Len(<<Sync(remote)>>) : <<Sync(remote)>>[i].kind = "sync"
      BY <3>1
    <3>3. QED BY <3>2 DEF WireAbove
  <2>3. \A q \in Providers : wire'[q] = wire[q] \/ wire'[q] = <<Sync(remote)>>
    BY <2>1 DEF Typed, StreamTypes
  <2>4. ASSUME current =< 1, NEW q \in Providers PROVE WireAbove(wire'[q], k) /\ Above(sub[q], k)
    BY <2>2, <2>3, <2>4 DEF Low
  <2>5. QED BY <2>1, <2>4 DEF Low, WireAbove, Above
<1>3. ASSUME NEW p \in Providers, ProviderStep(p) PROVE Low(k)'
  <2>1. CASE Subscribe(p) \/ ListSessions(p) \/ RestoreMirrors(p)
    BY <2>1, LowFrame DEF Subscribe, ListSessions, RestoreMirrors
  <2>2. QED BY <1>1, <1>2, <1>3, <2>1, StreamLow, Zenon DEF ProviderStep
<1>4. ASSUME NEW c \in Callers, CallStep(c) PROVE Low(k)'
  <2>1. UNCHANGED <<published, current, sub, wire>>
    BY <1>4 DEF CallStep, Request, HandleCreate, HandleWorktree, Launch, HandleResume, HandleDelete, HandleLookup, HandleFails,
                ApplyAnswer, MakeMirror, DropMirror, CallFails
  <2>2. QED BY <2>1, LowFrame
<1>5. CASE RemoteChange \/ PendingNotifications \/ TakeLocal \/ \E u \in updates : ApplyUpdate(u)
  BY <1>5, LowFrame DEF RemoteChange, PendingNotifications, Drain, TakeLocal, ApplyUpdate
<1>6. CASE Next
  BY <1>3, <1>4, <1>5, <1>6, HookLow, Zenon DEF Next
<1>7. QED BY <1>6, LowFrame DEF vars

\* Nothing is older than no event.
LEMMA ZeroLow == ASSUME Typed PROVE Low(0)
<1>1. ASSUME NEW q \in Providers
      PROVE  /\ \A i \in 1 .. Len(wire[q]) : wire[q][i].kind # "sync" => 0 < wire[q][i].n
             /\ \A i \in 1 .. Len(sub[q]) : 0 < sub[q][i].n
  <2>1. /\ \A i \in 1 .. Len(wire[q]) : wire[q][i].kind # "sync" => wire[q][i].n \in Nat \ {0}
        /\ \A i \in 1 .. Len(sub[q]) : sub[q][i].n \in Nat \ {0}
    BY ShownFacts
  <2>2. QED BY <2>1
<1>2. published \in Nat
  BY ShownFacts
<1>3. QED BY <1>1, <1>2 DEF Low, WireAbove, Above

\* The notes of the tick are older than what follows them.
LEMMA NotesLow ==
  ASSUME Typed, FeedInv, TurnInv, NEW p \in Providers, NEW i \in 1 .. Len(notes[p])
  PROVE  Low(notes[p][i].n)
<1>1. Queue(notes[p], wire[p], sub[p]) /\ UpTo(notes[p], published)
  BY DEF FeedInv, QueuesInv
<1>2. ASSUME current =< 1, NEW q \in Providers
      PROVE  WireAbove(wire[q], notes[p][i].n) /\ Above(sub[q], notes[p][i].n)
  <2>1. p = 1
    <3>1. p # 1 => notes[p] = <<>>
      BY <1>2, FirstAlone
    <3>2. Len(<<>>) = 0
      OBVIOUS
    <3>3. QED BY <3>1, <3>2
  <2>2. CASE q # p
    <3>1. wire[q] = <<>> /\ sub[q] = <<>>
      BY <1>2, <2>1, <2>2, FirstAlone
    <3>2. QED BY <3>1 DEF WireAbove, Above
  <2>3. CASE q = p
    BY <1>1, <2>3 DEF Queue, BelowWire, Below, WireAbove, Above
  <2>4. QED BY <2>2, <2>3
<1>3. QED BY <1>1, <1>2 DEF Low, UpTo

\* The head of a wire is older than what follows it.
LEMMA HeadLow ==
  ASSUME Typed, FeedInv, TurnInv, NEW p \in Providers, Consume(p), wire[p][1].kind # "sync", 1 \in 1 .. Len(wire[p]),
         NEW k, k = wire[p][1].n
  PROVE  Low(k)'
<1>1. UNCHANGED <<published, current, step, sub>> /\ wire[p] # <<>> /\ wire' = [wire EXCEPT ![p] = Tail(@)]
  BY DEF Consume
<1>2. wire[p] \in Wires /\ wire \in [Providers -> Wires]
  BY DEF Typed, StreamTypes
<1>3. wire'[p] = Tail(wire[p]) /\ \A q \in Providers : q # p => wire'[q] = wire[q]
  BY <1>1, <1>2
<1>4. \A i \in 1 .. Len(wire'[p]) : i + 1 \in 1 .. Len(wire[p]) /\ 1 < i + 1 /\ wire'[p][i] = wire[p][i + 1]
  <2>1. /\ Len(wire[p]) \in Nat /\ Len(Tail(wire[p])) = Len(wire[p]) - 1
        /\ \A i \in 1 .. Len(wire[p]) - 1 : Tail(wire[p])[i] = wire[p][i + 1]
    BY <1>1, <1>2, TailFacts DEF Wires
  <2>2. QED BY <1>3, <2>1
<1>5. Queue(notes[p], wire[p], sub[p]) /\ WireUpTo(wire[p], published)
  BY DEF FeedInv, QueuesInv
<1>6. k =< published
  BY <1>5 DEF WireUpTo
<1>7. ASSUME current =< 1, NEW q \in Providers PROVE WireAbove(wire'[q], k) /\ Above(sub[q], k)
  <2>1. p = 1
    BY <1>1, <1>7, FirstAlone
  <2>2. CASE q # p
    <3>1. wire[q] = <<>> /\ sub[q] = <<>>
      BY <1>7, <2>1, <2>2, FirstAlone
    <3>2. WireAbove(<<>>, k) /\ Above(<<>>, k)
      BY DEF WireAbove, Above
    <3>3. QED BY <1>3, <2>2, <3>1, <3>2
  <2>3. CASE q = p
    <3>1. WireAbove(wire'[p], k)
      BY <1>4, <1>5 DEF Queue, RisingWire, WireAbove
    <3>2. Above(sub[p], k)
      BY <1>5 DEF Queue, WireBelow, Above
    <3>3. QED BY <2>3, <3>1, <3>2
  <2>4. QED BY <2>2, <2>3
<1>8. QED BY <1>1, <1>6, <1>7 DEF Low, WireAbove, Above

\* What a tick or an update shows next, was in hand.
LEMMA ShownNext ==
  ASSUME Typed, [Next]_vars, NEW s \in Ids, sidebar'[s] # sidebar[s]
  PROVE  \/ sidebar'[s] = Nothing
         \/ \E u \in updates : ApplyUpdate(u) /\ u.mirror = s /\ sidebar'[s] = [window |-> u.window, n |-> u.n]
         \/ /\ PendingNotifications /\ current \in Providers
            /\ \E i \in 1 .. Len(notes[current]) :
                 /\ notes[current][i] \in Waiting /\ notes[current][i].mirror = s
                 /\ sidebar'[s] = [window |-> notes[current][i].window, n |-> notes[current][i].n]
<1>1. CASE PendingNotifications
  <2>1. sidebar' = Marked(notes[current]) /\ current \in Providers
    BY <1>1 DEF PendingNotifications, Drain, Typed, PipeTypes
  <2>2. notes[current] \in Seq(Prompt)
    BY <2>1 DEF Typed, CacheTypes
  <2>3. DOMAIN notes[current] = 1 .. Len(notes[current])
    BY <2>2
  <2>4. \A i \in 1 .. Len(notes[current]) : notes[current][i] \in Waiting
    BY <2>1, <2>3 DEF Waiting, ToSet
  <2>5. \E i \in 1 .. Len(notes[current]) :
          notes[current][i].mirror = s /\ Marked(notes[current])[s] = [window |-> notes[current][i].window, n |-> notes[current][i].n]
    BY <2>1, <2>2, MarkedFacts
  <2>6. QED BY <1>1, <2>1, <2>4, <2>5
<1>2. ASSUME NEW u \in updates, ApplyUpdate(u)
      PROVE  u.mirror = s /\ sidebar'[s] = [window |-> u.window, n |-> u.n]
  <2>1. sidebar' = IF u.mirror = NoId THEN sidebar ELSE [sidebar EXCEPT ![u.mirror] = [window |-> u.window, n |-> u.n]]
    BY <1>2 DEF ApplyUpdate
  <2>2. u.mirror # NoId
    BY <2>1
  <2>3. QED BY <2>1, <2>2 DEF Typed, GuiTypes
<1>3. ASSUME NEW c \in Callers, DropMirror(c) PROVE sidebar'[s] = Nothing
  BY <1>3 DEF DropMirror, Typed, GuiTypes
<1>4. ASSUME NEW c \in Callers, CallStep(c), ~DropMirror(c) PROVE FALSE
  BY <1>4 DEF CallStep, Request, HandleCreate, HandleWorktree, Launch, HandleResume, HandleDelete, HandleLookup, HandleFails,
              ApplyAnswer, MakeMirror, CallFails
<1>5. ASSUME NEW p \in Providers, ProviderStep(p) PROVE FALSE
  BY <1>5 DEF ProviderStep, Subscribe, Forward, EndStream, Consume, AddRemote, ListSessions, RestoreMirrors, StartSSE
<1>6. ASSUME NEW w \in Windows, NEW kind \in {"activity", "prompt"}, Hook(w, kind) PROVE FALSE
  BY <1>6 DEF Hook
<1>7. CASE RemoteChange \/ TakeLocal \/ UNCHANGED vars
  BY <1>7 DEF RemoteChange, TakeLocal, vars
<1>8. QED BY <1>1, <1>2, <1>3, <1>4, <1>5, <1>6, <1>7, Zenon DEF Next

\* What waits afterwards waited before, or came with a notification, or is
\* for a window that is gone.
LEMMA WaitingNext ==
  ASSUME Typed, NamedInv, [Next]_vars, NEW v \in Waiting', v \notin Waiting
  PROVE  \/ \E p \in Providers :
              /\ Consume(p) /\ wire[p] # <<>> /\ 1 \in 1 .. Len(wire[p]) /\ wire[p][1].kind # "sync" /\ v.n = wire[p][1].n
              /\ v.mirror \in {NoId, v.window} \/ strayed
         \/ v.mirror = NoId /\ \E u \in Waiting : v.n = u.n /\ (v \in updates' \cup ToSet(local') => u \in updates \cup ToSet(local))
<1>0. ASSUME UNCHANGED <<updates, local, notes>> PROVE FALSE
  BY <1>0 DEF Waiting
<1>1. ASSUME NEW p \in Providers, ProviderStep(p)
      PROVE  \E q \in Providers :
              /\ Consume(q) /\ wire[q] # <<>> /\ 1 \in 1 .. Len(wire[q]) /\ wire[q][1].kind # "sync" /\ v.n = wire[q][1].n
              /\ v.mirror \in {NoId, v.window} \/ strayed
  <2>1. CASE Consume(p)
    <3>1. updates' = updates
      BY <2>1 DEF Consume
    <3>2. \E u \in Prompt :
              /\ wire[p] # <<>> /\ 1 \in 1 .. Len(wire[p]) /\ wire[p][1].kind # "sync" /\ u.n = wire[p][1].n
              /\ u.mirror \in {NoId, u.window} \/ strayed
              /\ ToSet(local') \subseteq ToSet(local) \cup {u} /\ Waiting' \subseteq Waiting \cup {u}
      BY <1>0, <2>1, <3>1, TakenFacts
    <3>3. QED BY <2>1, <3>2
  <2>2. CASE ~Consume(p)
    <3>1. UNCHANGED <<updates, local, notes>>
      BY <1>1, <2>2 DEF ProviderStep, Subscribe, Forward, EndStream, AddRemote, ListSessions, RestoreMirrors, StartSSE
    <3>2. QED BY <1>0, <3>1
  <2>3. QED BY <2>1, <2>2
<1>2. ASSUME NEW c \in Callers, DropMirror(c)
      PROVE  v.mirror = NoId /\ \E u \in Waiting : v.n = u.n /\ (v \in updates' \cup ToSet(local') => u \in updates \cup ToSet(local))
  <2> DEFINE s == calls[c].id
  <2>1. /\ notes' = [p \in Providers |-> WithoutAll(s, notes[p])]
        /\ local' = WithoutAll(s, local) /\ updates' = {Without(s, u) : u \in updates}
    BY <1>2 DEF DropMirror
  <2> HIDE DEF s
  <2>2. updates \subseteq Prompt /\ local \in Seq(Prompt) /\ notes \in [Providers -> Seq(Prompt)]
    BY DEF Typed, LoopTypes, CacheTypes
  <2>3. ASSUME NEW q \in Seq(Prompt) PROVE \A x \in ToSet(WithoutAll(s, q)) : \E u \in ToSet(q) : x = Without(s, u)
    <3>1. /\ Len(WithoutAll(s, q)) = Len(q) /\ WithoutAll(s, q) \in Seq(Prompt)
          /\ \A i \in 1 .. Len(q) : WithoutAll(s, q)[i] = Without(s, q[i])
      BY WithoutAllFacts
    <3>2. DOMAIN WithoutAll(s, q) = 1 .. Len(q) /\ DOMAIN q = 1 .. Len(q)
      BY <3>1
    <3>3. QED BY <3>1, <3>2 DEF ToSet
  <2>4. \E u \in Waiting : v = Without(s, u) /\ (v \in updates' \cup ToSet(local') => u \in updates \cup ToSet(local))
    <3>1. CASE v \in updates'
      BY <2>1, <3>1 DEF Waiting
    <3>2. CASE v \in ToSet(local')
      BY <2>1, <2>2, <2>3, <3>2 DEF Waiting
    <3>3. CASE v \notin updates' \cup ToSet(local')
      <4>1. PICK p \in Providers : v \in ToSet(notes'[p])
        BY <3>3 DEF Waiting
      <4>2. v \in ToSet(WithoutAll(s, notes[p])) /\ notes[p] \in Seq(Prompt)
        BY <2>1, <2>2, <4>1
      <4>3. PICK u \in ToSet(notes[p]) : v = Without(s, u)
        BY <2>3, <4>2
      <4>4. u \in Waiting
        BY DEF Waiting
      <4>5. QED BY <3>3, <4>3, <4>4
    <3>4. QED BY <3>1, <3>2, <3>3
  <2>5. PICK u \in Waiting : v = Without(s, u) /\ (v \in updates' \cup ToSet(local') => u \in updates \cup ToSet(local))
    BY <2>4
  <2>6. u \in Prompt
    BY HandFacts
  <2>7. v.n = u.n
    BY <2>5, <2>6, WithoutFacts
  <2>8. v.mirror = NoId
    <3>1. CASE u.mirror = s
      BY <2>5, <2>6, <3>1, WithoutFacts
    <3>2. CASE u.mirror # s
      BY <2>5, <3>2 DEF Without
    <3>3. QED BY <3>1, <3>2
  <2>9. QED BY <2>5, <2>7, <2>8
<1>3. ASSUME NEW c \in Callers, CallStep(c), ~DropMirror(c) PROVE FALSE
  <2>1. UNCHANGED <<updates, local, notes>>
    BY <1>3 DEF CallStep, Request, HandleCreate, HandleWorktree, Launch, HandleResume, HandleDelete, HandleLookup, HandleFails,
              ApplyAnswer, MakeMirror, CallFails
  <2>2. QED BY <1>0, <2>1
<1>4. CASE PendingNotifications
  <2>1. UNCHANGED <<updates, local>> /\ current \in Providers /\ notes' = [notes EXCEPT ![current] = <<>>]
    BY <1>4 DEF PendingNotifications, Drain, Typed, PipeTypes
  <2>2. ToSet(<<>>) = {}
    BY DEF ToSet
  <2>3. \A p \in Providers : ToSet(notes'[p]) \subseteq ToSet(notes[p])
    BY <2>1, <2>2 DEF Typed, CacheTypes
  <2>4. QED BY <2>1, <2>3 DEF Waiting
<1>5. CASE TakeLocal
  <2>1. local # <<>> /\ updates' = updates \cup {Head(local)} /\ local' = Tail(local) /\ UNCHANGED notes /\ local \in Seq(Prompt)
    BY <1>5 DEF TakeLocal, Typed, LoopTypes
  <2>2. Head(local) \in ToSet(local) /\ ToSet(local') \subseteq ToSet(local)
    BY <2>1, TakenSets
  <2>3. QED BY <2>1, <2>2 DEF Waiting
<1>6. CASE \E u \in updates : ApplyUpdate(u)
  BY <1>6 DEF ApplyUpdate, Waiting
<1>7. CASE RemoteChange \/ UNCHANGED vars
  BY <1>0, <1>7 DEF RemoteChange, vars
<1>8. ASSUME NEW w \in Windows, NEW kind \in {"activity", "prompt"}, Hook(w, kind) PROVE FALSE
  BY <1>0, <1>8 DEF Hook
<1>9. QED BY <1>1, <1>2, <1>3, <1>4, <1>5, <1>6, <1>7, <1>8, Zenon DEF Next

\* What the GUI's loop holds afterwards, too.
LEMMA LoopNext ==
  ASSUME Typed, NamedInv, [Next]_vars, NEW v \in updates' \cup ToSet(local'), v \in Waiting
  PROVE  \/ v \in updates \cup ToSet(local)
         \/ \E p \in Providers : Consume(p) /\ 1 \in 1 .. Len(wire[p]) /\ wire[p][1].kind # "sync" /\ v.n = wire[p][1].n
         \/ \E u \in updates \cup ToSet(local) : v.n = u.n
<1>0. CASE UNCHANGED <<updates, local>>
  BY <1>0
<1>1. ASSUME NEW p \in Providers, Consume(p)
      PROVE  v \in updates \cup ToSet(local) \/ (1 \in 1 .. Len(wire[p]) /\ wire[p][1].kind # "sync" /\ v.n = wire[p][1].n)
  <2>1. updates' = updates
    BY <1>1 DEF Consume
  <2>2. QED BY <1>1, <2>1, TakenFacts
<1>2. ASSUME NEW c \in Callers, DropMirror(c) PROVE \E u \in updates \cup ToSet(local) : v.n = u.n
  <2> DEFINE s == calls[c].id
  <2>1. local' = WithoutAll(s, local) /\ updates' = {Without(s, u) : u \in updates}
    BY <1>2 DEF DropMirror
  <2> HIDE DEF s
  <2>2. updates \subseteq Prompt /\ local \in Seq(Prompt)
    BY DEF Typed, LoopTypes
  <2>3. /\ Len(local') = Len(local) /\ local' \in Seq(Prompt)
        /\ \A i \in 1 .. Len(local) : local'[i].n = local[i].n
    BY <2>1, <2>2, WithoutAllFacts
  <2>4. DOMAIN local' = 1 .. Len(local) /\ DOMAIN local = 1 .. Len(local)
    BY <2>2, <2>3
  <2>5. \A x \in ToSet(local') : \E u \in ToSet(local) : x.n = u.n
    BY <2>3, <2>4 DEF ToSet
  <2>6. \A x \in updates' : \E u \in updates : x.n = u.n
    BY <2>1, <2>2, WithoutFacts
  <2>7. QED BY <2>5, <2>6
<1>3. CASE TakeLocal
  <2>1. local # <<>> /\ updates' = updates \cup {Head(local)} /\ local' = Tail(local) /\ local \in Seq(Prompt)
    BY <1>3 DEF TakeLocal, Typed, LoopTypes
  <2>2. QED BY <2>1, TakenSets
<1>4. CASE \E u \in updates : ApplyUpdate(u)
  BY <1>4 DEF ApplyUpdate
<1>5. ASSUME NEW p \in Providers, ProviderStep(p), ~Consume(p) PROVE UNCHANGED <<updates, local>>
  BY <1>5 DEF ProviderStep, Subscribe, Forward, EndStream, AddRemote, ListSessions, RestoreMirrors, StartSSE
<1>6. ASSUME NEW c \in Callers, CallStep(c), ~DropMirror(c) PROVE UNCHANGED <<updates, local>>
  BY <1>6 DEF CallStep, Request, HandleCreate, HandleWorktree, Launch, HandleResume, HandleDelete, HandleLookup, HandleFails,
              ApplyAnswer, MakeMirror, CallFails
<1>7. CASE PendingNotifications \/ RemoteChange \/ UNCHANGED vars
  <2>1. UNCHANGED <<updates, local>>
    BY <1>7 DEF PendingNotifications, Drain, RemoteChange, vars
  <2>2. QED BY <1>0, <2>1
<1>8. ASSUME NEW w \in Windows, NEW kind \in {"activity", "prompt"}, Hook(w, kind) PROVE UNCHANGED <<updates, local>>
  BY <1>8 DEF Hook
<1>9. QED BY <1>0, <1>1, <1>2, <1>3, <1>4, <1>5, <1>6, <1>7, <1>8, Zenon DEF Next

\* Every step keeps what the TUI has older than what is on its way.
LEMMA NextLow == Typed /\ FeedInv /\ TurnInv /\ NamedInv /\ LowInv /\ [Next]_vars => LowInv'
<1> SUFFICES ASSUME Typed, FeedInv, TurnInv, NamedInv, LowInv, [Next]_vars PROVE LowInv'
  OBVIOUS
<1>1. ASSUME NEW k \in Nat, Low(k) PROVE Low(k)'
  BY <1>1, LowKept
<1>2. ASSUME NEW s \in Ids PROVE \E k \in Nat : sidebar'[s].n = k /\ Low(k)
  <2>1. CASE sidebar'[s] = sidebar[s]
    BY <2>1, ShownFacts DEF LowInv
  <2>2. CASE sidebar'[s] = Nothing
    BY <2>2, ZeroLow DEF Nothing
  <2>3. ASSUME NEW u \in updates, sidebar'[s] = [window |-> u.window, n |-> u.n] PROVE \E k \in Nat : sidebar'[s].n = k /\ Low(k)
    <3>1. u \in Prompt /\ u.n \in Nat
      BY HandFacts
    <3>2. QED BY <2>3, <3>1 DEF LowInv
  <2>4. ASSUME current \in Providers, NEW i \in 1 .. Len(notes[current]), notes[current][i] \in Waiting,
               sidebar'[s] = [window |-> notes[current][i].window, n |-> notes[current][i].n]
        PROVE  \E k \in Nat : sidebar'[s].n = k /\ Low(k)
    <3>1. notes[current][i].n \in Nat
      BY <2>4, HandFacts
    <3>2. Low(notes[current][i].n)
      BY <2>4, NotesLow
    <3>3. QED BY <2>4, <3>1, <3>2
  <2>5. QED BY <2>1, <2>2, <2>3, <2>4, ShownNext
<1>3. ASSUME NEW v \in updates' \cup ToSet(local') PROVE \E k \in Nat : v.n = k /\ Low(k)'
  <2>1. ASSUME NEW u \in updates \cup ToSet(local), v.n = u.n PROVE \E k \in Nat : v.n = k /\ Low(k)'
    <3>1. u \in Prompt /\ u.n \in Nat /\ Low(u.n)
      BY HandFacts DEF LowInv
    <3>2. QED BY <1>1, <2>1, <3>1
  <2>2. ASSUME NEW p \in Providers, Consume(p), 1 \in 1 .. Len(wire[p]), wire[p][1].kind # "sync", v.n = wire[p][1].n
        PROVE  \E k \in Nat : v.n = k /\ Low(k)'
    <3>1. wire[p][1].n \in Nat
      BY <2>2, ShownFacts
    <3>2. ASSUME NEW k \in Nat, k = wire[p][1].n PROVE Low(k)'
      BY <2>2, <3>2, HeadLow
    <3>3. QED BY <2>2, <3>1, <3>2
  <2>3. v \in Waiting'
    BY DEF Waiting
  <2>4. CASE v \in Waiting
    BY <2>1, <2>2, <2>4, LoopNext
  <2>5. CASE v \notin Waiting
    BY <2>1, <2>2, <2>3, <2>5, WaitingNext
  <2>6. QED BY <2>4, <2>5
<1>4. \A s \in Ids : Low(sidebar[s].n)'
  <2>1. ASSUME NEW s \in Ids PROVE Low(sidebar[s].n)'
    <3>1. PICK k \in Nat : sidebar'[s].n = k /\ Low(k)
      BY <1>2
    <3>2. Low(k)'
      BY <1>1, <3>1
    <3>3. QED BY <3>1, <3>2 DEF Low
  <2>2. QED BY <2>1
<1>5. \A u \in updates' \cup ToSet(local') : Low(u.n)'
  <2>1. ASSUME NEW u \in updates' \cup ToSet(local') PROVE Low(u.n)'
    <3>1. PICK k \in Nat : u.n = k /\ Low(k)'
      BY <1>3
    <3>2. QED BY <3>1 DEF Low
  <2>2. QED BY <2>1
<1>6. QED BY <1>4, <1>5 DEF LowInv

\* Every step keeps what waits for its own session and younger than what is
\* shown, or notes that it no longer is.
LEMMA NextWait == Typed /\ TurnInv /\ NamedInv /\ LowInv /\ WaitInv /\ [Next]_vars => WaitInv'
<1> SUFFICES ASSUME Typed, TurnInv, NamedInv, LowInv, WaitInv, [Next]_vars PROVE WaitInv'
  OBVIOUS
<1>1. Typed'
  BY NextTyped
<1>2. (strayed => strayed') /\ overtaken \subseteq overtaken'
  BY StrayedKept
<1>3. current' =< 1 => current =< 1
  BY CurrentKept
<1>4. ASSUME NEW v \in Waiting', v.mirror \in Ids, v \in Waiting PROVE Fit(v)'
  <2>1. Fit(v)
    BY <1>4 DEF WaitInv
  <2>2. CASE sidebar'[v.mirror] = sidebar[v.mirror]
    BY <1>2, <1>3, <2>1, <2>2 DEF Fit
  <2>3. CASE sidebar'[v.mirror] = Nothing
    <3>1. v.n \in Nat \ {0}
      BY <1>4, HandFacts
    <3>2. sidebar'[v.mirror].n < v.n
      BY <2>3, <3>1 DEF Nothing
    <3>3. QED BY <1>2, <2>1, <3>2 DEF Fit
  <2>4. CASE PendingNotifications \/ \E u \in updates : ApplyUpdate(u)
    <3>1. overtaken' = overtaken \cup Outdated'
      BY <2>4 DEF PendingNotifications, Drain, ApplyUpdate
    <3>2. sidebar'[v.mirror].n \in Nat /\ v.n \in Nat
      <4>1. sidebar'[v.mirror] \in Shown
        BY <1>1, <1>4 DEF Typed, GuiTypes
      <4>2. QED BY <1>4, <4>1, HandFacts, ConstantsAssumption DEF Shown
    <3>3. v.n =< sidebar'[v.mirror].n => v.n \in Outdated'
      BY <1>4 DEF Outdated
    <3>4. sidebar'[v.mirror].n < v.n \/ v.n \in overtaken'
      BY <3>1, <3>2, <3>3
    <3>5. QED BY <1>2, <2>1, <3>4 DEF Fit
  <2>5. QED BY <1>4, <2>2, <2>3, <2>4, ShownNext
<1>5. ASSUME NEW v \in Waiting', v.mirror \in Ids, v \notin Waiting PROVE Fit(v)'
  <2>1. PICK p \in Providers :
              /\ Consume(p) /\ wire[p] # <<>> /\ 1 \in 1 .. Len(wire[p]) /\ wire[p][1].kind # "sync" /\ v.n = wire[p][1].n
              /\ v.mirror \in {NoId, v.window} \/ strayed
    BY <1>5, WaitingNext, ConstantsAssumption
  <2>2. UNCHANGED <<sidebar, strayed, current>>
    BY <2>1 DEF Consume
  <2>3. current =< 1 => sidebar[v.mirror].n < v.n
    BY <1>5, <2>1 DEF LowInv, Low, WireAbove
  <2>4. QED BY <1>5, <2>1, <2>2, <2>3, ConstantsAssumption DEF Fit
<1>6. QED BY <1>4, <1>5 DEF WaitInv

\* At first nothing is shown and nothing is on its way.
LEMMA InitShown == Init => TurnInv /\ NamedInv /\ LowInv /\ WaitInv
<1> SUFFICES ASSUME Init PROVE TurnInv /\ NamedInv /\ LowInv /\ WaitInv
  OBVIOUS
<1>1. \A p \in Providers : wire[p] = <<>> /\ sub[p] = <<>> /\ step[p] = "off" /\ notes[p] = <<>>
  BY DEF Init
<1>2. \A s \in Ids : sidebar[s].n = 0
  BY DEF Init, Nothing
<1>3. published = 0 /\ current = 0 /\ updates = {} /\ local = <<>>
  BY DEF Init
<1>4. TurnInv /\ NamedInv
  BY <1>1, <1>3 DEF TurnInv, NamedInv
<1>5. ToSet(<<>>) = {}
  BY DEF ToSet
<1>6. LowInv
  BY <1>1, <1>2, <1>3, <1>5 DEF LowInv, Low, WireAbove, Above
<1>7. WaitInv
  BY <1>1, <1>3, <1>5 DEF WaitInv, Waiting
<1>8. QED BY <1>4, <1>6, <1>7

-----------------------------------------------------------------------------
(* The theorems of the cache and the sidebar.                              *)

\* What every reachable state satisfies.
LEMMA Invariants == Spec => [](Typed /\ FeedInv /\ TurnInv /\ NamedInv /\ LowInv /\ WaitInv)
<1>1. Init => Typed /\ FeedInv /\ TurnInv /\ NamedInv /\ LowInv /\ WaitInv
  BY InitTyped, InitFeed, InitShown
<1>2. Typed /\ FeedInv /\ TurnInv /\ NamedInv /\ LowInv /\ WaitInv /\ [Next]_vars
      => (Typed /\ FeedInv /\ TurnInv /\ NamedInv /\ LowInv /\ WaitInv)'
  BY NextTyped, NextFeed, NextTurn, NextNamed, NextLow, NextWait DEF Typed, BoundTypes
<1>3. QED BY <1>1, <1>2, PTL DEF Spec

\* For any sessions, connections, callers and bounds every variable keeps its
\* type: the subscriptions and the wire keep their limits.
THEOREM TypeCorrect == Spec => []TypeOK
<1>1. Typed => TypeOK
  BY DEF Typed, DaemonTypes, StreamTypes, PipeTypes, CacheTypes, CallTypes, GuiTypes, LoopTypes, BoundTypes, TypeOK
<1>2. QED BY <1>1, Invariants, PTL

\* For any sessions, calls, lists and changes on the host: a session whose
\* launch a provider was answered stays in its cache while the daemon has it,
\* unless the launch crossed a list on its way or the answer of a delete.
THEOREM CreatedAreCached == Spec => []CreatedStaysCached
<1>1. Init => Typed /\ StoreInv /\ ListInv /\ MadeInv
  BY InitTyped, InitMade
<1>2. Typed /\ StoreInv /\ ListInv /\ MadeInv /\ [Next]_vars => (Typed /\ StoreInv /\ ListInv /\ MadeInv)'
  BY NextTyped, NextStore, NextList, NextMade
<1>3. MadeInv => CreatedStaysCached
  BY DEF MadeInv, CreatedStaysCached
<1>4. QED BY <1>1, <1>2, <1>3, PTL DEF Spec

\* For any sessions, events, calls and order of the GUI's updates: until the
\* host is connected again and while every event belongs to a session, the
\* sidebar shows what is of the session itself, and something older than
\* before only if both waited in the TUI.
THEOREM SidebarIsFollowed == Spec => SidebarFollows
<1> DEFINE Follows ==
      (~strayed' /\ current =< 1) =>
        \A s \in Ids : sidebar'[s] \notin {sidebar[s], Nothing} =>
          /\ sidebar'[s].window = s
          /\ sidebar'[s].n > sidebar[s].n \/ sidebar'[s].n \in overtaken
<1>1. Typed /\ FeedInv /\ TurnInv /\ NamedInv /\ LowInv /\ WaitInv /\ [Next]_vars => [Follows]_vars
  <2> SUFFICES ASSUME Typed, WaitInv, [Next]_vars, ~strayed', current =< 1,
                      NEW s \in Ids, sidebar'[s] \notin {sidebar[s], Nothing}
               PROVE  sidebar'[s].window = s /\ (sidebar'[s].n > sidebar[s].n \/ sidebar'[s].n \in overtaken)
    OBVIOUS
  <2>1. PICK v \in Waiting : v.mirror = s /\ sidebar'[s] = [window |-> v.window, n |-> v.n]
    <3>1. updates \subseteq Waiting
      BY DEF Waiting
    <3>2. QED BY <3>1, ShownNext
  <2>2. ~strayed
    BY StrayedKept
  <2>3. Fit(v)
    BY <2>1 DEF WaitInv
  <2>4. sidebar[s].n \in Nat /\ v.n \in Nat
    BY ShownFacts, HandFacts
  <2>5. QED BY <2>1, <2>2, <2>3, <2>4 DEF Fit
<1>2. Spec => [][Follows]_vars
  BY <1>1, Invariants, PTL DEF Spec
<1>3. QED BY <1>2 DEF SidebarFollows
==============================================================================
