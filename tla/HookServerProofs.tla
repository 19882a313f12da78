--------------------------- MODULE HookServerProofs ---------------------------
(***************************************************************************)
(* The proofs about HookServer: for any windows, turns, tools, buffers and *)
(* disturbances, every variable keeps its type and a hook is in one place  *)
(* at most between its request and the answer to its prompt; when nothing  *)
(* disturbs, a prompt is shown under its window and its choice answers it. *)
(* And about ServerDiscovery: for any processes, ports, crashes and        *)
(* launches, hooks and the command line agree on a server, and one that    *)
(* serves can be found.                                                    *)
(***************************************************************************)
EXTENDS HookServer, ServerDiscovery, SequenceTheorems, FiniteSetTheorems, TLAPS

Busy == {w \in Windows : claude[w] # "idle"}
Checking == {w \in Windows : claude[w] = "checking"}

\* Each turn posts two hooks, each tool at most two; a TUI that has ended can
\* be started again.
CountInv ==
  /\ hooks + Cardinality(Busy) + Cardinality(Checking) =< 2 * turns + 2 * tools
  /\ tools =< MaxTools /\ turns =< MaxTurns
  /\ ~subscribed => restarts < MaxRestarts

\* A handler that is past resolving has a window, unless it is that of Stop.
RequestInv ==
  \A r \in requests :
    /\ r.at = "state" => r.kind \in {"tool_info", "permission"}
    /\ r.at \in {"check", "enqueue"} => r.kind = "permission"
    /\ r.at # "resolve" /\ r.kind # "stop" => r.window \in Windows

TypeInv == TypeOK /\ CountInv /\ RequestInv

-----------------------------------------------------------------------------
(* Types.                                                                  *)

\* The bounds of an environment.
LEMMA Bounds ==
  ASSUME TypeOK
  PROVE  /\ Buffer \in Nat /\ MaxTurns \in Nat /\ MaxTools \in Nat /\ MaxRestarts \in Nat /\ MaxHooks \in Nat
         /\ MaxHooks = 2 * MaxTurns + 2 * MaxTools
<1>1. env \in Environment
  BY ConstantsAssumption DEF TypeOK
<1> QED BY <1>1 DEF Environment, Buffer, MaxTurns, MaxTools, MaxRestarts, MaxHooks

\* Posting a hook adds its request.
LEMMA PostTypes ==
  ASSUME TypeInv, NEW w \in Windows, NEW kind \in {"tool_info", "permission", "stop", "prompt"}, NEW tool \in Tool,
         Post(w, kind, tool), hooks < MaxHooks, env' = env
  PROVE  requests' \in SUBSET Request' /\ hooks' \in 0 .. MaxHooks' /\ RequestInv' /\ hooks' = hooks + 1
<1>1. hooks + 1 \in 1 .. MaxHooks /\ MaxHooks \in Nat
  BY Bounds DEF TypeInv, TypeOK
<1>2. Request' = Request /\ MaxHooks' = MaxHooks
  BY DEF Request, MaxHooks, MaxTurns, MaxTools, Tool
<1> DEFINE r == [n |-> hooks + 1, kind |-> kind, from |-> w, tool |-> tool, at |-> "resolve", window |-> NoWindow]
<1>3. r \in Request /\ r.at = "resolve"
  BY <1>1 DEF Request, Places
<1> HIDE DEF r
<1>4. requests' = requests \cup {r} /\ hooks' = hooks + 1
  BY DEF Post, r
<1>5. requests' \in SUBSET Request' /\ hooks' \in 0 .. MaxHooks'
  BY <1>1, <1>2, <1>3, <1>4 DEF TypeInv, TypeOK
<1>6. RequestInv'
  BY <1>3, <1>4 DEF TypeInv, RequestInv
<1> QED BY <1>4, <1>5, <1>6

\* How far the Claudes are from their next hooks.
LEMMA Counted ==
  ASSUME TypeOK
  PROVE  /\ IsFiniteSet(Busy) /\ Cardinality(Busy) \in Nat
         /\ IsFiniteSet(Checking) /\ Cardinality(Checking) \in Nat
         /\ \A w \in Busy : Cardinality(Busy) > 0 /\ Cardinality(Busy \ {w}) = Cardinality(Busy) - 1
         /\ \A w \in Checking : Cardinality(Checking) > 0 /\ Cardinality(Checking \ {w}) = Cardinality(Checking) - 1
         /\ \A w \in Windows \ Busy : Cardinality(Busy \cup {w}) = Cardinality(Busy) + 1
         /\ \A w \in Windows \ Checking : Cardinality(Checking \cup {w}) = Cardinality(Checking) + 1
<1>1. Busy \subseteq Windows /\ Checking \subseteq Windows
  BY DEF Busy, Checking
<1>2. IsFiniteSet(Busy) /\ IsFiniteSet(Checking)
  BY <1>1, ConstantsAssumption, FS_Subset
<1>3. Cardinality(Busy) \in Nat /\ Cardinality(Checking) \in Nat
  BY <1>2, FS_CardinalityType
<1>4. ASSUME NEW S, IsFiniteSet(S), Cardinality(S) \in Nat
      PROVE  /\ \A w \in S : Cardinality(S) > 0 /\ Cardinality(S \ {w}) = Cardinality(S) - 1
             /\ \A w : w \notin S => Cardinality(S \cup {w}) = Cardinality(S) + 1
  <2>1. \A w \in S : S # {}
    OBVIOUS
  <2>2. S # {} => Cardinality(S) # 0
    BY <1>4, FS_EmptySet
  <2> QED BY <1>4, <2>1, <2>2, FS_RemoveElement, FS_AddElement
<1> QED BY <1>2, <1>3, <1>4

\* What a Claude does keeps the bounds of its hooks.
LEMMA ClaudeTypes ==
  ASSUME TypeInv, NEW w \in Windows, Claude(w), env' = env
  PROVE  TypeInv'
<1> DEFINE B == Cardinality(Busy)
           C == Cardinality(Checking)
<1>1. /\ Buffer' = Buffer /\ MaxTurns' = MaxTurns /\ MaxTools' = MaxTools /\ MaxRestarts' = MaxRestarts
      /\ MaxHooks' = MaxHooks /\ Tool' = Tool /\ Event' = Event /\ Request' = Request
  BY DEF Buffer, MaxTurns, MaxTools, MaxRestarts, MaxHooks, Tool, Event, Request
<1>2. /\ MaxTurns \in Nat /\ MaxTools \in Nat /\ MaxHooks = 2 * MaxTurns + 2 * MaxTools
      /\ hooks \in Nat /\ tools \in Nat /\ turns \in Nat /\ tools =< MaxTools /\ turns =< MaxTurns
      /\ hooks + B + C =< 2 * turns + 2 * tools /\ B \in Nat /\ C \in Nat
      /\ (~subscribed => restarts < MaxRestarts)
  <2>1. B \in Nat /\ C \in Nat
    BY Counted DEF TypeInv
  <2>2. MaxTurns \in Nat /\ MaxTools \in Nat /\ MaxHooks = 2 * MaxTurns + 2 * MaxTools /\ MaxHooks \in Nat
    BY Bounds DEF TypeInv
  <2>3. hooks \in 0 .. MaxHooks /\ tools \in 0 .. MaxTools /\ turns \in 0 .. MaxTurns
    BY DEF TypeInv, TypeOK, Tool
  <2> HIDE DEF B, C
  <2>4. hooks + B + C =< 2 * turns + 2 * tools
    BY DEF TypeInv, CountInv, B, C
  <2>5. ~subscribed => restarts < MaxRestarts
    BY DEF TypeInv, CountInv
  <2> QED BY <2>1, <2>2, <2>3, <2>4, <2>5
<1>3. claude \in [Windows -> {"idle", "running", "checking", "asking"}]
  BY DEF TypeInv, TypeOK
<1> HIDE DEF B, C
<1> DEFINE Rest ==
      UNCHANGED <<cached, pending, activity, channel, subscribed, queue, updates, shown, popups, full, choices, restarts>>
\* The parts every step keeps.
<1>4. ASSUME NEW kind \in {"tool_info", "permission", "stop", "prompt"}, NEW tool \in Tool, NEW l \in {"idle", "running", "checking", "asking"},
             Post(w, kind, tool), hooks < MaxHooks, claude' = [claude EXCEPT ![w] = l], Rest,
             using' \in [Windows -> Tool], asking' \in [Windows -> 0 .. MaxHooks], tools' \in 0 .. MaxTools, turns' \in 0 .. MaxTurns
      PROVE  TypeOK' /\ RequestInv'
  <2>1. requests' \in SUBSET Request' /\ hooks' \in 0 .. MaxHooks' /\ RequestInv'
    BY <1>4, PostTypes
  <2>2. claude' \in [Windows -> {"idle", "running", "checking", "asking"}]
    BY <1>3, <1>4
  <2>3. TypeOK
    BY DEF TypeInv
  <2> QED BY <2>1, <2>2, <2>3, <1>1, <1>4 DEF TypeOK, Tool
<1>5. CASE Submit(w)
  <2>1. /\ claude[w] = "idle" /\ turns < MaxTurns /\ turns' = turns + 1 /\ claude' = [claude EXCEPT ![w] = "running"]
        /\ Post(w, "prompt", 0) /\ Rest /\ UNCHANGED <<using, asking, tools>>
    BY <1>5 DEF Submit, tui
  <2>2. Busy' = Busy \cup {w} /\ Checking' = Checking /\ w \in Windows \ Busy
    BY <2>1, <1>3 DEF Busy, Checking
  <2>3. Cardinality(Busy') = B + 1 /\ Cardinality(Checking') = C
    BY <2>2, Counted DEF TypeInv, B, C
  <2>4. hooks < MaxHooks /\ hooks' = hooks + 1 /\ 0 \in Tool
    BY <1>2, <2>1 DEF Post, Tool
  <2>5. CountInv'
    BY <1>1, <1>2, <2>1, <2>3, <2>4 DEF CountInv
  <2>6. TypeOK' /\ RequestInv'
    <3>1. using' \in [Windows -> Tool] /\ asking' \in [Windows -> 0 .. MaxHooks] /\ tools' \in 0 .. MaxTools /\ turns' \in 0 .. MaxTurns
      BY <2>1, <1>2 DEF TypeInv, TypeOK
    <3> QED BY <3>1, <2>1, <2>4, <1>4
  <2> QED BY <2>5, <2>6 DEF TypeInv
<1>6. CASE UseTool(w)
  <2>1. /\ claude[w] = "running" /\ tools < MaxTools /\ tools' = tools + 1 /\ claude' = [claude EXCEPT ![w] = "checking"]
        /\ using' = [using EXCEPT ![w] = tools + 1]
        /\ Post(w, "tool_info", tools + 1) /\ Rest /\ UNCHANGED <<asking, turns>>
    BY <1>6 DEF UseTool, tui
  <2>2. Busy' = Busy /\ Checking' = Checking \cup {w} /\ w \in Windows \ Checking
    BY <2>1, <1>3 DEF Busy, Checking
  <2>3. Cardinality(Busy') = B /\ Cardinality(Checking') = C + 1
    BY <2>2, Counted DEF TypeInv, B, C
  <2>4. hooks < MaxHooks /\ hooks' = hooks + 1 /\ tools + 1 \in Tool
    BY <1>2, <2>1 DEF Post, Tool
  <2>5. CountInv'
    BY <1>1, <1>2, <2>1, <2>3, <2>4 DEF CountInv
  <2>6. using' \in [Windows -> Tool]
    BY <2>1, <2>4 DEF TypeInv, TypeOK
  <2>7. TypeOK' /\ RequestInv'
    <3>1. asking' \in [Windows -> 0 .. MaxHooks] /\ tools' \in 0 .. MaxTools /\ turns' \in 0 .. MaxTurns
      BY <2>1, <1>2 DEF TypeInv, TypeOK
    <3> QED BY <3>1, <2>1, <2>4, <2>6, <1>4
  <2> QED BY <2>5, <2>7 DEF TypeInv
<1>7. CASE Allow(w)
  <2>1. /\ claude[w] = "checking" /\ claude' = [claude EXCEPT ![w] = "running"]
        /\ Rest /\ UNCHANGED <<using, asking, tools, turns, requests, hooks>>
    BY <1>7 DEF Allow, tui, server
  <2>2. Busy' = Busy /\ Checking' = Checking \ {w} /\ w \in Checking
    BY <2>1, <1>3 DEF Busy, Checking
  <2>3. Cardinality(Busy') = B /\ Cardinality(Checking') = C - 1
    BY <2>2, Counted DEF TypeInv, B, C
  <2>4. CountInv'
    BY <1>1, <1>2, <2>1, <2>3 DEF CountInv
  <2>5. claude' \in [Windows -> {"idle", "running", "checking", "asking"}]
    BY <2>1, <1>3
  <2>6. TypeOK' /\ RequestInv'
    BY <2>1, <2>5, <1>1 DEF TypeInv, TypeOK, RequestInv
  <2> QED BY <2>4, <2>6 DEF TypeInv
<1>8. CASE Ask(w)
  <2>1. /\ claude[w] = "checking" /\ claude' = [claude EXCEPT ![w] = "asking"]
        /\ asking' = [asking EXCEPT ![w] = hooks + 1]
        /\ Post(w, "permission", using[w]) /\ Rest /\ UNCHANGED <<using, tools, turns>>
    BY <1>8 DEF Ask, tui
  <2>2. Busy' = Busy /\ Checking' = Checking \ {w} /\ w \in Checking
    BY <2>1, <1>3 DEF Busy, Checking
  <2>3. Cardinality(Busy') = B /\ Cardinality(Checking') = C - 1 /\ C > 0
    BY <2>2, Counted DEF TypeInv, B, C
  <2>4. hooks < MaxHooks /\ hooks' = hooks + 1 /\ hooks + 1 \in 0 .. MaxHooks
    BY <1>2, <2>1, <2>3 DEF Post
  <2>5. CountInv'
    BY <1>1, <1>2, <2>1, <2>3, <2>4 DEF CountInv
  <2>6. asking' \in [Windows -> 0 .. MaxHooks] /\ using[w] \in Tool
    BY <2>1, <2>4 DEF TypeInv, TypeOK
  <2>7. TypeOK' /\ RequestInv'
    <3>1. using' \in [Windows -> Tool] /\ tools' \in 0 .. MaxTools /\ turns' \in 0 .. MaxTurns
      BY <2>1, <1>2 DEF TypeInv, TypeOK
    <3> QED BY <3>1, <2>1, <2>4, <2>6, <1>4
  <2> QED BY <2>5, <2>7 DEF TypeInv
<1>9. CASE Finish(w)
  <2>1. /\ claude[w] = "running" /\ claude' = [claude EXCEPT ![w] = "idle"]
        /\ Post(w, "stop", 0) /\ Rest /\ UNCHANGED <<using, asking, tools, turns>>
    BY <1>9 DEF Finish, tui
  <2>2. Busy' = Busy \ {w} /\ Checking' = Checking /\ w \in Busy
    BY <2>1, <1>3 DEF Busy, Checking
  <2>3. Cardinality(Busy') = B - 1 /\ Cardinality(Checking') = C /\ B > 0
    BY <2>2, Counted DEF TypeInv, B, C
  <2>4. hooks < MaxHooks /\ hooks' = hooks + 1 /\ 0 \in Tool
    BY <1>2, <2>1, <2>3 DEF Post, Tool
  <2>5. CountInv'
    BY <1>1, <1>2, <2>1, <2>3, <2>4 DEF CountInv
  <2>6. TypeOK' /\ RequestInv'
    <3>1. using' \in [Windows -> Tool] /\ asking' \in [Windows -> 0 .. MaxHooks] /\ tools' \in 0 .. MaxTools /\ turns' \in 0 .. MaxTurns
      BY <2>1, <1>2 DEF TypeInv, TypeOK
    <3> QED BY <3>1, <2>1, <2>4, <1>4
  <2> QED BY <2>5, <2>6 DEF TypeInv
<1> QED BY <1>5, <1>6, <1>7, <1>8, <1>9 DEF Claude

\* Steps beside Claude's keep its bounds.
LEMMA CountKept ==
  ASSUME TypeInv, env' = env, UNCHANGED <<hooks, tools, turns>>,
         UNCHANGED <<subscribed, restarts>> \/ (~subscribed' => restarts' < MaxRestarts),
         claude' = claude \/ \E w : claude[w] = "asking" /\ claude' = [claude EXCEPT ![w] = "running"]
  PROVE  CountInv' /\ claude' \in [Windows -> {"idle", "running", "checking", "asking"}]
<1>1. claude \in [Windows -> {"idle", "running", "checking", "asking"}]
  BY DEF TypeInv, TypeOK
<1>2. Busy' = Busy /\ Checking' = Checking /\ claude' \in [Windows -> {"idle", "running", "checking", "asking"}]
  BY <1>1 DEF Busy, Checking
<1>3. MaxTurns' = MaxTurns /\ MaxTools' = MaxTools /\ MaxRestarts' = MaxRestarts
  BY DEF MaxTurns, MaxTools, MaxRestarts
<1> QED BY <1>2, <1>3 DEF TypeInv, CountInv

\* Types do not depend on the state, but for the environment.
LEMMA SameTypes ==
  ASSUME env' = env
  PROVE  /\ Buffer' = Buffer /\ MaxTurns' = MaxTurns /\ MaxTools' = MaxTools /\ MaxRestarts' = MaxRestarts
         /\ MaxHooks' = MaxHooks /\ Tool' = Tool /\ Event' = Event /\ Request' = Request
BY DEF Buffer, MaxTurns, MaxTools, MaxRestarts, MaxHooks, Tool, Event, Request

\* A handler's event is typed, and is for a popup if it is a prompt.
LEMMA EventTypes ==
  ASSUME NEW r \in Request
  PROVE  EventOf(r) \in Event
<1>1. State(r.kind) \in Activities
  BY DEF State, Activities
<1> QED BY <1>1, Zenon DEF EventOf, Event, Request

\* A step of a handler replaces its request or ends it.
LEMMA RequestTypes ==
  ASSUME TypeInv, env' = env, NEW r \in requests, NEW s \in Request,
         s.at = "state" => s.kind \in {"tool_info", "permission"},
         s.at \in {"check", "enqueue"} => s.kind = "permission",
         s.at # "resolve" /\ s.kind # "stop" => s.window \in Windows,
         Replace(r, s) \/ Done(r)
  PROVE  requests' \in SUBSET Request' /\ RequestInv'
<1>1. requests' \subseteq requests \cup {s}
  BY DEF Replace, Done
<1>2. requests' \in SUBSET Request'
  BY <1>1, SameTypes DEF TypeInv, TypeOK
<1>3. RequestInv'
  BY <1>1 DEF TypeInv, RequestInv
<1> QED BY <1>2, <1>3

\* A step of a handler keeps the types.
LEMMA HandlerTypes ==
  ASSUME TypeInv, NEW r \in requests, Handler(r), env' = env
  PROVE  TypeInv'
<1>1. r \in Request /\ TypeOK /\ CountInv /\ RequestInv
  BY DEF TypeInv, TypeOK
<1>2. /\ r.at = "state" => r.kind \in {"tool_info", "permission"}
      /\ r.at \in {"check", "enqueue"} => r.kind = "permission"
      /\ r.at # "resolve" /\ r.kind # "stop" => r.window \in Windows
  BY <1>1 DEF RequestInv
\* The record a handler goes on with.
<1>3. ASSUME NEW a \in {"resolve", "state", "activity", "check", "publish", "enqueue"}, NEW w \in Places, NEW t \in Tool
      PROVE  LET s == [r EXCEPT !.at = a, !.window = w, !.tool = t]
             IN s \in Request /\ s.at = a /\ s.window = w /\ s.kind = r.kind /\ s.from = r.from /\ s.n = r.n /\ s.tool = t
  BY <1>1, <1>3 DEF Request
<1>4. CASE Resolve(r)
  <2>1. PICK w \in Places :
          /\ cached' = [cached EXCEPT ![r.from] = w]
          /\ IF w = NoWindow /\ r.kind # "stop" THEN Done(r)
             ELSE Replace(r, [r EXCEPT !.window = w, !.at = IF r.kind \in {"tool_info", "permission"} THEN "state" ELSE "activity"])
    BY <1>4 DEF Resolve
  <2> DEFINE a == IF r.kind \in {"tool_info", "permission"} THEN "state" ELSE "activity"
             s == [r EXCEPT !.window = w, !.at = a]
  <2>2. s \in Request /\ s.at = a /\ s.window = w /\ s.kind = r.kind
    BY <1>1 DEF Request
  <2>3. requests' \in SUBSET Request' /\ RequestInv'
    <3>1. CASE w = NoWindow /\ r.kind # "stop"
      <4>1. Done(r)
        BY <2>1, <3>1
      <4> QED BY <4>1, <1>1, <1>2, RequestTypes
    <3>2. CASE ~(w = NoWindow /\ r.kind # "stop")
      <4>1. Replace(r, s)
        BY <2>1, <3>2
      <4>2. r.kind # "stop" => w \in Windows
        BY <3>2 DEF Places
      <4>3. a \in {"state", "activity"} /\ (a = "state" => r.kind \in {"tool_info", "permission"})
        OBVIOUS
      <4> HIDE DEF a, s
      <4> QED BY <4>1, <4>2, <4>3, <2>2, RequestTypes
    <3> QED BY <3>1, <3>2
  <2>4. cached' \in [Windows -> Places]
    BY <2>1, <1>1 DEF TypeOK
  <2>5. UNCHANGED <<claude, using, asking, tools, turns, pending, activity, channel, subscribed, queue, updates, shown, popups, full, choices, hooks, restarts>>
    BY <1>4 DEF Resolve, external, tui
  <2>6. CountInv'
    BY <2>5, CountKept
  <2> HIDE DEF a, s
  <2>7. TypeOK'
    BY <2>3, <2>4, <2>5, <1>1, SameTypes DEF TypeOK
  <2> QED BY <2>3, <2>6, <2>7 DEF TypeInv
<1>5. CASE SetPending(r)
  <2> DEFINE e == [window |-> r.window, tool |-> r.tool]
             s == [r EXCEPT !.at = "activity"]
  <2>1. /\ r.at = "state" /\ r.kind = "tool_info" /\ pending' = Append(pending, e) /\ Replace(r, s)
        /\ UNCHANGED <<claude, using, asking, tools, turns, cached, activity, channel, subscribed, queue, updates, shown, popups, full, choices, hooks, restarts>>
    BY <1>5 DEF SetPending, external, tui
  <2>2. s \in Request /\ s.at = "activity" /\ s.window = r.window /\ s.kind = r.kind
    BY <1>1 DEF Request
  <2>3. e \in [window : Windows, tool : Tool]
    BY <2>1, <1>1, <1>2 DEF Request
  <2> HIDE DEF e, s
  <2>4. pending' \in Seq([window : Windows, tool : Tool])
    BY <2>1, <2>3, <1>1 DEF TypeOK
  <2>5. requests' \in SUBSET Request' /\ RequestInv'
    BY <2>1, <2>2, <1>2, RequestTypes
  <2>6. CountInv'
    BY <2>1, CountKept
  <2>7. TypeOK'
    BY <2>1, <2>4, <2>5, <1>1, SameTypes DEF TypeOK
  <2> QED BY <2>5, <2>6, <2>7 DEF TypeInv
<1>6. CASE GetPending(r)
  <2>1. /\ r.at = "state" /\ r.kind = "permission"
        /\ UNCHANGED <<claude, using, asking, tools, turns, cached, activity, channel, subscribed, queue, updates, shown, popups, full, choices, hooks, restarts>>
    BY <1>6 DEF GetPending, external, tui
  <2>2. CountInv'
    BY <2>1, CountKept
  <2>3. pending' \in Seq([window : Windows, tool : Tool]) /\ requests' \in SUBSET Request' /\ RequestInv'
    <3>1. ASSUME NEW i \in DOMAIN pending,
                 pending' = SubSeq(pending, 1, i - 1) \o SubSeq(pending, i + 1, Len(pending)),
                 Replace(r, [r EXCEPT !.tool = pending[i].tool, !.at = "activity"])
          PROVE  pending' \in Seq([window : Windows, tool : Tool]) /\ requests' \in SUBSET Request' /\ RequestInv'
      <4> DEFINE s == [r EXCEPT !.tool = pending[i].tool, !.at = "activity"]
      <4> DEFINE P == [window : Windows, tool : Tool]
      <4>0. pending \in Seq(P)
        BY <1>1 DEF TypeOK
      <4>1. i \in 1 .. Len(pending) /\ pending[i] \in P
        <5> HIDE DEF P
        <5> QED BY <4>0
      <4>2. pending[i].tool \in Tool
        BY <4>1
      <4>3. s \in Request /\ s.at = "activity" /\ s.window = r.window /\ s.kind = r.kind
        BY <4>2, <1>1 DEF Request
      <4>4. SubSeq(pending, 1, i - 1) \in Seq(P) /\ SubSeq(pending, i + 1, Len(pending)) \in Seq(P)
        <5> HIDE DEF P
        <5> QED BY <4>0, <4>1
      <4>5. pending' \in Seq(P)
        <5> HIDE DEF P
        <5> QED BY <3>1, <4>4, ConcatProperties
      <4>6. Replace(r, s)
        BY <3>1
      <4> HIDE DEF s
      <4>7. requests' \in SUBSET Request' /\ RequestInv'
        BY <4>3, <4>6, <1>2, <2>1, RequestTypes
      <4> QED BY <4>5, <4>7
    <3>2. ASSUME Done(r), pending' = pending
          PROVE  pending' \in Seq([window : Windows, tool : Tool]) /\ requests' \in SUBSET Request' /\ RequestInv'
      <4>1. requests' \in SUBSET Request' /\ RequestInv'
        BY <3>2, <1>1, <1>2, RequestTypes
      <4> QED BY <3>2, <4>1, <1>1 DEF TypeOK
    <3> QED BY <3>1, <3>2, <1>6, Zenon DEF GetPending
  <2>4. TypeOK'
    BY <2>1, <2>3, <1>1, SameTypes DEF TypeOK
  <2> QED BY <2>2, <2>3, <2>4 DEF TypeInv
<1>7. CASE SetActivity(r)
  <2> DEFINE a == IF r.kind = "permission" THEN "check" ELSE "publish"
             s == [r EXCEPT !.at = a]
  <2>1. /\ r.at = "activity" /\ Replace(r, s)
        /\ activity' = [w \in Windows |-> IF w = r.window THEN State(r.kind) ELSE activity[w]]
        /\ UNCHANGED <<claude, using, asking, tools, turns, cached, pending, channel, subscribed, queue, updates, shown, popups, full, choices, hooks, restarts>>
    BY <1>7 DEF SetActivity, external, tui
  <2>2. s \in Request /\ s.at = a /\ s.window = r.window /\ s.kind = r.kind
    BY <1>1 DEF Request
  <2>3. a \in {"check", "publish"} /\ (a = "check" => r.kind = "permission")
    OBVIOUS
  <2> HIDE DEF a, s
  <2>4. requests' \in SUBSET Request' /\ RequestInv'
    BY <2>1, <2>2, <2>3, <1>2, RequestTypes
  <2>5. activity' \in [Windows -> Activities]
    <3>1. State(r.kind) \in Activities /\ activity \in [Windows -> Activities]
      BY <1>1 DEF State, Activities, TypeOK
    <3> QED BY <3>1, <2>1
  <2>6. CountInv'
    BY <2>1, CountKept
  <2>7. TypeOK'
    BY <2>1, <2>4, <2>5, <1>1, SameTypes DEF TypeOK
  <2> QED BY <2>4, <2>6, <2>7 DEF TypeInv
<1>8. CASE CheckSubscribers(r)
  <2> DEFINE a == IF subscribed THEN "publish" ELSE "enqueue"
             s == [r EXCEPT !.at = a]
  <2>1. /\ r.at = "check" /\ Replace(r, s)
        /\ UNCHANGED <<claude, using, asking, tools, turns, cached, pending, activity, channel, subscribed, queue, updates, shown, popups, full, choices, hooks, restarts>>
    BY <1>8 DEF CheckSubscribers, external, tui
  <2>2. s \in Request /\ s.at = a /\ s.window = r.window /\ s.kind = r.kind
    BY <1>1 DEF Request
  <2>3. a \in {"enqueue", "publish"}
    OBVIOUS
  <2> HIDE DEF a, s
  <2>4. requests' \in SUBSET Request' /\ RequestInv'
    BY <2>1, <2>2, <2>3, <1>2, RequestTypes
  <2>5. CountInv'
    BY <2>1, CountKept
  <2>6. TypeOK'
    BY <2>1, <2>4, <1>1, SameTypes DEF TypeOK
  <2> QED BY <2>4, <2>5, <2>6 DEF TypeInv
<1>9. CASE Publish(r)
  <2>1. /\ channel' = (IF subscribed /\ Len(channel) < Buffer THEN Append(channel, EventOf(r)) ELSE channel) /\ Done(r)
        /\ UNCHANGED <<claude, using, asking, tools, turns, cached, pending, activity, subscribed, queue, updates, shown, popups, full, choices, hooks, restarts>>
    BY <1>9 DEF Publish, external, tui
  <2>2. channel' \in Seq(Event) /\ Len(channel') =< Buffer
    <3>1. channel \in Seq(Event) /\ Len(channel) =< Buffer /\ Len(channel) \in Nat /\ Buffer \in Nat
      BY <1>1, Bounds DEF TypeOK
    <3>2. EventOf(r) \in Event
      BY <1>1, EventTypes
    <3> QED BY <3>1, <3>2, <2>1
  <2>3. requests' \in SUBSET Request' /\ RequestInv'
    BY <2>1, <1>1, <1>2, RequestTypes
  <2>4. CountInv'
    BY <2>1, CountKept
  <2>5. TypeOK'
    BY <2>1, <2>2, <2>3, <1>1, SameTypes DEF TypeOK
  <2> QED BY <2>3, <2>4, <2>5 DEF TypeInv
<1>10. CASE Enqueue(r)
  <2>1. /\ queue' = Append(queue, EventOf(r)) /\ Done(r)
        /\ UNCHANGED <<claude, using, asking, tools, turns, cached, pending, activity, channel, subscribed, updates, shown, popups, full, choices, hooks, restarts>>
    BY <1>10 DEF Enqueue, external, tui
  <2>2. queue' \in Seq(Event)
    BY <2>1, <1>1, EventTypes DEF TypeOK
  <2>3. requests' \in SUBSET Request' /\ RequestInv'
    BY <2>1, <1>1, <1>2, RequestTypes
  <2>4. CountInv'
    BY <2>1, CountKept
  <2>5. TypeOK'
    BY <2>1, <2>2, <2>3, <1>1, SameTypes DEF TypeOK
  <2> QED BY <2>3, <2>4, <2>5 DEF TypeInv
<1> QED BY <1>4, <1>5, <1>6, <1>7, <1>8, <1>9, <1>10 DEF Handler

\* What the user, the TUI and the surroundings do.
LEMMA TuiTypes ==
  ASSUME TypeInv, env' = env,
         \/ \E w \in Windows : AnswerInPane(w) \/ EnterFullscreen(w)
         \/ \E e \in updates : Apply(e)
         \/ \E p \in popups : Dismiss(p)
         \/ \E p \in choices : SendChoice(p)
         \/ Receive \/ ReadAll \/ PendingExpires \/ ExitFullscreen \/ Quit \/ Start
  PROVE  TypeInv'
<1>1. TypeOK /\ CountInv /\ RequestInv
  BY DEF TypeInv
<1>2. /\ claude \in [Windows -> {"idle", "running", "checking", "asking"}]
      /\ asking \in [Windows -> 0 .. MaxHooks] /\ shown \in [Windows -> Activities]
      /\ channel \in Seq(Event) /\ queue \in Seq(Event) /\ Len(channel) =< Buffer /\ Len(channel) \in Nat
      /\ updates \subseteq Event /\ popups \subseteq Event /\ choices \subseteq Event /\ full \in Places
      /\ MaxHooks \in Nat /\ Buffer \in Nat /\ MaxRestarts \in Nat /\ restarts \in 0 .. MaxRestarts
  <2>1. /\ claude \in [Windows -> {"idle", "running", "checking", "asking"}]
        /\ asking \in [Windows -> 0 .. MaxHooks] /\ shown \in [Windows -> Activities]
        /\ channel \in Seq(Event) /\ queue \in Seq(Event) /\ Len(channel) =< Buffer
        /\ updates \subseteq Event /\ popups \subseteq Event /\ choices \subseteq Event /\ full \in Places
        /\ restarts \in 0 .. MaxRestarts
    BY <1>1, Zenon DEF TypeOK
  <2>2. Len(channel) \in Nat
    BY <2>1, LenProperties
  <2>3. MaxHooks \in Nat /\ Buffer \in Nat /\ MaxRestarts \in Nat
    BY <1>1, Bounds
  <2> QED BY <2>1, <2>2, <2>3
<1>3. \A w : Answered(w) => (claude' = claude \/ (claude[w] = "asking" /\ claude' = [claude EXCEPT ![w] = "running"]))
                             /\ asking' \in [Windows -> 0 .. MaxHooks]
  BY <1>2 DEF Answered
<1>4. \A e \in Event : e.state \in Activities /\ e.window \in Places
  BY DEF Event
<1>5. CASE (\E w \in Windows : AnswerInPane(w)) \/ (\E p \in choices : SendChoice(p))
  <2>1. PICK w : Answered(w)
    BY <1>5 DEF AnswerInPane, SendChoice
  <2>2. /\ choices' \subseteq Event
        /\ UNCHANGED <<using, tools, turns, requests, cached, pending, activity, channel, subscribed, queue, updates, shown, popups, full, hooks, restarts>>
    BY <1>2, <1>5 DEF AnswerInPane, SendChoice, server, tui
  <2>3. CountInv' /\ claude' \in [Windows -> {"idle", "running", "checking", "asking"}]
    BY <2>1, <2>2, <1>3, CountKept
  <2>4. asking' \in [Windows -> 0 .. MaxHooks]
    BY <2>1, <1>3
  <2>5. TypeOK' /\ RequestInv'
    BY <2>2, <2>3, <2>4, <1>1, SameTypes DEF TypeOK, RequestInv
  <2> QED BY <2>3, <2>5 DEF TypeInv
<1>6. ASSUME UNCHANGED <<claude, using, asking, tools, turns, hooks, activity, restarts, requests, cached>>,
             pending' \in Seq([window : Windows, tool : Tool]), channel' \in Seq(Event), Len(channel') =< Buffer, subscribed' \in BOOLEAN,
             queue' \in Seq(Event), updates' \subseteq Event, shown' \in [Windows -> Activities],
             popups' \subseteq Event, full' \in Places, choices' \subseteq Event,
             subscribed' = subscribed \/ restarts < MaxRestarts
      PROVE  TypeInv'
  <2>1. CountInv'
    BY <1>6, CountKept
  <2>2. TypeOK' /\ RequestInv'
    BY <1>6, <1>1, SameTypes DEF TypeOK, RequestInv
  <2> QED BY <2>1, <2>2 DEF TypeInv
<1>7. pending \in Seq([window : Windows, tool : Tool]) /\ subscribed \in BOOLEAN
  BY <1>1 DEF TypeOK
<1>8. ASSUME NEW w \in Windows, EnterFullscreen(w) PROVE TypeInv'
  <2>1. shown' \in [Windows -> Activities]
    BY <1>2, <1>8 DEF EnterFullscreen, Activities
  <2>2. full' \in Places
    BY <1>8 DEF EnterFullscreen, Places
  <2>3. UNCHANGED <<claude, using, asking, tools, turns, hooks, activity, restarts, requests, cached, pending, channel, subscribed, queue, updates, popups, choices>>
    BY <1>8 DEF EnterFullscreen, external, server
  <2> QED BY <2>1, <2>2, <2>3, <1>2, <1>6, <1>7
<1>9. ASSUME NEW e \in updates, Apply(e) PROVE TypeInv'
  <2>1. e \in Event /\ e.state \in Activities
    BY <1>2, <1>4
  <2>2. shown' \in [Windows -> Activities]
    BY <1>2, <1>9, <2>1 DEF Apply
  <2>3. popups' \subseteq Event /\ updates' \subseteq Event
    BY <1>2, <1>9, <2>1 DEF Apply
  <2>4. UNCHANGED <<claude, using, asking, tools, turns, hooks, activity, restarts, requests, cached, pending, channel, subscribed, queue, full, choices>>
    BY <1>9 DEF Apply, external, server
  <2> QED BY <2>2, <2>3, <2>4, <1>2, <1>6, <1>7
<1>10. ASSUME NEW p \in popups, Dismiss(p) PROVE TypeInv'
  <2>1. shown' \in [Windows -> Activities]
    BY <1>2, <1>10 DEF Dismiss, Activities
  <2>2. popups' \subseteq Event /\ choices' \subseteq Event
    BY <1>2, <1>10 DEF Dismiss
  <2>3. UNCHANGED <<claude, using, asking, tools, turns, hooks, activity, restarts, requests, cached, pending, channel, subscribed, queue, updates, full>>
    BY <1>10 DEF Dismiss, external, server
  <2> QED BY <2>1, <2>2, <2>3, <1>2, <1>6, <1>7
<1>11. CASE Receive
  <2>1. /\ channel # <<>> /\ updates' = updates \cup {Head(channel)} /\ channel' = Tail(channel)
        /\ UNCHANGED <<claude, using, asking, tools, turns, hooks, activity, restarts, requests, cached, pending, subscribed, queue, shown, popups, full, choices>>
    BY <1>11 DEF Receive, external, server
  <2>2. Head(channel) \in Event /\ Tail(channel) \in Seq(Event) /\ Len(Tail(channel)) = Len(channel) - 1
    BY <2>1, <1>2, HeadTailProperties
  <2>3. Len(channel') =< Buffer /\ channel' \in Seq(Event)
    BY <2>1, <2>2, <1>2
  <2>4. updates' \subseteq Event
    BY <2>1, <2>2, <1>2
  <2> QED BY <2>1, <2>3, <2>4, <1>2, <1>6, <1>7
<1>12. CASE ReadAll
  <2>1. PICK k \in 0 .. Len(queue) :
          LET unseen == {queue[i] : i \in k + 1 .. Len(queue)}
          IN /\ shown' = [w \in Windows |-> IF \E e \in unseen : e.window = w THEN "NeedsInput" ELSE shown[w]]
             /\ popups' = popups \cup {e \in unseen : Visible(e)}
    BY <1>12 DEF ReadAll
  <2>2. /\ queue' = <<>>
        /\ UNCHANGED <<claude, using, asking, tools, turns, hooks, activity, restarts, requests, cached, pending, channel, subscribed, updates, full, choices>>
    BY <1>12 DEF ReadAll, external, server
  <2>3. \A i \in k + 1 .. Len(queue) : queue[i] \in Event
    BY <1>2, <2>1
  <2>4. popups' \subseteq Event
    BY <2>1, <2>3, <1>2
  <2>5. shown' \in [Windows -> Activities]
    BY <2>1, <1>2 DEF Activities
  <2>6. queue' \in Seq(Event)
    BY <2>2, EmptySeq
  <2> QED BY <2>2, <2>4, <2>5, <2>6, <1>2, <1>6, <1>7
<1>13. CASE PendingExpires
  <2>1. /\ pending # <<>> /\ pending' = Tail(pending)
        /\ UNCHANGED <<claude, using, asking, tools, turns, hooks, activity, restarts, requests, cached, channel, subscribed, queue, updates, shown, popups, full, choices>>
    BY <1>13 DEF PendingExpires, external, tui
  <2>2. pending' \in Seq([window : Windows, tool : Tool])
    BY <2>1, <1>7, HeadTailProperties
  <2> QED BY <2>1, <2>2, <1>2, <1>6, <1>7
<1>14. CASE ExitFullscreen
  <2>1. /\ full' = NoWindow
        /\ UNCHANGED <<claude, using, asking, tools, turns, hooks, activity, restarts, requests, cached, pending, channel, subscribed, queue, updates, shown, popups, choices>>
    BY <1>14 DEF ExitFullscreen, external, server
  <2> QED BY <2>1, <1>2, <1>6, <1>7 DEF Places
<1>15. CASE Quit
  <2>1. /\ subscribed' = FALSE /\ channel' = <<>> /\ updates' = {} /\ popups' = {} /\ full' = NoWindow /\ choices' = {}
        /\ shown' = [w \in Windows |-> "Unknown"]
        /\ UNCHANGED <<claude, using, asking, tools, turns, hooks, activity, restarts, requests, cached, pending, queue>>
    BY <1>15 DEF Quit, external, server
  <2>4. restarts < MaxRestarts
    BY <1>15 DEF Quit
  <2>2. channel' \in Seq(Event) /\ Len(channel') =< Buffer
    BY <2>1, <1>2, EmptySeq
  <2>3. shown' \in [Windows -> Activities] /\ full' \in Places
    BY <2>1 DEF Activities, Places
  <2> QED BY <2>1, <2>2, <2>3, <2>4, <1>2, <1>6, <1>7
<1>16. CASE Start
  <2>1. /\ restarts' = restarts + 1 /\ subscribed' = TRUE
        /\ requests' = {} /\ cached' = [w \in Windows |-> NoWindow] /\ pending' = <<>>
        /\ activity' = [w \in Windows |-> "Unknown"]
        /\ UNCHANGED <<claude, using, asking, tools, turns, hooks, channel, queue, updates, shown, popups, full, choices>>
    BY <1>16 DEF Start, external, tui
  <2>2. restarts' \in 0 .. MaxRestarts
    BY <1>1, <1>2, <1>16, <2>1 DEF Start, CountInv
  <2>3. cached' \in [Windows -> Places] /\ activity' \in [Windows -> Activities]
    BY <2>1 DEF Places, Activities
  <2>4. pending' \in Seq([window : Windows, tool : Tool])
    BY <2>1, EmptySeq
  <2>5. CountInv'
    BY <2>1, CountKept
  <2>6. TypeOK' /\ RequestInv'
    BY <2>1, <2>2, <2>3, <2>4, <1>1, SameTypes DEF TypeOK, RequestInv
  <2> QED BY <2>5, <2>6 DEF TypeInv
<1> QED BY <1>5, <1>8, <1>9, <1>10, <1>11, <1>12, <1>13, <1>14, <1>15, <1>16

\* The first state has the types.
LEMMA InitTypes == Init => TypeInv
<1> SUFFICES ASSUME Init PROVE TypeInv
  OBVIOUS
<1>1. env \in Environment
  BY ConstantsAssumption DEF Init
<1>2. Buffer \in Nat /\ MaxTurns \in Nat /\ MaxTools \in Nat /\ MaxRestarts \in Nat /\ MaxHooks \in Nat
  BY <1>1 DEF Environment, Buffer, MaxTurns, MaxTools, MaxRestarts, MaxHooks
<1>3. TypeOK
  <2>1. /\ claude \in [Windows -> {"idle", "running", "checking", "asking"}]
        /\ using \in [Windows -> Tool] /\ asking \in [Windows -> 0 .. MaxHooks] /\ cached \in [Windows -> Places]
    BY <1>2 DEF Init, Tool, Places
  <2>2. activity \in [Windows -> Activities] /\ shown \in [Windows -> Activities]
    BY DEF Init, Activities
  <2>3. /\ pending \in Seq([window : Windows, tool : Tool]) /\ channel \in Seq(Event) /\ queue \in Seq(Event)
        /\ Len(channel) =< Buffer
    BY <1>2, EmptySeq DEF Init
  <2>4. hooks \in 0 .. MaxHooks /\ tools \in Tool /\ turns \in 0 .. MaxTurns /\ restarts \in 0 .. MaxRestarts
    BY <1>2 DEF Init, Tool
  <2>5. env \in Environments /\ subscribed \in BOOLEAN /\ full \in Places
    BY DEF Init, Places
  <2>6. requests = {} /\ updates = {} /\ popups = {} /\ choices = {}
    BY DEF Init
  <2> QED BY <2>1, <2>2, <2>3, <2>4, <2>5, <2>6 DEF TypeOK
<1>4. CountInv
  <2>1. Busy = {} /\ Checking = {}
    BY DEF Init, Busy, Checking
  <2>2. Cardinality(Busy) = 0 /\ Cardinality(Checking) = 0
    BY <2>1, FS_EmptySet
  <2> QED BY <1>2, <2>2 DEF Init, CountInv
<1>5. RequestInv
  BY DEF Init, RequestInv
<1> QED BY <1>3, <1>4, <1>5 DEF TypeInv

\* Every step keeps the types.
LEMMA NextTypes == TypeInv /\ [Next]_<<env, vars>> => TypeInv'
<1> SUFFICES ASSUME TypeInv, [Next]_<<env, vars>> PROVE TypeInv'
  OBVIOUS
<1>1. CASE UNCHANGED <<env, vars>>
  <2>1. UNCHANGED <<hooks, tools, turns, claude, subscribed, restarts>> /\ env' = env
    BY <1>1 DEF vars, external
  <2>2. CountInv'
    BY <2>1, CountKept
  <2>3. TypeOK' /\ RequestInv'
    BY <1>1, SameTypes DEF TypeInv, TypeOK, RequestInv, vars, external, server, tui
  <2> QED BY <2>2, <2>3 DEF TypeInv
<1>2. CASE Next
  <2>1. env' = env
    BY <1>2 DEF Next
  <2>2. CASE \E w \in Windows : Claude(w)
    BY <2>1, <2>2, ClaudeTypes
  <2>3. CASE \E r \in requests : Handler(r)
    BY <2>1, <2>3, HandlerTypes
  <2>4. CASE \/ \E w \in Windows : AnswerInPane(w) \/ EnterFullscreen(w)
             \/ \E e \in updates : Apply(e)
             \/ \E p \in popups : Dismiss(p)
             \/ \E p \in choices : SendChoice(p)
             \/ Receive \/ ReadAll \/ PendingExpires \/ ExitFullscreen \/ Quit \/ Start
    BY <2>1, <2>4, TuiTypes, Zenon
  <2> QED BY <1>2, <2>2, <2>3, <2>4, Zenon DEF Next
<1> QED BY <1>1, <1>2

\* Every variable keeps its type: in particular the hooks are as few as the
\* turns and tools allow, and the buffer keeps its limit.
THEOREM TypeCorrect == Spec => []TypeOK
<1>1. TypeInv => TypeOK
  BY DEF TypeInv
<1> QED BY <1>1, InitTypes, NextTypes, PTL DEF Spec

-----------------------------------------------------------------------------
(* A hook is in one place.                                                 *)

Numbers(S) == {e.n : e \in S}
NumbersOf(s) == {s[i].n : i \in 1 .. Len(s)}
Single(S) == \A e, f \in S : e.n = f.n => e = f
SingleSeq(s) == \A i, j \in 1 .. Len(s) : s[i].n = s[j].n => i = j

Apart(A, B, C, D, E, F) ==
  /\ A \cap B = {} /\ A \cap C = {} /\ A \cap D = {} /\ A \cap E = {} /\ A \cap F = {}
  /\ B \cap C = {} /\ B \cap D = {} /\ B \cap E = {} /\ B \cap F = {}
  /\ C \cap D = {} /\ C \cap E = {} /\ C \cap F = {}
  /\ D \cap E = {} /\ D \cap F = {} /\ E \cap F = {}

SinglesInv ==
  /\ Single(requests) /\ SingleSeq(channel) /\ SingleSeq(queue)
  /\ Single(updates) /\ Single(popups) /\ Single(choices)
PlacesInv ==
  Apart(Numbers(requests), NumbersOf(channel), NumbersOf(queue), Numbers(updates), Numbers(popups), Numbers(choices))
\* Hooks are numbered as they are posted.
FreshInv ==
  /\ \A n \in Numbers(requests) : n =< hooks
  /\ \A n \in NumbersOf(channel) : n =< hooks
  /\ \A n \in NumbersOf(queue) : n =< hooks
  /\ \A n \in Numbers(updates) : n =< hooks
  /\ \A n \in Numbers(popups) : n =< hooks
  /\ \A n \in Numbers(choices) : n =< hooks

OnceInv == SinglesInv /\ PlacesInv /\ FreshInv

\* An item of a place of single numbers is taken.
LEMMA TakeOne ==
  ASSUME NEW S, Single(S), NEW x \in S
  PROVE  Single(S \ {x}) /\ Numbers(S \ {x}) = Numbers(S) \ {x.n} /\ x.n \in Numbers(S)
BY DEF Single, Numbers

\* An item with a new number is added.
LEMMA AddOne ==
  ASSUME NEW S, Single(S), NEW x, x.n \notin Numbers(S)
  PROVE  Single(S \cup {x}) /\ Numbers(S \cup {x}) = Numbers(S) \cup {x.n}
BY DEF Single, Numbers

\* An item is replaced by one of the same number.
LEMMA ReplaceOne ==
  ASSUME NEW S, Single(S), NEW x \in S, NEW y, y.n = x.n
  PROVE  Single((S \ {x}) \cup {y}) /\ Numbers((S \ {x}) \cup {y}) = Numbers(S)
<1>1. Single(S \ {x}) /\ Numbers(S \ {x}) = Numbers(S) \ {x.n} /\ x.n \in Numbers(S)
  BY TakeOne
<1>2. y.n \notin Numbers(S \ {x})
  BY <1>1
<1>3. Single((S \ {x}) \cup {y}) /\ Numbers((S \ {x}) \cup {y}) = Numbers(S \ {x}) \cup {y.n}
  BY <1>1, <1>2, AddOne, Zenon
<1>4. (Numbers(S) \ {x.n}) \cup {y.n} = Numbers(S)
  BY <1>1
<1> QED BY <1>1, <1>3, <1>4

\* An item with a new number is appended.
LEMMA AppendOne ==
  ASSUME NEW T, NEW s \in Seq(T), SingleSeq(s), NEW x \in T, x.n \notin NumbersOf(s)
  PROVE  SingleSeq(Append(s, x)) /\ NumbersOf(Append(s, x)) = NumbersOf(s) \cup {x.n}
<1> DEFINE a == Append(s, x)
<1>1. /\ Len(s) \in Nat /\ Len(a) = Len(s) + 1
      /\ \A i \in 1 .. Len(s) : a[i] = s[i]
      /\ a[Len(s) + 1] = x
  OBVIOUS
<1>2. \A i \in 1 .. Len(a) : i = Len(s) + 1 \/ i \in 1 .. Len(s)
  BY <1>1
<1>3. \A i \in 1 .. Len(s) : i \in 1 .. Len(a)
  BY <1>1
<1>4. Len(s) + 1 \in 1 .. Len(a)
  BY <1>1
<1> HIDE DEF a
<1>5. \A i \in 1 .. Len(s) : s[i].n # x.n
  BY DEF NumbersOf
<1>6. SingleSeq(a)
  BY <1>1, <1>2, <1>5 DEF SingleSeq
<1>7. NumbersOf(a) = NumbersOf(s) \cup {x.n}
  BY <1>1, <1>2, <1>3, <1>4 DEF NumbersOf
<1> QED BY <1>6, <1>7 DEF a

\* The first item is taken.
LEMMA TailOne ==
  ASSUME NEW T, NEW s \in Seq(T), SingleSeq(s), s # <<>>
  PROVE  SingleSeq(Tail(s)) /\ NumbersOf(Tail(s)) = NumbersOf(s) \ {Head(s).n} /\ Head(s).n \in NumbersOf(s)
<1> DEFINE t == Tail(s)
<1>1. /\ Len(s) \in Nat /\ Len(s) > 0 /\ Len(t) = Len(s) - 1 /\ Head(s) = s[1]
      /\ \A i \in 1 .. Len(s) - 1 : t[i] = s[i + 1]
  OBVIOUS
<1>2. \A i \in 1 .. Len(t) : t[i] = s[i + 1] /\ i + 1 \in 1 .. Len(s) /\ i + 1 # 1
  BY <1>1
<1>3. \A i \in 1 .. Len(s) : i = 1 \/ (i - 1 \in 1 .. Len(t) /\ t[i - 1] = s[i])
  BY <1>1
<1>4. \A i, j \in 1 .. Len(t) : i + 1 = j + 1 => i = j
  OBVIOUS
<1>5. 1 \in 1 .. Len(s)
  BY <1>1
<1> HIDE DEF t
<1>6. SingleSeq(t)
  BY <1>2, <1>4 DEF SingleSeq
<1>7. NumbersOf(t) = NumbersOf(s) \ {s[1].n} /\ s[1].n \in NumbersOf(s)
  <2>1. ASSUME NEW n \in NumbersOf(t) PROVE n \in NumbersOf(s) /\ n # s[1].n
    <3>1. PICK i \in 1 .. Len(t) : n = t[i].n
      BY DEF NumbersOf
    <3> QED BY <3>1, <1>2, <1>5 DEF NumbersOf, SingleSeq
  <2>2. ASSUME NEW n \in NumbersOf(s), n # s[1].n PROVE n \in NumbersOf(t)
    <3>1. PICK i \in 1 .. Len(s) : n = s[i].n
      BY DEF NumbersOf
    <3>2. i # 1
      BY <3>1, <2>2
    <3> QED BY <3>1, <3>2, <1>3 DEF NumbersOf
  <2>3. s[1].n \in NumbersOf(s)
    BY <1>5 DEF NumbersOf
  <2> QED BY <2>1, <2>2, <2>3
<1> QED BY <1>1, <1>6, <1>7 DEF t

\* What a step leaves alone stays in its place.
LEMMA SamePlaces ==
  ASSUME OnceInv, UNCHANGED <<requests, channel, queue, updates, popups, choices, hooks>>
  PROVE  OnceInv'
<1>1. /\ requests' = requests /\ channel' = channel /\ queue' = queue
      /\ updates' = updates /\ popups' = popups /\ choices' = choices /\ hooks' = hooks
  OBVIOUS
<1>2. SinglesInv'
  BY <1>1 DEF OnceInv, SinglesInv
<1>3. PlacesInv'
  BY <1>1 DEF OnceInv, PlacesInv
<1>4. FreshInv'
  BY <1>1 DEF OnceInv, FreshInv
<1> QED BY <1>2, <1>3, <1>4 DEF OnceInv

\* A hook that is posted has a new number.
LEMMA PostOnce ==
  ASSUME TypeInv, OnceInv, NEW w \in Windows, NEW kind, NEW tool, Post(w, kind, tool),
         UNCHANGED <<channel, queue, updates, popups, choices>>
  PROVE  OnceInv'
<1> USE DEF OnceInv, SinglesInv, PlacesInv, FreshInv
<1> DEFINE r == [n |-> hooks + 1, kind |-> kind, from |-> w, tool |-> tool, at |-> "resolve", window |-> NoWindow]
<1>1. requests' = requests \cup {r} /\ hooks' = hooks + 1 /\ hooks \in Nat /\ r.n = hooks + 1
  BY Bounds DEF Post, TypeInv, TypeOK
<1> HIDE DEF r
<1>2. ~(hooks + 1 =< hooks)
  BY <1>1
<1>3. /\ r.n \notin Numbers(requests) /\ r.n \notin NumbersOf(channel) /\ r.n \notin NumbersOf(queue)
      /\ r.n \notin Numbers(updates) /\ r.n \notin Numbers(popups) /\ r.n \notin Numbers(choices)
  BY <1>1, <1>2
<1>4. Single(requests') /\ Numbers(requests') = Numbers(requests) \cup {r.n}
  BY <1>1, <1>3, AddOne
<1>5. SinglesInv'
  BY <1>4
<1>6. PlacesInv'
  BY <1>3, <1>4 DEF Apart
<1>7. FreshInv'
  <2>1. /\ \A n \in Numbers(requests) : n \in Nat
        /\ \A n \in Numbers(updates) \cup Numbers(popups) \cup Numbers(choices) : n \in Nat
    BY DEF TypeInv, TypeOK, Request, Event, Numbers
  <2>2. \A n \in NumbersOf(channel) \cup NumbersOf(queue) : n \in Nat
    <3>1. channel \in Seq(Event) /\ queue \in Seq(Event)
      BY DEF TypeInv, TypeOK
    <3>2. \A e \in Event : e.n \in Nat
      BY DEF Event
    <3>3. /\ \A i \in 1 .. Len(channel) : channel[i] \in Event
          /\ \A i \in 1 .. Len(queue) : queue[i] \in Event
      BY <3>1
    <3> QED BY <3>2, <3>3 DEF NumbersOf
  <2>3. \A n \in Nat : n =< hooks => n =< hooks'
    BY <1>1
  <2>4. \A n \in Numbers(requests') : n =< hooks'
    <3>1. hooks' =< hooks' /\ r.n = hooks'
      BY <1>1
    <3>2. \A n \in Numbers(requests) : n =< hooks'
      BY <2>1, <2>3
    <3> QED BY <3>1, <3>2, <1>4
  <2>5. UNCHANGED <<channel, queue, updates, popups, choices>>
    OBVIOUS
  <2>6. (\A n \in NumbersOf(channel') : n =< hooks') /\ (\A n \in NumbersOf(queue') : n =< hooks')
    BY <2>2, <2>3, <2>5
  <2>7. /\ \A n \in Numbers(updates') : n =< hooks'
        /\ \A n \in Numbers(popups') : n =< hooks'
        /\ \A n \in Numbers(choices') : n =< hooks'
    BY <2>1, <2>3, <2>5
  <2> QED BY <2>4, <2>6, <2>7
<1> QED BY <1>5, <1>6, <1>7

\* A number that moves on leaves the places apart.
LEMMA Apart1 ==
  ASSUME NEW A, NEW B, NEW C, NEW D, NEW E, NEW F, Apart(A, B, C, D, E, F), NEW n \in E
  PROVE  Apart(A, B, C, D, E \ {n}, F \cup {n})
BY DEF Apart

\* From the requests to the channel, or nowhere.
LEMMA Apart3 ==
  ASSUME NEW A, NEW B, NEW C, NEW D, NEW E, NEW F, Apart(A, B, C, D, E, F), NEW n \in A, NEW G, G \subseteq B \cup {n}
  PROVE  Apart(A \ {n}, G, C, D, E, F)
BY DEF Apart

\* From the requests to the files.
LEMMA Apart4 ==
  ASSUME NEW A, NEW B, NEW C, NEW D, NEW E, NEW F, Apart(A, B, C, D, E, F), NEW n \in A
  PROVE  Apart(A \ {n}, B, C \cup {n}, D, E, F)
BY DEF Apart

\* From the channel to the updates.
LEMMA Apart2 ==
  ASSUME NEW A, NEW B, NEW C, NEW D, NEW E, NEW F, Apart(A, B, C, D, E, F), NEW n \in B
  PROVE  Apart(A, B \ {n}, C, D \cup {n}, E, F)
BY DEF Apart

\* Every step keeps a hook in one place.
LEMMA NextOnce == TypeInv /\ OnceInv /\ [Next]_<<env, vars>> => OnceInv'
<1> SUFFICES ASSUME TypeInv, OnceInv, [Next]_<<env, vars>> PROVE OnceInv'
  OBVIOUS
<1> USE DEF OnceInv, SinglesInv, PlacesInv, FreshInv
<1>1. CASE UNCHANGED <<env, vars>>
  BY <1>1, SamePlaces DEF vars, external, server, tui
<1>2. /\ channel \in Seq(Event) /\ queue \in Seq(Event) /\ requests \subseteq Request
  BY DEF TypeInv, TypeOK
<1>3. ASSUME NEW w \in Windows, Claude(w) PROVE OnceInv'
  <2>1. CASE Allow(w)
    BY <2>1, SamePlaces DEF Allow, server, tui
  <2>2. CASE Submit(w)
    BY <2>2, PostOnce DEF Submit, tui
  <2>3. CASE UseTool(w)
    BY <2>3, PostOnce DEF UseTool, tui
  <2>4. CASE Ask(w)
    BY <2>4, PostOnce DEF Ask, tui
  <2>5. CASE Finish(w)
    BY <2>5, PostOnce DEF Finish, tui
  <2> QED BY <1>3, <2>1, <2>2, <2>3, <2>4, <2>5, Zenon DEF Claude
<1>4. ASSUME NEW r \in requests, NEW s, s.n = r.n, Replace(r, s) \/ Done(r),
             UNCHANGED <<channel, queue, updates, popups, choices, hooks>>
      PROVE  OnceInv'
  <2>1. Single(requests') /\ Numbers(requests') \subseteq Numbers(requests)
    BY <1>4, TakeOne, ReplaceOne DEF Replace, Done
  <2>2. SinglesInv'
    BY <1>4, <2>1 DEF OnceInv, SinglesInv
  <2>3. PlacesInv'
    BY <1>4, <2>1 DEF OnceInv, PlacesInv, Apart
  <2>4. FreshInv'
    BY <1>4, <2>1 DEF OnceInv, FreshInv
  <2> QED BY <2>2, <2>3, <2>4 DEF OnceInv
<1>5. ASSUME NEW r \in requests, Handler(r) PROVE OnceInv'
  <2>1. r \in Request
    BY <1>2
  <2>2. CASE Resolve(r) \/ SetPending(r) \/ GetPending(r) \/ SetActivity(r) \/ CheckSubscribers(r)
    <3>1. UNCHANGED <<channel, queue, updates, popups, choices, hooks>>
      BY <2>2 DEF Resolve, SetPending, GetPending, SetActivity, CheckSubscribers, tui
    <3>2. \E s : s.n = r.n /\ (Replace(r, s) \/ Done(r))
      <4>1. CASE Resolve(r)
        BY <4>1, <2>1 DEF Resolve, Request
      <4>2. CASE SetPending(r) \/ SetActivity(r) \/ CheckSubscribers(r)
        BY <4>2, <2>1 DEF SetPending, SetActivity, CheckSubscribers, Request
      <4>3. CASE GetPending(r)
        BY <4>3, <2>1 DEF GetPending, Request
      <4> QED BY <2>2, <4>1, <4>2, <4>3
    <3> QED BY <3>1, <3>2, <1>4
  <2>3. CASE Publish(r)
    <3>1. /\ channel' = channel \/ channel' = Append(channel, EventOf(r)) 
          /\ requests' = requests \ {r} /\ UNCHANGED <<queue, updates, popups, choices, hooks>>
      BY <2>3 DEF Publish, Done, tui
    <3>2. EventOf(r) \in Event /\ EventOf(r).n = r.n
      BY <2>1, EventTypes DEF EventOf
    <3>3. Single(requests') /\ Numbers(requests') = Numbers(requests) \ {r.n} /\ r.n \in Numbers(requests)
      BY <3>1, TakeOne
    <3>4. r.n \notin NumbersOf(channel)
      BY <3>3 DEF Apart
    <3>5. SingleSeq(Append(channel, EventOf(r))) /\ NumbersOf(Append(channel, EventOf(r))) = NumbersOf(channel) \cup {r.n}
      <4>1. EventOf(r).n \notin NumbersOf(channel)
        BY <3>2, <3>4
      <4> QED BY <3>2, <4>1, <1>2, AppendOne
    <3>6. SingleSeq(channel') /\ NumbersOf(channel') \subseteq NumbersOf(channel) \cup {r.n}
      <4>1. SingleSeq(channel)
        OBVIOUS
      <4>2. CASE channel' = channel
        BY <4>1, <4>2
      <4>3. CASE channel' = Append(channel, EventOf(r))
        BY <3>5, <4>3
      <4> QED BY <3>1, <4>2, <4>3
    <3>7. SinglesInv'
      BY <3>1, <3>3, <3>6 DEF OnceInv, SinglesInv
    <3>8. PlacesInv'
      <4>1. Apart(Numbers(requests) \ {r.n}, NumbersOf(channel'), NumbersOf(queue), Numbers(updates), Numbers(popups), Numbers(choices))
        BY <3>3, <3>6, Apart3 DEF OnceInv, PlacesInv
      <4> QED BY <3>1, <3>3, <4>1 DEF PlacesInv
    <3>9. FreshInv'
      BY <3>1, <3>3, <3>6 DEF OnceInv, FreshInv
    <3> QED BY <3>7, <3>8, <3>9 DEF OnceInv
  <2>4. CASE Enqueue(r)
    <3>1. /\ queue' = Append(queue, EventOf(r)) 
          /\ requests' = requests \ {r} /\ UNCHANGED <<channel, updates, popups, choices, hooks>>
      BY <2>4 DEF Enqueue, Done, tui
    <3>2. EventOf(r) \in Event /\ EventOf(r).n = r.n
      BY <2>1, EventTypes DEF EventOf
    <3>3. Single(requests') /\ Numbers(requests') = Numbers(requests) \ {r.n} /\ r.n \in Numbers(requests)
      BY <3>1, TakeOne
    <3>4. r.n \notin NumbersOf(queue)
      BY <3>3 DEF Apart
    <3>5. SingleSeq(Append(queue, EventOf(r))) /\ NumbersOf(Append(queue, EventOf(r))) = NumbersOf(queue) \cup {r.n}
      <4>1. EventOf(r).n \notin NumbersOf(queue)
        BY <3>2, <3>4
      <4> QED BY <3>2, <4>1, <1>2, AppendOne
    <3>6. SinglesInv'
      BY <3>1, <3>3, <3>5 DEF OnceInv, SinglesInv
    <3>7. PlacesInv'
      <4>1. Apart(Numbers(requests) \ {r.n}, NumbersOf(channel), NumbersOf(queue) \cup {r.n}, Numbers(updates),
                  Numbers(popups), Numbers(choices))
        BY <3>3, Apart4 DEF OnceInv, PlacesInv
      <4> QED BY <3>1, <3>3, <3>5, <4>1 DEF PlacesInv
    <3>8. FreshInv'
      BY <3>1, <3>3, <3>5 DEF OnceInv, FreshInv
    <3> QED BY <3>6, <3>7, <3>8 DEF OnceInv
  <2> QED BY <1>5, <2>2, <2>3, <2>4 DEF Handler
<1>6. ASSUME NEW e \in updates, Apply(e) PROVE OnceInv'
  <2>1. /\ updates' = updates \ {e} /\ (popups' = popups \/ popups' = popups \cup {e})
        /\ UNCHANGED <<requests, channel, queue, choices, hooks>>
    BY <1>6 DEF Apply, server
  <2>2. Single(updates') /\ Numbers(updates') = Numbers(updates) \ {e.n} /\ e.n \in Numbers(updates)
    BY <2>1, TakeOne
  <2>3. e.n \notin Numbers(popups)
    BY <2>2 DEF Apart
  <2>4. Single(popups') /\ Numbers(popups') \subseteq Numbers(popups) \cup {e.n}
    BY <2>1, <2>3, AddOne
  <2>5. SinglesInv'
    BY <2>1, <2>2, <2>4 DEF OnceInv, SinglesInv
  <2>6. PlacesInv'
    BY <2>1, <2>2, <2>4 DEF OnceInv, PlacesInv, Apart
  <2>7. FreshInv'
    BY <2>1, <2>2, <2>4 DEF OnceInv, FreshInv
  <2> QED BY <2>5, <2>6, <2>7 DEF OnceInv
<1>7. ASSUME NEW p \in popups, Dismiss(p) PROVE OnceInv'
  <2>1. /\ popups' = popups \ {p} /\ choices' = choices \cup {p}
        /\ UNCHANGED <<requests, channel, queue, updates, hooks>>
    BY <1>7 DEF Dismiss, server
  <2>2. Single(popups') /\ Numbers(popups') = Numbers(popups) \ {p.n} /\ p.n \in Numbers(popups)
    BY <2>1, TakeOne
  <2>3. p.n \notin Numbers(choices)
    BY <2>2 DEF Apart
  <2>4. Single(choices') /\ Numbers(choices') = Numbers(choices) \cup {p.n}
    BY <2>1, <2>3, AddOne
  <2>5. SinglesInv'
    BY <2>1, <2>2, <2>4 DEF OnceInv, SinglesInv
  <2>6. PlacesInv'
    <3>1. Apart(Numbers(requests), NumbersOf(channel), NumbersOf(queue), Numbers(updates),
                Numbers(popups) \ {p.n}, Numbers(choices) \cup {p.n})
      BY <2>2, Apart1 DEF OnceInv, PlacesInv
    <3> QED BY <2>1, <2>2, <2>4, <3>1 DEF PlacesInv
  <2>7. FreshInv'
    BY <2>1, <2>2, <2>4 DEF OnceInv, FreshInv
  <2> QED BY <2>5, <2>6, <2>7 DEF OnceInv
<1>8. ASSUME NEW p \in choices, SendChoice(p) PROVE OnceInv'
  <2>1. choices' = choices \ {p} /\ UNCHANGED <<requests, channel, queue, updates, popups, hooks>>
    BY <1>8 DEF SendChoice, server
  <2>2. Single(choices') /\ Numbers(choices') \subseteq Numbers(choices)
    <3>1. Single(choices) /\ p \in choices
      BY <1>8
    <3>2. Single(choices \ {p}) /\ Numbers(choices \ {p}) = Numbers(choices) \ {p.n}
      BY <3>1, TakeOne
    <3> QED BY <2>1, <3>2
  <2>3. SinglesInv'
    BY <2>1, <2>2 DEF OnceInv, SinglesInv
  <2>4. PlacesInv'
    BY <2>1, <2>2 DEF OnceInv, PlacesInv, Apart
  <2>5. FreshInv'
    BY <2>1, <2>2 DEF OnceInv, FreshInv
  <2> QED BY <2>3, <2>4, <2>5 DEF OnceInv
<1>9. CASE Receive
  <2>1. /\ channel # <<>> /\ updates' = updates \cup {Head(channel)} /\ channel' = Tail(channel)
        /\ UNCHANGED <<requests, queue, popups, choices, hooks>>
    BY <1>9 DEF Receive, server
  <2> DEFINE e == Head(channel)
  <2>2. SingleSeq(channel') /\ NumbersOf(channel') = NumbersOf(channel) \ {e.n} /\ e.n \in NumbersOf(channel)
    BY <2>1, <1>2, TailOne
  <2> HIDE DEF e
  <2>3. e.n \notin Numbers(updates)
    BY <2>2 DEF Apart
  <2>4. Single(updates') /\ Numbers(updates') = Numbers(updates) \cup {e.n}
    BY <2>1, <2>3, AddOne DEF e
  <2>5. SinglesInv'
    BY <2>1, <2>2, <2>4 DEF OnceInv, SinglesInv
  <2>6. PlacesInv'
    <3>1. Apart(Numbers(requests), NumbersOf(channel) \ {e.n}, NumbersOf(queue), Numbers(updates) \cup {e.n},
                Numbers(popups), Numbers(choices))
      BY <2>2, Apart2 DEF OnceInv, PlacesInv
    <3> QED BY <2>1, <2>2, <2>4, <3>1 DEF PlacesInv
  <2>7. FreshInv'
    BY <2>1, <2>2, <2>4 DEF OnceInv, FreshInv
  <2> QED BY <2>5, <2>6, <2>7 DEF OnceInv
<1>10. CASE ReadAll
  <2>1. PICK k \in 0 .. Len(queue) :
          popups' = popups \cup {e \in {queue[i] : i \in k + 1 .. Len(queue)} : Visible(e)}
    BY <1>10 DEF ReadAll
  <2>2. queue' = <<>> /\ UNCHANGED <<requests, channel, updates, choices, hooks>>
    BY <1>10 DEF ReadAll, server
  <2>3. NumbersOf(queue') = {} /\ SingleSeq(queue')
    BY <2>2 DEF NumbersOf, SingleSeq
  <2>4. \A e \in popups' : e \in popups \/ \E i \in 1 .. Len(queue) : e = queue[i]
    BY <2>1
  <2>5. Numbers(popups') \subseteq Numbers(popups) \cup NumbersOf(queue)
    BY <2>4 DEF Numbers, NumbersOf
  <2>6. Single(popups')
    <3>1. \A e \in popups, i \in 1 .. Len(queue) : e.n # queue[i].n
      BY DEF Apart, Numbers, NumbersOf
    <3>2. \A i, j \in 1 .. Len(queue) : queue[i].n = queue[j].n => queue[i] = queue[j]
      BY DEF SingleSeq
    <3> QED BY <2>4, <3>1, <3>2 DEF Single
  <2>7. SinglesInv'
    BY <2>2, <2>3, <2>5, <2>6 DEF OnceInv, SinglesInv
  <2>8. PlacesInv'
    BY <2>2, <2>3, <2>5, <2>6 DEF OnceInv, PlacesInv, Apart
  <2>9. FreshInv'
    BY <2>2, <2>3, <2>5, <2>6 DEF OnceInv, FreshInv
  <2> QED BY <2>7, <2>8, <2>9 DEF OnceInv
<1>11. ASSUME requests' \subseteq requests, channel' = channel \/ channel' = <<>>, updates' \subseteq updates,
              popups' \subseteq popups, choices' \subseteq choices, UNCHANGED <<queue, hooks>>
       PROVE  OnceInv'
  <2>1. SingleSeq(channel') /\ NumbersOf(channel') \subseteq NumbersOf(channel)
    BY <1>11 DEF SingleSeq, NumbersOf
  <2>2. Single(requests') /\ Single(updates') /\ Single(popups') /\ Single(choices')
    BY <1>11 DEF Single
  <2>3. /\ Numbers(requests') \subseteq Numbers(requests) /\ Numbers(updates') \subseteq Numbers(updates)
        /\ Numbers(popups') \subseteq Numbers(popups) /\ Numbers(choices') \subseteq Numbers(choices)
    BY <1>11 DEF Numbers
  <2>4. SinglesInv'
    BY <1>11, <2>1, <2>2, <2>3 DEF OnceInv, SinglesInv
  <2>5. PlacesInv'
    BY <1>11, <2>1, <2>2, <2>3 DEF OnceInv, PlacesInv, Apart
  <2>6. FreshInv'
    BY <1>11, <2>1, <2>2, <2>3 DEF OnceInv, FreshInv
  <2> QED BY <2>4, <2>5, <2>6 DEF OnceInv
<1>12. CASE Quit
  BY <1>11, <1>12 DEF Quit, server
<1>13. CASE Start
  BY <1>11, <1>13 DEF Start, tui
<1>14. CASE PendingExpires
  BY <1>14, SamePlaces DEF PendingExpires, tui
<1>15. CASE ExitFullscreen
  BY <1>15, SamePlaces DEF ExitFullscreen, server
<1>16. ASSUME NEW w \in Windows, AnswerInPane(w) \/ EnterFullscreen(w) PROVE OnceInv'
  BY <1>16, SamePlaces DEF AnswerInPane, EnterFullscreen, server, tui
<1> HIDE DEF OnceInv, SinglesInv, PlacesInv, FreshInv
<1>17. CASE Next
  BY <1>3, <1>5, <1>6, <1>7, <1>8, <1>9, <1>10, <1>12, <1>13, <1>14, <1>15, <1>16, <1>17, Zenon DEF Next
<1> QED BY <1>1, <1>17


\* In the first state no hook is anywhere.
LEMMA OnceInit == Init => OnceInv
<1> SUFFICES ASSUME Init PROVE OnceInv
  OBVIOUS
<1>1. /\ requests = {} /\ channel = <<>> /\ queue = <<>> /\ updates = {} /\ popups = {} /\ choices = {}
  BY DEF Init
<1>2. /\ \A S : S = {} => Single(S) /\ Numbers(S) = {}
      /\ \A s : s = <<>> => SingleSeq(s) /\ NumbersOf(s) = {}
  BY DEF Single, Numbers, SingleSeq, NumbersOf
<1>3. SinglesInv
  BY <1>1, <1>2 DEF SinglesInv
<1>4. PlacesInv
  BY <1>1, <1>2 DEF PlacesInv, Apart
<1>5. FreshInv
  BY <1>1, <1>2 DEF FreshInv
<1> QED BY <1>3, <1>4, <1>5 DEF OnceInv

\* A number that is single in a place is there once or not at all.
LEMMA CountSet ==
  ASSUME NEW S, Single(S), NEW n
  PROVE  Cardinality({e \in S : e.n = n}) = IF n \in Numbers(S) THEN 1 ELSE 0
<1>1. CASE n \in Numbers(S)
  <2>1. PICK e \in S : e.n = n
    BY <1>1 DEF Numbers
  <2>2. {f \in S : f.n = n} = {e}
    BY <2>1 DEF Single
  <2> QED BY <1>1, <2>2, FS_Singleton
<1>2. CASE n \notin Numbers(S)
  <2>1. {f \in S : f.n = n} = {}
    BY <1>2 DEF Numbers
  <2> QED BY <1>2, <2>1, FS_EmptySet
<1> QED BY <1>1, <1>2

\* The same of a queue.
LEMMA CountSeq ==
  ASSUME NEW T, NEW s \in Seq(T), SingleSeq(s), NEW n
  PROVE  Cardinality({i \in DOMAIN s : s[i].n = n}) = IF n \in NumbersOf(s) THEN 1 ELSE 0
<1>0. DOMAIN s = 1 .. Len(s)
  OBVIOUS
<1>1. CASE n \in NumbersOf(s)
  <2>1. PICK i \in 1 .. Len(s) : s[i].n = n
    BY <1>1 DEF NumbersOf
  <2>2. {j \in DOMAIN s : s[j].n = n} = {i}
    BY <1>0, <2>1 DEF SingleSeq
  <2> QED BY <1>1, <2>2, FS_Singleton
<1>2. CASE n \notin NumbersOf(s)
  <2>1. {j \in DOMAIN s : s[j].n = n} = {}
    BY <1>0, <1>2 DEF NumbersOf
  <2> QED BY <1>2, <2>1, FS_EmptySet
<1> QED BY <1>1, <1>2

\* One place at most means one copy at most.
LEMMA OnceDelivers == TypeInv /\ OnceInv => DeliveredOnce
<1> SUFFICES ASSUME TypeInv, OnceInv, NEW n \in 1 .. hooks PROVE Copies(n) =< 1
  BY DEF DeliveredOnce
<1> DEFINE A == Numbers(requests)
           B == NumbersOf(channel)
           C == NumbersOf(queue)
           D == Numbers(updates)
           E == Numbers(popups)
           F == Numbers(choices)
<1>1. /\ Cardinality({r \in requests : r.n = n}) = IF n \in A THEN 1 ELSE 0
      /\ Cardinality({e \in updates : e.n = n}) = IF n \in D THEN 1 ELSE 0
      /\ Cardinality({e \in popups : e.n = n}) = IF n \in E THEN 1 ELSE 0
      /\ Cardinality({e \in choices : e.n = n}) = IF n \in F THEN 1 ELSE 0
  BY CountSet DEF OnceInv, SinglesInv
<1>2. channel \in Seq(Event) /\ queue \in Seq(Event)
  BY DEF TypeInv, TypeOK
<1>3. /\ Cardinality({i \in DOMAIN channel : channel[i].n = n}) = IF n \in B THEN 1 ELSE 0
      /\ Cardinality({i \in DOMAIN queue : queue[i].n = n}) = IF n \in C THEN 1 ELSE 0
  BY <1>2, CountSeq DEF OnceInv, SinglesInv
<1>4. Apart(A, B, C, D, E, F)
  BY DEF OnceInv, PlacesInv
<1> HIDE DEF A, B, C, D, E, F
<1>5. Copies(n) = (IF n \in A THEN 1 ELSE 0) + (IF n \in B THEN 1 ELSE 0) + (IF n \in C THEN 1 ELSE 0)
                  + (IF n \in D THEN 1 ELSE 0) + (IF n \in E THEN 1 ELSE 0) + (IF n \in F THEN 1 ELSE 0)
  BY <1>1, <1>3 DEF Copies
<1>6. /\ n \in A => n \notin B /\ n \notin C /\ n \notin D /\ n \notin E /\ n \notin F
      /\ n \in B => n \notin C /\ n \notin D /\ n \notin E /\ n \notin F
      /\ n \in C => n \notin D /\ n \notin E /\ n \notin F
      /\ n \in D => n \notin E /\ n \notin F
      /\ n \in E => n \notin F
  BY <1>4 DEF Apart
<1> QED BY <1>5, <1>6

\* A prompt is shown and answered once: whatever the handlers, the broker, the
\* files, the refresh loop and the event loop do in whatever order, with any
\* restarts, timeouts and full buffers, every hook is in one place at most.
THEOREM SoundDelivery == Spec => []DeliveryIsSound
<1>1. TypeInv /\ OnceInv => DeliveryIsSound
  BY OnceDelivers DEF TypeInv, DeliveryIsSound
<1> QED BY <1>1, InitTypes, NextTypes, OnceInit, NextOnce, PTL DEF Spec

-----------------------------------------------------------------------------
(* When nothing disturbs.                                                  *)

\* Who still has to note the tool of w, who has to look it up, and whether it
\* is noted.
Early == {"resolve", "state"}
Notes(w) == \E r \in requests : r.kind = "tool_info" /\ r.from = w /\ r.at \in Early
Looks(w) == \E r \in requests : r.kind = "permission" /\ r.from = w /\ r.at \in Early
Noted(w) == \E i \in 1 .. Len(pending) : pending[i].window = w

\* Prompts on their way from the broker to their answer.
Carried == {e \in InChannel \cup updates \cup popups \cup choices : e.popup}

\* The files and full screen are not used, and every hook is of its window.
QuietInv ==
  /\ subscribed /\ queue = <<>> /\ full = NoWindow
  /\ \A w \in Windows : cached[w] \in {NoWindow, w}
  /\ \A r \in requests : r.at # "enqueue" /\ (r.at # "resolve" => r.window = r.from)
  /\ \A p \in popups \cup choices : p.popup

\* The tool a Claude wants to use is noted from its PreToolUse hook to its
\* prompt, once.
ToolInv ==
  /\ \A r \in requests : r.kind = "tool_info" => claude[r.from] = "checking" /\ r.tool = using[r.from]
  /\ \A r, s \in requests : r.kind = "tool_info" /\ s.kind = "tool_info" /\ r.from = s.from => r = s
  /\ \A i \in 1 .. Len(pending) : pending[i].tool = using[pending[i].window]
  /\ \A i, j \in 1 .. Len(pending) : pending[i].window = pending[j].window => i = j
  /\ \A w \in Windows : Noted(w) <=> (claude[w] = "checking" /\ ~Notes(w)) \/ Looks(w)

\* An open prompt is carried by its request or by its event, and these carry
\* nothing else.
PromptInv ==
  /\ \A w \in Windows : claude[w] = "asking" <=> asking[w] # 0
  /\ \A w \in Windows : asking[w] =< hooks
  /\ \A v, w \in Windows : asking[v] = asking[w] /\ asking[v] # 0 => v = w
  /\ \A r \in requests : r.kind = "permission" => asking[r.from] = r.n /\ r.tool = using[r.from]
  /\ \A e \in Carried : e.window \in Windows /\ asking[e.window] = e.n /\ e.tool = using[e.window]
  /\ \A w \in Windows : asking[w] # 0 =>
       \/ \E r \in requests : r.kind = "permission" /\ r.from = w
       \/ \E e \in Carried : e.window = w

CalmInv == Calm => QuietInv /\ ToolInv /\ PromptInv

\* The types the calm invariant needs.
LEMMA CalmTypes ==
  ASSUME TypeInv
  PROVE  /\ claude \in [Windows -> {"idle", "running", "checking", "asking"}]
         /\ using \in [Windows -> Tool] /\ asking \in [Windows -> Nat] /\ hooks \in Nat
         /\ pending \in Seq([window : Windows, tool : Tool]) /\ Len(pending) \in Nat
         /\ \A i \in 1 .. Len(pending) : pending[i].window \in Windows
         /\ \A r \in requests : r \in Request /\ r.from \in Windows /\ r.n \in Nat /\ r.n # 0 /\ r.n =< MaxHooks
         /\ \A e \in Carried : e.n \in Nat /\ e.n # 0
<1>1. TypeOK /\ MaxHooks \in Nat
  BY Bounds DEF TypeInv
<1>2. /\ claude \in [Windows -> {"idle", "running", "checking", "asking"}]
      /\ using \in [Windows -> Tool] /\ asking \in [Windows -> 0 .. MaxHooks] /\ hooks \in 0 .. MaxHooks
      /\ pending \in Seq([window : Windows, tool : Tool])
      /\ requests \subseteq Request /\ channel \in Seq(Event)
      /\ updates \subseteq Event /\ popups \subseteq Event /\ choices \subseteq Event
  BY <1>1, Zenon DEF TypeOK
<1>3. \A w \in Windows : asking[w] \in Nat
  BY <1>1, <1>2
<1>4. asking \in [Windows -> Nat] /\ hooks \in Nat
  BY <1>1, <1>2, <1>3
<1>5. Len(pending) \in Nat /\ \A i \in 1 .. Len(pending) : pending[i] \in [window : Windows, tool : Tool]
  <2> DEFINE P == [window : Windows, tool : Tool]
  <2>1. pending \in Seq(P)
    BY <1>2
  <2> HIDE DEF P
  <2>2. Len(pending) \in Nat /\ \A i \in 1 .. Len(pending) : pending[i] \in P
    BY <2>1
  <2> QED BY <2>2 DEF P
<1>6. \A r \in requests : r.from \in Windows /\ r.n \in Nat /\ r.n # 0 /\ r.n =< MaxHooks
  BY <1>1, <1>2 DEF Request
<1>7. \A e \in Event : e.n \in Nat /\ e.n # 0
  BY <1>1 DEF Event
<1>8. InChannel \subseteq Event
  BY <1>2 DEF InChannel
<1>9. Carried \subseteq Event
  BY <1>2, <1>8 DEF Carried
<1> QED BY <1>2, <1>4, <1>5, <1>6, <1>7, <1>9

\* The channel has room for the event of a hook that is still handled.
LEMMA Room ==
  ASSUME TypeInv, OnceInv, Calm, NEW r \in requests
  PROVE  Len(channel) < Buffer
<1> DEFINE S == 1 .. Len(channel)
           T == (1 .. hooks) \ {r.n}
           f == [i \in S |-> channel[i].n]
<1>1. /\ hooks \in Nat /\ hooks =< MaxHooks /\ MaxHooks =< Buffer /\ MaxHooks \in Nat /\ Buffer \in Nat
      /\ channel \in Seq(Event) /\ requests \subseteq Request
  BY Bounds DEF TypeInv, TypeOK, Calm
<1>2. Len(channel) \in Nat /\ \A i \in S : channel[i] \in Event
  BY <1>1
<1>3. r.n \in 1 .. hooks
  <2>1. r.n \in Nat /\ r.n # 0 /\ r.n \in Numbers(requests)
    BY CalmTypes DEF Numbers
  <2>2. r.n =< hooks
    BY <2>1 DEF OnceInv, FreshInv
  <2> QED BY <1>1, <2>1, <2>2
<1>4. f \in [S -> T]
  <2>1. ASSUME NEW i \in S PROVE channel[i].n \in T
    <3>1. channel[i].n \in NumbersOf(channel) /\ r.n \in Numbers(requests)
      BY DEF NumbersOf, Numbers
    <3>2. channel[i].n # r.n /\ channel[i].n =< hooks
      BY <3>1 DEF OnceInv, PlacesInv, FreshInv, Apart
    <3>3. channel[i].n \in 1 .. MaxHooks
      BY <1>2 DEF Event
    <3> QED BY <1>1, <3>2, <3>3
  <2> QED BY <2>1
<1>5. IsFiniteSet(S) /\ Cardinality(S) = Len(channel)
  BY <1>2, FS_Interval
<1>6. IsFiniteSet(T) /\ Cardinality(T) = hooks - 1
  <2>1. IsFiniteSet(1 .. hooks) /\ Cardinality(1 .. hooks) = hooks
    BY <1>1, FS_Interval
  <2> QED BY <1>3, <2>1, FS_RemoveElement
<1>7. \A i, j \in S : f[i] = f[j] => i = j
  BY DEF OnceInv, SinglesInv, SingleSeq
<1> HIDE DEF S, T, f
<1>8. ~(Cardinality(T) < Cardinality(S))
  BY <1>4, <1>5, <1>6, <1>7, FS_PigeonHole
<1> QED BY <1>1, <1>2, <1>5, <1>6, <1>8

\* A handler goes on, without noting or looking up the tool.
LEMMA MoveOn ==
  ASSUME TypeInv, QuietInv, ToolInv, PromptInv, NEW r \in requests, NEW s,
         requests' = (requests \ {r}) \cup {s},
         s.n = r.n, s.kind = r.kind, s.from = r.from, s.tool = r.tool,
         s.at # "enqueue", s.at # "resolve" => s.window = s.from,
         r.kind \in {"tool_info", "permission"} => (s.at \in Early <=> r.at \in Early),
         UNCHANGED <<claude, using, asking, pending, hooks, subscribed, queue, full, channel, updates, popups, choices>>,
         \A w \in Windows : cached'[w] \in {NoWindow, w}
  PROVE  QuietInv' /\ ToolInv' /\ PromptInv'
<1>1. s \in requests' /\ (\A q \in requests : q = r \/ q \in requests') /\ (\A q \in requests' : q = s \/ q \in requests)
  OBVIOUS
<1>2. \A w \in Windows : (Notes(w)' <=> Notes(w)) /\ (Looks(w)' <=> Looks(w)) /\ (Noted(w)' <=> Noted(w))
  <2> SUFFICES ASSUME NEW w \in Windows PROVE (Notes(w)' <=> Notes(w)) /\ (Looks(w)' <=> Looks(w)) /\ (Noted(w)' <=> Noted(w))
    OBVIOUS
  <2>1. Notes(w)' <=> Notes(w)
    BY <1>1 DEF Notes
  <2>2. Looks(w)' <=> Looks(w)
    BY <1>1 DEF Looks
  <2>3. Noted(w)' <=> Noted(w)
    BY DEF Noted
  <2> QED BY <2>1, <2>2, <2>3
<1>3. Carried' = Carried
  BY DEF Carried, InChannel
<1>4. QuietInv'
  BY <1>1 DEF QuietInv
<1>5. ToolInv'
  BY <1>1, <1>2 DEF ToolInv
<1>6. PromptInv'
  BY <1>1, <1>3 DEF PromptInv
<1> QED BY <1>4, <1>5, <1>6

\* A handler ends; what it carried is carried by the channel.
LEMMA PublishCalm ==
  ASSUME TypeInv, OnceInv, Calm, QuietInv, ToolInv, PromptInv, NEW r \in requests, Publish(r)
  PROVE  QuietInv' /\ ToolInv' /\ PromptInv'
<1>1. /\ r.at = "publish" /\ requests' = requests \ {r} /\ channel' = Append(channel, EventOf(r))
      /\ UNCHANGED <<claude, using, asking, pending, hooks, subscribed, queue, full, updates, popups, choices, cached>>
  BY Room DEF Publish, Done, QuietInv, external, tui
<1>2. r \in Request /\ r.window = r.from /\ r.from \in Windows /\ r.at \notin Early
  BY <1>1, CalmTypes DEF QuietInv, Early
<1> DEFINE e == EventOf(r)
<1>3. e.n = r.n /\ e.window = r.from /\ e.tool = r.tool /\ (e.popup <=> r.kind = "permission")
  BY <1>2 DEF EventOf
<1>4. InChannel' = InChannel \cup {e}
  <2>1. channel \in Seq(Event) /\ e \in Event
    BY <1>2, EventTypes DEF TypeInv, TypeOK
  <2> HIDE DEF e
  <2>2. channel' = Append(channel, e)
    BY <1>1 DEF e
  <2>3. /\ Len(channel) \in Nat /\ Len(channel') = Len(channel) + 1 /\ channel'[Len(channel) + 1] = e
        /\ \A i \in 1 .. Len(channel) : channel'[i] = channel[i]
        /\ DOMAIN channel = 1 .. Len(channel) /\ DOMAIN channel' = 1 .. Len(channel) + 1
    BY <2>1, <2>2
  <2>4. \A i \in 1 .. Len(channel) + 1 : i \in 1 .. Len(channel) \/ i = Len(channel) + 1
    BY <2>3
  <2>5. Len(channel) + 1 \in 1 .. Len(channel) + 1 /\ \A i \in 1 .. Len(channel) : i \in 1 .. Len(channel) + 1
    BY <2>3
  <2> QED BY <2>3, <2>4, <2>5 DEF InChannel
<1> HIDE DEF e
<1>5. Carried' = IF r.kind = "permission" THEN Carried \cup {e} ELSE Carried
  BY <1>1, <1>3, <1>4 DEF Carried
<1>6. \A w \in Windows : (Notes(w)' <=> Notes(w)) /\ (Looks(w)' <=> Looks(w)) /\ (Noted(w)' <=> Noted(w))
  BY <1>1, <1>2 DEF Notes, Looks, Noted
<1>7. QuietInv'
  BY <1>1 DEF QuietInv
<1>8. ToolInv'
  BY <1>1, <1>6 DEF ToolInv
<1>9. PromptInv'
  <2>1. \A c \in Carried' : c.window \in Windows /\ asking[c.window] = c.n /\ c.tool = using[c.window]
    BY <1>2, <1>3, <1>5 DEF PromptInv
  <2>2. ASSUME NEW w \in Windows, asking[w] # 0
        PROVE  (\E q \in requests' : q.kind = "permission" /\ q.from = w) \/ (\E c \in Carried' : c.window = w)
    <3>1. CASE \E q \in requests : q.kind = "permission" /\ q.from = w
      BY <3>1, <1>1, <1>3, <1>5
    <3>2. CASE \E c \in Carried : c.window = w
      BY <3>2, <1>5
    <3> QED BY <2>2, <3>1, <3>2 DEF PromptInv
  <2> QED BY <1>1, <2>1, <2>2 DEF PromptInv
<1> QED BY <1>7, <1>8, <1>9

\* The tool is noted.
LEMMA SetPendingCalm ==
  ASSUME TypeInv, QuietInv, ToolInv, PromptInv, NEW r \in requests, SetPending(r)
  PROVE  QuietInv' /\ ToolInv' /\ PromptInv'
<1> DEFINE s == [r EXCEPT !.at = "activity"]
           e == [window |-> r.window, tool |-> r.tool]
<1>1. r \in Request /\ r.from \in Windows /\ r.at = "state" /\ r.kind = "tool_info" /\ r.window = r.from /\ r.at \in Early
  BY CalmTypes DEF SetPending, QuietInv, Early
<1>2. /\ requests' = (requests \ {r}) \cup {s} /\ pending' = Append(pending, e)
      /\ UNCHANGED <<claude, using, asking, hooks, subscribed, queue, full, channel, updates, popups, choices, cached>>
  BY DEF SetPending, Replace, external, tui
<1>3. s.n = r.n /\ s.kind = r.kind /\ s.from = r.from /\ s.tool = r.tool /\ s.window = r.window /\ s.at = "activity"
  BY <1>1 DEF Request
<1>4. e.window = r.from /\ e.tool = using[r.from] /\ e \in [window : Windows, tool : Tool]
  BY <1>1 DEF ToolInv, Request
<1> HIDE DEF s, e
<1>5. s \in requests' /\ (\A q \in requests : q = r \/ q \in requests') /\ (\A q \in requests' : q = s \/ (q \in requests /\ q # r))
  BY <1>2
<1>6. /\ Len(pending') = Len(pending) + 1 /\ pending'[Len(pending) + 1] = e
      /\ \A i \in 1 .. Len(pending) : pending'[i] = pending[i]
  <2> DEFINE P == [window : Windows, tool : Tool]
  <2>1. pending \in Seq(P) /\ e \in P
    BY <1>4, CalmTypes
  <2> HIDE DEF P
  <2> QED BY <1>2, <2>1
<1>7. Len(pending) \in Nat /\ \A i \in 1 .. Len(pending) + 1 : i \in 1 .. Len(pending) \/ i = Len(pending) + 1
  BY CalmTypes
<1>8. \A i \in 1 .. Len(pending) : i \in 1 .. Len(pending')
  BY <1>6, <1>7
<1>9. ~Noted(r.from) /\ claude[r.from] = "checking"
  <2>1. Notes(r.from) /\ claude[r.from] = "checking"
    BY <1>1 DEF Notes, ToolInv
  <2>2. ~Looks(r.from)
    BY <2>1, <1>1, CalmTypes DEF Looks, PromptInv
  <2> QED BY <2>1, <2>2, <1>1 DEF ToolInv
<1>10. \A i \in 1 .. Len(pending) : pending[i].window # r.from
  BY <1>9 DEF Noted
<1>11. \A i \in 1 .. Len(pending') : pending'[i].tool = using[pending'[i].window]
  BY <1>4, <1>6, <1>7 DEF ToolInv
<1>12. \A i, j \in 1 .. Len(pending') : pending'[i].window = pending'[j].window => i = j
  BY <1>4, <1>6, <1>7, <1>10 DEF ToolInv
<1>13. Noted(r.from)' /\ \A w \in Windows : w # r.from => (Noted(w)' <=> Noted(w))
  <2>1. Len(pending) + 1 \in 1 .. Len(pending')
    BY <1>6, <1>7
  <2>2. Noted(r.from)'
    BY <1>4, <1>6, <2>1 DEF Noted
  <2>3. ASSUME NEW w \in Windows, w # r.from PROVE Noted(w)' <=> Noted(w)
    BY <1>4, <1>6, <1>7, <1>8, <2>3 DEF Noted
  <2> QED BY <2>2, <2>3
<1>14. ~Notes(r.from)' /\ \A w \in Windows : w # r.from => (Notes(w)' <=> Notes(w))
  <2>1. \A q \in requests : q.kind = "tool_info" /\ q.from = r.from => q = r
    BY <1>1 DEF ToolInv
  <2>2. ~Notes(r.from)'
    BY <1>3, <1>5, <2>1 DEF Notes, Early
  <2>3. \A w \in Windows : w # r.from => (Notes(w)' <=> Notes(w))
    BY <1>3, <1>5 DEF Notes
  <2> QED BY <2>2, <2>3
<1>15. \A w \in Windows : Looks(w)' <=> Looks(w)
  BY <1>1, <1>3, <1>5 DEF Looks
<1>16. \A w \in Windows : Noted(w)' <=> (claude'[w] = "checking" /\ ~Notes(w)') \/ Looks(w)'
  <2> SUFFICES ASSUME NEW w \in Windows PROVE Noted(w)' <=> (claude'[w] = "checking" /\ ~Notes(w)') \/ Looks(w)'
    OBVIOUS
  <2>1. CASE w = r.from
    BY <2>1, <1>2, <1>9, <1>13, <1>14
  <2>2. CASE w # r.from
    BY <2>2, <1>2, <1>13, <1>14, <1>15 DEF ToolInv
  <2> QED BY <2>1, <2>2
<1>17. /\ \A q \in requests' : q.kind = "tool_info" => claude[q.from] = "checking" /\ q.tool = using[q.from]
       /\ \A p, q \in requests' : p.kind = "tool_info" /\ q.kind = "tool_info" /\ p.from = q.from => p = q
  BY <1>3, <1>5 DEF ToolInv
<1>18. ToolInv'
  BY <1>2, <1>11, <1>12, <1>16, <1>17 DEF ToolInv
<1>19. QuietInv'
  BY <1>1, <1>2, <1>3, <1>5 DEF QuietInv
<1>20. Carried' = Carried
  BY <1>2 DEF Carried, InChannel
<1>21. PromptInv'
  BY <1>1, <1>2, <1>3, <1>5, <1>20 DEF PromptInv
<1> QED BY <1>18, <1>19, <1>21

\* What is left of a sequence without its entry i.
Without(s, i) == SubSeq(s, 1, i - 1) \o SubSeq(s, i + 1, Len(s))
Before(k, i) == IF k < i THEN k ELSE k + 1

\* The other entries, in their order.
LEMMA WithoutEntry ==
  ASSUME NEW P, NEW s \in Seq(P), NEW i \in 1 .. Len(s)
  PROVE  /\ Len(s) \in Nat /\ Len(Without(s, i)) = Len(s) - 1
         /\ \A k \in 1 .. Len(Without(s, i)) :
              Before(k, i) \in 1 .. Len(s) /\ Before(k, i) # i /\ Without(s, i)[k] = s[Before(k, i)]
         /\ \A j \in 1 .. Len(s) : j # i => \E k \in 1 .. Len(Without(s, i)) : Without(s, i)[k] = s[j]
<1> DEFINE t == Without(s, i)
<1> DEFINE a == SubSeq(s, 1, i - 1)
           b == SubSeq(s, i + 1, Len(s))
<1>0. Len(s) \in Nat /\ i \in Nat /\ i >= 1 /\ i =< Len(s)
  OBVIOUS
<1>1. a \in Seq(P) /\ Len(a) = i - 1 /\ \A k \in 1 .. i - 1 : a[k] = s[k]
  OBVIOUS
<1>2. b \in Seq(P) /\ Len(b) = Len(s) - i /\ \A k \in 1 .. Len(s) - i : b[k] = s[i + k]
  OBVIOUS
<1> HIDE DEF a, b, t
<1>3. t = a \o b
  BY DEF a, b, t, Without
<1>4. /\ Len(t) = Len(a) + Len(b)
      /\ \A k \in 1 .. Len(a) + Len(b) : t[k] = IF k <= Len(a) THEN a[k] ELSE b[k - Len(a)]
  <2>1. /\ Len(a \o b) = Len(a) + Len(b)
        /\ \A k \in 1 .. Len(a) + Len(b) : (a \o b)[k] = IF k <= Len(a) THEN a[k] ELSE b[k - Len(a)]
    BY <1>1, <1>2, ConcatProperties, Zenon
  <2> QED BY <1>3, <2>1
<1>5. Len(t) = Len(s) - 1
  BY <1>0, <1>1, <1>2, <1>4
<1>6. ASSUME NEW k \in 1 .. Len(s) - 1 PROVE t[k] = IF k < i THEN s[k] ELSE s[k + 1]
  <2>1. CASE k < i
    <3>1. k \in 1 .. Len(a) + Len(b) /\ k <= Len(a) /\ k \in 1 .. i - 1
      BY <2>1, <1>0, <1>1, <1>2
    <3> QED BY <2>1, <3>1, <1>1, <1>4
  <2>2. CASE k >= i
    <3>1. t[k] = b[k - (i - 1)]
      <4>1. k \in 1 .. Len(a) + Len(b) /\ ~(k <= Len(a)) /\ k - Len(a) = k - (i - 1)
        BY <2>2, <1>0, <1>1, <1>2
      <4> QED BY <4>1, <1>4
    <3>2. k - (i - 1) \in 1 .. Len(s) - i /\ i + (k - (i - 1)) = k + 1
      BY <2>2, <1>0
    <3> QED BY <3>1, <3>2, <1>2, <2>2
  <2>3. k < i \/ k >= i
    BY <1>0
  <2> QED BY <2>1, <2>2, <2>3
<1>7. ASSUME NEW k \in 1 .. Len(t) PROVE Before(k, i) \in 1 .. Len(s) /\ Before(k, i) # i /\ t[k] = s[Before(k, i)]
  BY <1>0, <1>5, <1>6 DEF Before
<1>8. ASSUME NEW j \in 1 .. Len(s), j # i PROVE \E k \in 1 .. Len(t) : t[k] = s[j]
  <2>1. CASE j < i
    <3>1. j \in 1 .. Len(t) /\ t[j] = s[j]
      BY <2>1, <1>0, <1>5, <1>6
    <3> QED BY <3>1
  <2>2. CASE j > i
    <3>1. j - 1 \in 1 .. Len(t) /\ (j - 1) + 1 = j /\ ~(j - 1 < i)
      BY <2>2, <1>0, <1>5
    <3>2. t[j - 1] = s[j]
      BY <3>1, <1>5, <1>6
    <3> QED BY <3>1, <3>2
  <2>3. j < i \/ j > i
    BY <1>0, <1>8
  <2> QED BY <2>1, <2>2, <2>3
<1> QED BY <1>0, <1>5, <1>7, <1>8 DEF t

\* The tool is looked up: the entry of the window is there, and it is taken.
LEMMA GetPendingCalm ==
  ASSUME TypeInv, OnceInv, QuietInv, ToolInv, PromptInv, NEW r \in requests, GetPending(r)
  PROVE  QuietInv' /\ ToolInv' /\ PromptInv'
<1>1. r \in Request /\ r.from \in Windows /\ r.at = "state" /\ r.kind = "permission" /\ r.window = r.from /\ r.at \in Early
  BY CalmTypes DEF GetPending, QuietInv, Early
<1>2. UNCHANGED <<claude, using, asking, hooks, subscribed, queue, full, channel, updates, popups, choices, cached>>
  BY DEF GetPending, external, tui
<1>a. DOMAIN pending = 1 .. Len(pending)
  BY CalmTypes
<1>3. Looks(r.from) /\ Noted(r.from)
  BY <1>1 DEF Looks, ToolInv
<1>4. PICK i \in 1 .. Len(pending) :
        /\ pending[i].window = r.from
        /\ pending' = Without(pending, i)
        /\ requests' = (requests \ {r}) \cup {[r EXCEPT !.tool = pending[i].tool, !.at = "activity"]}
  BY <1>a, <1>1, <1>3 DEF GetPending, Replace, Noted, Without
<1> DEFINE s == [r EXCEPT !.tool = pending[i].tool, !.at = "activity"]
<1>5. s.n = r.n /\ s.kind = r.kind /\ s.from = r.from /\ s.window = r.window /\ s.at = "activity" /\ s.tool = pending[i].tool
  BY <1>1 DEF Request
<1>6. requests' = (requests \ {r}) \cup {s}
  BY <1>4
<1> HIDE DEF s
<1>7. s \in requests' /\ (\A q \in requests : q = r \/ q \in requests') /\ (\A q \in requests' : q = s \/ (q \in requests /\ q # r))
  BY <1>6
<1>8. s.tool = using[s.from]
  BY <1>4, <1>5 DEF ToolInv
<1>9. /\ Len(pending) \in Nat /\ Len(pending') = Len(pending) - 1
      /\ \A k \in 1 .. Len(pending') :
           Before(k, i) \in 1 .. Len(pending) /\ Before(k, i) # i /\ pending'[k] = pending[Before(k, i)]
      /\ \A j \in 1 .. Len(pending) : j # i => \E k \in 1 .. Len(pending') : pending'[k] = pending[j]
  <2> DEFINE P == [window : Windows, tool : Tool]
  <2>1. pending \in Seq(P)
    BY CalmTypes
  <2> HIDE DEF P
  <2>2. i \in 1 .. Len(pending) /\ pending' = Without(pending, i)
    BY <1>4
  <2> QED BY <2>1, <2>2, WithoutEntry
<1>10. \A k \in 1 .. Len(pending') : \E j \in 1 .. Len(pending) : j # i /\ pending'[k] = pending[j]
  BY <1>9
<1>11. \A j \in 1 .. Len(pending) : j # i => pending[j].window # r.from
  BY <1>4 DEF ToolInv
<1>12. \A k \in 1 .. Len(pending') : pending'[k].tool = using[pending'[k].window]
  BY <1>10 DEF ToolInv
<1>13. \A k, l \in 1 .. Len(pending') : pending'[k].window = pending'[l].window => k = l
  <2> SUFFICES ASSUME NEW k \in 1 .. Len(pending'), NEW l \in 1 .. Len(pending'), pending'[k].window = pending'[l].window
               PROVE  k = l
    OBVIOUS
  <2>1. Before(k, i) = Before(l, i)
    BY <1>9 DEF ToolInv
  <2> QED BY <1>9, <2>1 DEF Before
<1>14. ~Noted(r.from)' /\ \A w \in Windows : w # r.from => (Noted(w)' <=> Noted(w))
  <2>1. ~Noted(r.from)'
    BY <1>10, <1>11 DEF Noted
  <2>2. ASSUME NEW w \in Windows, w # r.from PROVE Noted(w)' <=> Noted(w)
    <3>1. ASSUME Noted(w) PROVE Noted(w)'
      <4>1. PICK j \in 1 .. Len(pending) : pending[j].window = w
        BY <3>1 DEF Noted
      <4>2. j # i
        BY <4>1, <1>4, <2>2
      <4>3. PICK k \in 1 .. Len(pending') : pending'[k] = pending[j]
        BY <4>2, <1>9
      <4> QED BY <4>1, <4>3 DEF Noted
    <3>2. ASSUME Noted(w)' PROVE Noted(w)
      <4>1. PICK k \in 1 .. Len(pending') : pending'[k].window = w
        BY <3>2 DEF Noted
      <4>2. PICK j \in 1 .. Len(pending) : pending'[k] = pending[j]
        BY <1>10
      <4> QED BY <4>1, <4>2 DEF Noted
    <3> QED BY <3>1, <3>2
  <2> QED BY <2>1, <2>2
<1>15. \A q \in requests : q.kind = "permission" /\ q.from = r.from => q = r
  BY <1>1 DEF PromptInv, OnceInv, SinglesInv, Single
<1>16. ~Looks(r.from)' /\ \A w \in Windows : w # r.from => (Looks(w)' <=> Looks(w))
  <2>1. ~Looks(r.from)'
    BY <1>5, <1>7, <1>15 DEF Looks, Early
  <2>2. \A w \in Windows : w # r.from => (Looks(w)' <=> Looks(w))
    BY <1>5, <1>7 DEF Looks
  <2> QED BY <2>1, <2>2
<1>17. \A w \in Windows : Notes(w)' <=> Notes(w)
  BY <1>1, <1>5, <1>7 DEF Notes
<1>18. claude[r.from] # "checking"
  <2>1. asking[r.from] = r.n /\ r.n # 0
    BY <1>1, CalmTypes DEF PromptInv
  <2>2. claude[r.from] = "asking"
    BY <1>1, <2>1 DEF PromptInv
  <2> QED BY <2>2
<1>19. \A w \in Windows : Noted(w)' <=> (claude'[w] = "checking" /\ ~Notes(w)') \/ Looks(w)'
  <2> SUFFICES ASSUME NEW w \in Windows PROVE Noted(w)' <=> (claude'[w] = "checking" /\ ~Notes(w)') \/ Looks(w)'
    OBVIOUS
  <2>1. CASE w = r.from
    BY <2>1, <1>2, <1>14, <1>16, <1>18
  <2>2. CASE w # r.from
    BY <2>2, <1>2, <1>14, <1>16, <1>17 DEF ToolInv
  <2> QED BY <2>1, <2>2
<1>20. /\ \A q \in requests' : q.kind = "tool_info" => claude[q.from] = "checking" /\ q.tool = using[q.from]
       /\ \A p, q \in requests' : p.kind = "tool_info" /\ q.kind = "tool_info" /\ p.from = q.from => p = q
  BY <1>1, <1>5, <1>7 DEF ToolInv
<1>21. ToolInv'
  BY <1>2, <1>12, <1>13, <1>19, <1>20 DEF ToolInv
<1>22. QuietInv'
  BY <1>1, <1>2, <1>5, <1>7 DEF QuietInv
<1>23. Carried' = Carried
  BY <1>2 DEF Carried, InChannel
<1>24. PromptInv'
  BY <1>1, <1>2, <1>5, <1>7, <1>8, <1>23 DEF PromptInv
<1> QED BY <1>21, <1>22, <1>24

\* Every step of a handler keeps the calm.
LEMMA HandlerCalm ==
  ASSUME TypeInv, OnceInv, Calm, QuietInv, ToolInv, PromptInv, NEW r \in requests, Handler(r)
  PROVE  QuietInv' /\ ToolInv' /\ PromptInv'
<1>1. r \in Request /\ r.from \in Windows /\ (r.at # "resolve" => r.window = r.from)
  BY CalmTypes DEF QuietInv
<1>2. \A w \in Windows : cached[w] \in {NoWindow, w}
  BY DEF QuietInv
<1>3. CASE Resolve(r)
  <2>1. PICK w \in Places :
          /\ \/ cached[r.from] # NoWindow /\ w = cached[r.from]
             \/ cached[r.from] = NoWindow /\ w = r.from
             \/ cached[r.from] = NoWindow /\ May("tmuxFails") /\ w = IF r.kind = "tool_info" THEN NoWindow ELSE LastPendingWindow
          /\ cached' = [cached EXCEPT ![r.from] = w]
          /\ IF w = NoWindow /\ r.kind # "stop" THEN Done(r)
             ELSE Replace(r, [r EXCEPT !.window = w, !.at = IF r.kind \in {"tool_info", "permission"} THEN "state" ELSE "activity"])
    BY <1>3 DEF Resolve
  <2>2. w = r.from /\ w # NoWindow
    BY <1>1, <1>2, <2>1, ConstantsAssumption DEF Calm, May
  <2> DEFINE a == IF r.kind \in {"tool_info", "permission"} THEN "state" ELSE "activity"
             s == [r EXCEPT !.window = w, !.at = a]
  <2>3. s.n = r.n /\ s.kind = r.kind /\ s.from = r.from /\ s.tool = r.tool /\ s.window = s.from /\ s.at = a
    BY <1>1, <2>2 DEF Request
  <2>4. requests' = (requests \ {r}) \cup {s}
    BY <2>1, <2>2 DEF Replace
  <2>5. a # "enqueue" /\ (r.kind \in {"tool_info", "permission"} => (a \in Early <=> r.at \in Early))
    BY <1>3 DEF Resolve, Early
  <2>6. UNCHANGED <<claude, using, asking, pending, hooks, subscribed, queue, full, channel, updates, popups, choices>>
    BY <1>3 DEF Resolve, external, tui
  <2>7. \A v \in Windows : cached'[v] \in {NoWindow, v}
    BY <1>2, <2>1, <2>2 DEF TypeInv, TypeOK
  <2> HIDE DEF a, s
  <2> QED BY <2>3, <2>4, <2>5, <2>6, <2>7, MoveOn
<1>4. CASE SetActivity(r)
  <2> DEFINE a == IF r.kind = "permission" THEN "check" ELSE "publish"
             s == [r EXCEPT !.at = a]
  <2>1. /\ r.at = "activity" /\ requests' = (requests \ {r}) \cup {s}
        /\ UNCHANGED <<claude, using, asking, pending, hooks, subscribed, queue, full, channel, updates, popups, choices, cached>>
    BY <1>4 DEF SetActivity, Replace, external, tui
  <2>2. s.n = r.n /\ s.kind = r.kind /\ s.from = r.from /\ s.tool = r.tool /\ s.window = s.from /\ s.at = a
    BY <1>1, <2>1 DEF Request
  <2>3. a # "enqueue" /\ a \notin Early /\ r.at \notin Early
    BY <2>1 DEF Early
  <2> HIDE DEF a, s
  <2> QED BY <1>2, <2>1, <2>2, <2>3, MoveOn
<1>5. CASE CheckSubscribers(r)
  <2> DEFINE s == [r EXCEPT !.at = "publish"]
  <2>1. /\ r.at = "check" /\ requests' = (requests \ {r}) \cup {s}
        /\ UNCHANGED <<claude, using, asking, pending, hooks, subscribed, queue, full, channel, updates, popups, choices, cached>>
    BY <1>5 DEF CheckSubscribers, Replace, QuietInv, external, tui
  <2>2. s.n = r.n /\ s.kind = r.kind /\ s.from = r.from /\ s.tool = r.tool /\ s.window = s.from /\ s.at = "publish"
    BY <1>1, <2>1 DEF Request
  <2>3. "publish" \notin Early /\ r.at \notin Early
    BY <2>1 DEF Early
  <2> HIDE DEF s
  <2> QED BY <1>2, <2>1, <2>2, <2>3, MoveOn
<1>6. ~Enqueue(r)
  BY DEF Enqueue, QuietInv
<1> QED BY <1>3, <1>4, <1>5, <1>6, SetPendingCalm, GetPendingCalm, PublishCalm DEF Handler

\* The request of a hook that is posted.
LEMMA PostedRequest ==
  ASSUME NEW w, NEW kind, NEW tool, Post(w, kind, tool)
  PROVE  \E s : /\ requests' = requests \cup {s} /\ hooks' = hooks + 1
                /\ s.n = hooks + 1 /\ s.kind = kind /\ s.from = w /\ s.tool = tool /\ s.at = "resolve"
<1> DEFINE s == [n |-> hooks + 1, kind |-> kind, from |-> w, tool |-> tool, at |-> "resolve", window |-> NoWindow]
<1>1. s.n = hooks + 1 /\ s.kind = kind /\ s.from = w /\ s.tool = tool /\ s.at = "resolve"
  OBVIOUS
<1>2. requests' = requests \cup {s} /\ hooks' = hooks + 1
  BY DEF Post
<1> HIDE DEF s
<1> QED BY <1>1, <1>2

\* A Claude that asks nothing has nothing carried, and one that neither checks
\* nor asks has nothing noted either.
LEMMA Unasked ==
  ASSUME TypeInv, ToolInv, PromptInv, NEW w \in Windows, claude[w] # "asking"
  PROVE  /\ asking[w] = 0 /\ ~Looks(w)
         /\ \A r \in requests : r.kind = "permission" => r.from # w
         /\ \A e \in Carried : e.window # w
         /\ claude[w] # "checking" => ~Notes(w) /\ ~Noted(w) /\ \A r \in requests : r.kind = "tool_info" => r.from # w
<1>1. asking[w] = 0
  BY DEF PromptInv
<1>2. \A r \in requests : r.kind = "permission" => r.from # w
  BY <1>1, CalmTypes DEF PromptInv
<1>3. \A e \in Carried : e.window # w
  BY <1>1, CalmTypes DEF PromptInv
<1>4. ~Looks(w)
  BY <1>2 DEF Looks
<1>5. ASSUME claude[w] # "checking" PROVE ~Notes(w) /\ ~Noted(w) /\ \A r \in requests : r.kind = "tool_info" => r.from # w
  <2>1. \A r \in requests : r.kind = "tool_info" => r.from # w
    BY <1>5 DEF ToolInv
  <2>2. ~Notes(w)
    BY <2>1 DEF Notes
  <2>3. ~Noted(w)
    BY <1>4, <1>5 DEF ToolInv
  <2> QED BY <2>1, <2>2, <2>3
<1> QED BY <1>1, <1>2, <1>3, <1>4, <1>5

\* What Claude does keeps the calm.
LEMMA ClaudeCalm ==
  ASSUME TypeInv, OnceInv, Calm, QuietInv, ToolInv, PromptInv, NEW w \in Windows, Claude(w)
  PROVE  QuietInv' /\ ToolInv' /\ PromptInv'
<1>1. /\ claude \in [Windows -> {"idle", "running", "checking", "asking"}]
      /\ using \in [Windows -> Tool] /\ asking \in [Windows -> Nat] /\ hooks \in Nat
  BY CalmTypes
<1>2. UNCHANGED <<cached, pending, subscribed, queue, full, channel, updates, popups, choices>>
  BY DEF Claude, Submit, UseTool, Allow, Ask, Finish, server, tui
<1>3. ~May("hookTimeouts") /\ ~May("autoApproval")
  BY DEF Calm, May
<1>4. Carried' = Carried
  BY <1>2 DEF Carried, InChannel
<1>5. \A v \in Windows : Noted(v)' <=> Noted(v)
  BY <1>2 DEF Noted
<1>6. claude[w] # "asking" /\ ~Allow(w)
  BY <1>3 DEF Claude, Submit, UseTool, Allow, Ask, Finish
\* A hook of a prompt or of the end of a turn is not about tools.
<1>7. CASE Submit(w) \/ Finish(w)
  <2>1. PICK kind \in {"prompt", "stop"} : Post(w, kind, 0)
    BY <1>7 DEF Submit, Finish
  <2>2. PICK s : /\ requests' = requests \cup {s} /\ hooks' = hooks + 1
                 /\ s.n = hooks + 1 /\ s.kind = kind /\ s.from = w /\ s.tool = 0 /\ s.at = "resolve"
    BY <2>1, PostedRequest
  <2>3. /\ claude[w] # "checking" /\ claude'[w] \notin {"checking", "asking"}
        /\ \A v \in Windows : v # w => claude'[v] = claude[v]
        /\ UNCHANGED <<using, asking>>
    BY <1>1, <1>7 DEF Submit, Finish
  <2>4. \A v \in Windows : (Notes(v)' <=> Notes(v)) /\ (Looks(v)' <=> Looks(v))
    BY <2>2 DEF Notes, Looks
  <2>5. QuietInv'
    BY <1>2, <2>2 DEF QuietInv
  <2>6. ToolInv'
    <3>1. \A v \in Windows : Noted(v)' <=> (claude'[v] = "checking" /\ ~Notes(v)') \/ Looks(v)'
      BY <1>5, <2>3, <2>4 DEF ToolInv
    <3>2. \A r \in requests' : r.kind = "tool_info" => r \in requests /\ claude'[r.from] = "checking" /\ r.tool = using[r.from]
      <4>1. \A r \in requests : r.kind = "tool_info" => r.from \in Windows /\ claude[r.from] = "checking" /\ r.tool = using[r.from]
        BY CalmTypes DEF ToolInv
      <4> QED BY <2>2, <2>3, <4>1
    <3> QED BY <1>2, <2>3, <3>1, <3>2 DEF ToolInv
  <2>7. PromptInv'
    <3>1. asking[w] = 0
      BY <1>6, Unasked
    <3>2. \A v \in Windows : asking[v] =< hooks'
      BY <1>1, <2>2 DEF PromptInv
    <3>3. \A v \in Windows : claude'[v] = "asking" <=> asking[v] # 0
      BY <2>3, <3>1 DEF PromptInv
    <3>4. \A r \in requests' : r.kind = "permission" => r \in requests
      BY <2>2
    <3>5. \A r \in requests : r \in requests'
      BY <2>2
    <3> QED BY <1>4, <2>3, <3>2, <3>3, <3>4, <3>5 DEF PromptInv
  <2> QED BY <2>5, <2>6, <2>7
<1>8. CASE UseTool(w)
  <2>1. Post(w, "tool_info", tools + 1) /\ claude[w] = "running" /\ claude' = [claude EXCEPT ![w] = "checking"]
        /\ using' = [using EXCEPT ![w] = tools + 1] /\ asking' = asking
    BY <1>8 DEF UseTool
  <2>2. PICK s : /\ requests' = requests \cup {s} /\ hooks' = hooks + 1
                 /\ s.n = hooks + 1 /\ s.kind = "tool_info" /\ s.from = w /\ s.tool = tools + 1 /\ s.at = "resolve"
    BY <2>1, PostedRequest
  <2>3. /\ claude'[w] = "checking" /\ using'[w] = tools + 1
        /\ \A v \in Windows : v # w => claude'[v] = claude[v] /\ using'[v] = using[v]
    BY <1>1, <2>1
  <2>4. /\ asking[w] = 0 /\ ~Looks(w) /\ ~Noted(w) /\ ~Notes(w)
        /\ \A r \in requests : r.kind \in {"tool_info", "permission"} => r.from # w
        /\ \A e \in Carried : e.window # w
    BY <2>1, Unasked
  <2>5. Notes(w)' /\ (\A v \in Windows : v # w => (Notes(v)' <=> Notes(v))) /\ (\A v \in Windows : Looks(v)' <=> Looks(v))
    <3>1. Notes(w)'
      BY <2>2 DEF Notes, Early
    <3>2. \A v \in Windows : v # w => (Notes(v)' <=> Notes(v))
      BY <2>2 DEF Notes
    <3>3. \A v \in Windows : Looks(v)' <=> Looks(v)
      BY <2>2 DEF Looks
    <3> QED BY <3>1, <3>2, <3>3
  <2>6. QuietInv'
    BY <1>2, <2>2 DEF QuietInv
  <2>7. ToolInv'
    <3>1. \A v \in Windows : Noted(v)' <=> (claude'[v] = "checking" /\ ~Notes(v)') \/ Looks(v)'
      <4> SUFFICES ASSUME NEW v \in Windows PROVE Noted(v)' <=> (claude'[v] = "checking" /\ ~Notes(v)') \/ Looks(v)'
        OBVIOUS
      <4>1. CASE v = w
        BY <4>1, <1>5, <2>4, <2>5
      <4>2. CASE v # w
        BY <4>2, <1>5, <2>3, <2>5 DEF ToolInv
      <4> QED BY <4>1, <4>2
    <3>2. \A r \in requests : r.kind = "tool_info" =>
            r.from \in Windows /\ r.from # w /\ claude[r.from] = "checking" /\ r.tool = using[r.from]
      BY <2>4, CalmTypes DEF ToolInv
    <3>3. \A r \in requests' : r.kind = "tool_info" => claude'[r.from] = "checking" /\ r.tool = using'[r.from]
      BY <2>2, <2>3, <3>2
    <3>4. \A q, r \in requests' : q.kind = "tool_info" /\ r.kind = "tool_info" /\ q.from = r.from => q = r
      BY <2>2, <3>2 DEF ToolInv
    <3>5. \A i \in 1 .. Len(pending) : pending[i].window \in Windows /\ pending[i].window # w
      BY <2>4, CalmTypes DEF Noted
    <3>6. \A i \in 1 .. Len(pending') : pending'[i].tool = using'[pending'[i].window]
      BY <1>2, <2>3, <3>5 DEF ToolInv
    <3>7. \A i, j \in 1 .. Len(pending') : pending'[i].window = pending'[j].window => i = j
      BY <1>2 DEF ToolInv
    <3> QED BY <3>1, <3>3, <3>4, <3>6, <3>7 DEF ToolInv
  <2>8. PromptInv'
    <3>1. \A v \in Windows : asking'[v] =< hooks'
      BY <1>1, <2>1, <2>2 DEF PromptInv
    <3>2. \A v \in Windows : claude'[v] = "asking" <=> asking'[v] # 0
      BY <2>1, <2>3, <2>4 DEF PromptInv
    <3>3. \A v, u \in Windows : asking'[v] = asking'[u] /\ asking'[v] # 0 => v = u
      BY <2>1 DEF PromptInv
    <3>4. \A r \in requests' : r.kind = "permission" => asking'[r.from] = r.n /\ r.tool = using'[r.from]
      <4>1. \A r \in requests : r.kind = "permission" => r.from \in Windows /\ r.from # w
        BY <2>4, CalmTypes
      <4> QED BY <2>1, <2>2, <2>3, <4>1 DEF PromptInv
    <3>5. \A e \in Carried' : e.window \in Windows /\ asking'[e.window] = e.n /\ e.tool = using'[e.window]
      BY <1>4, <2>1, <2>3, <2>4 DEF PromptInv
    <3>6. \A v \in Windows : asking'[v] # 0 =>
            (\E r \in requests' : r.kind = "permission" /\ r.from = v) \/ (\E e \in Carried' : e.window = v)
      BY <1>4, <2>1, <2>2 DEF PromptInv
    <3> QED BY <3>1, <3>2, <3>3, <3>4, <3>5, <3>6 DEF PromptInv
  <2> QED BY <2>6, <2>7, <2>8
<1>9. CASE Ask(w)
  <2>1. /\ Post(w, "permission", using[w]) /\ claude[w] = "checking" /\ claude' = [claude EXCEPT ![w] = "asking"]
        /\ asking' = [asking EXCEPT ![w] = hooks + 1] /\ using' = using
        /\ \A r \in requests : r.from = w => r.kind = "permission"
    BY <1>3, <1>9 DEF Ask, HooksDone
  <2>2. PICK s : /\ requests' = requests \cup {s} /\ hooks' = hooks + 1
                 /\ s.n = hooks + 1 /\ s.kind = "permission" /\ s.from = w /\ s.tool = using[w] /\ s.at = "resolve"
    BY <2>1, PostedRequest
  <2>3. /\ claude'[w] = "asking" /\ asking'[w] = hooks + 1
        /\ \A v \in Windows : v # w => claude'[v] = claude[v] /\ asking'[v] = asking[v]
    BY <1>1, <2>1
  <2>4. /\ asking[w] = 0 /\ ~Looks(w)
        /\ \A r \in requests : r.kind = "permission" => r.from # w
        /\ \A e \in Carried : e.window # w
    BY <2>1, Unasked
  <2>5. ~Notes(w) /\ Noted(w) /\ \A r \in requests : r.from # w
    <3>1. \A r \in requests : r.from # w
      BY <2>1, <2>4
    <3>2. ~Notes(w)
      BY <3>1 DEF Notes
    <3> QED BY <2>1, <3>1, <3>2 DEF ToolInv
  <2>6. Looks(w)' /\ (\A v \in Windows : v # w => (Looks(v)' <=> Looks(v))) /\ (\A v \in Windows : Notes(v)' <=> Notes(v))
    <3>1. Looks(w)'
      BY <2>2 DEF Looks, Early
    <3>2. \A v \in Windows : v # w => (Looks(v)' <=> Looks(v))
      BY <2>2 DEF Looks
    <3>3. \A v \in Windows : Notes(v)' <=> Notes(v)
      BY <2>2 DEF Notes
    <3> QED BY <3>1, <3>2, <3>3
  <2>7. QuietInv'
    BY <1>2, <2>2 DEF QuietInv
  <2>8. ToolInv'
    <3>1. \A v \in Windows : Noted(v)' <=> (claude'[v] = "checking" /\ ~Notes(v)') \/ Looks(v)'
      <4> SUFFICES ASSUME NEW v \in Windows PROVE Noted(v)' <=> (claude'[v] = "checking" /\ ~Notes(v)') \/ Looks(v)'
        OBVIOUS
      <4>1. CASE v = w
        BY <4>1, <1>5, <2>5, <2>6
      <4>2. CASE v # w
        BY <4>2, <1>5, <2>3, <2>6 DEF ToolInv
      <4> QED BY <4>1, <4>2
    <3>2. \A r \in requests : r.kind = "tool_info" =>
            r.from \in Windows /\ r.from # w /\ claude[r.from] = "checking" /\ r.tool = using[r.from]
      BY <2>5, CalmTypes DEF ToolInv
    <3>3. \A r \in requests' : r.kind = "tool_info" => r \in requests /\ claude'[r.from] = "checking" /\ r.tool = using[r.from]
      BY <2>2, <2>3, <3>2
    <3> QED BY <1>2, <2>1, <3>1, <3>3 DEF ToolInv
  <2>9. PromptInv'
    <3>0. \A v \in Windows : asking[v] \in Nat /\ asking[v] =< hooks
      BY <1>1 DEF PromptInv
    <3>1. \A v \in Windows : asking'[v] =< hooks'
      BY <1>1, <2>2, <2>3, <3>0
    <3>2. \A v \in Windows : claude'[v] = "asking" <=> asking'[v] # 0
      <4>1. hooks + 1 # 0
        BY <1>1
      <4> QED BY <2>3, <4>1 DEF PromptInv
    <3>3. \A v, u \in Windows : asking'[v] = asking'[u] /\ asking'[v] # 0 => v = u
      <4>1. \A v \in Windows : asking[v] # hooks + 1
        BY <1>1, <3>0
      <4> QED BY <2>3, <4>1 DEF PromptInv
    <3>4. \A r \in requests' : r.kind = "permission" => asking'[r.from] = r.n /\ r.tool = using'[r.from]
      <4>1. \A r \in requests : r.kind = "permission" => r.from \in Windows /\ r.from # w
        BY <2>4, CalmTypes
      <4> QED BY <2>1, <2>2, <2>3, <4>1 DEF PromptInv
    <3>5. \A e \in Carried' : e.window \in Windows /\ asking'[e.window] = e.n /\ e.tool = using'[e.window]
      BY <1>4, <2>1, <2>3, <2>4 DEF PromptInv
    <3>6. \A v \in Windows : asking'[v] # 0 =>
            (\E r \in requests' : r.kind = "permission" /\ r.from = v) \/ (\E e \in Carried' : e.window = v)
      BY <1>4, <2>2, <2>3 DEF PromptInv
    <3> QED BY <3>1, <3>2, <3>3, <3>4, <3>5, <3>6 DEF PromptInv
  <2> QED BY <2>7, <2>8, <2>9
<1> QED BY <1>6, <1>7, <1>8, <1>9 DEF Claude

\* Steps that leave Claude and the server alone, and lose no prompt.
LEMMA CarriedOn ==
  ASSUME QuietInv, ToolInv, PromptInv, Carried' = Carried, \A p \in popups' \cup choices' : p.popup,
         UNCHANGED <<claude, using, asking, requests, cached, pending, hooks, subscribed, queue, full>>
  PROVE  QuietInv' /\ ToolInv' /\ PromptInv'
<1>1. QuietInv'
  BY DEF QuietInv
<1>2. \A w \in Windows : (Notes(w)' <=> Notes(w)) /\ (Looks(w)' <=> Looks(w)) /\ (Noted(w)' <=> Noted(w))
  BY DEF Notes, Looks, Noted
<1>3. ToolInv'
  BY <1>2 DEF ToolInv
<1>4. PromptInv'
  BY DEF PromptInv
<1> QED BY <1>1, <1>3, <1>4

\* The choice of a popup ends the prompt it carries.
LEMMA ChoiceCalm ==
  ASSUME TypeInv, OnceInv, QuietInv, ToolInv, PromptInv, NEW p \in choices, SendChoice(p)
  PROVE  /\ asking[p.window] = p.n
         /\ QuietInv' /\ ToolInv' /\ PromptInv'
<1> DEFINE w == p.window
<1>1. p \in Carried /\ p.popup
  BY DEF QuietInv, Carried
<1>2. w \in Windows /\ asking[w] = p.n /\ p.n # 0
  BY <1>1, CalmTypes DEF PromptInv
<1>3. claude[w] = "asking"
  BY <1>2 DEF PromptInv
<1>4. /\ claude' = [claude EXCEPT ![w] = "running"] /\ asking' = [asking EXCEPT ![w] = 0] /\ choices' = choices \ {p}
      /\ UNCHANGED <<using, requests, cached, pending, hooks, subscribed, queue, full, channel, updates, popups>>
  BY <1>3 DEF SendChoice, Answered, server
<1> HIDE DEF w
<1>5. /\ claude'[w] = "running" /\ asking'[w] = 0
      /\ \A v \in Windows : v # w => claude'[v] = claude[v] /\ asking'[v] = asking[v]
  BY <1>2, <1>4, CalmTypes
\* Nothing else has its number.
<1>6. \A r \in requests : r.n # p.n
  BY DEF OnceInv, PlacesInv, Apart, Numbers
<1>7. \A r \in requests : r.kind = "permission" => r.from \in Windows /\ r.from # w
  BY <1>2, <1>6, CalmTypes DEF PromptInv
<1>8. \A r \in requests : r.kind = "tool_info" => r.from \in Windows /\ r.from # w
  BY <1>3, CalmTypes DEF ToolInv
<1>9. ~Notes(w) /\ ~Looks(w)
  BY <1>7, <1>8 DEF Notes, Looks
<1>10. ~Noted(w)
  BY <1>2, <1>3, <1>9 DEF ToolInv
<1>11. \A v \in Windows : (Notes(v)' <=> Notes(v)) /\ (Looks(v)' <=> Looks(v)) /\ (Noted(v)' <=> Noted(v))
  BY <1>4 DEF Notes, Looks, Noted
<1>12. Carried' = Carried \ {p}
  <2>1. \A e \in InChannel \cup updates \cup popups : e.n # p.n
    <3>1. \A e \in InChannel : e.n \in NumbersOf(channel)
      <4>1. DOMAIN channel = 1 .. Len(channel)
        BY DEF TypeInv, TypeOK
      <4> QED BY <4>1 DEF InChannel, NumbersOf
    <3>2. p.n \in Numbers(choices) /\ \A e \in updates \cup popups : e.n \in Numbers(updates) \cup Numbers(popups)
      BY DEF Numbers
    <3> QED BY <3>1, <3>2 DEF OnceInv, PlacesInv, Apart
  <2>2. p \notin InChannel \cup updates \cup popups
    BY <2>1
  <2>3. InChannel' = InChannel
    BY <1>4 DEF InChannel
  <2> QED BY <1>4, <2>2, <2>3 DEF Carried
<1>13. QuietInv'
  BY <1>4 DEF QuietInv
<1>14. ToolInv'
  <2>1. \A v \in Windows : Noted(v)' <=> (claude'[v] = "checking" /\ ~Notes(v)') \/ Looks(v)'
    <3> SUFFICES ASSUME NEW v \in Windows PROVE Noted(v)' <=> (claude'[v] = "checking" /\ ~Notes(v)') \/ Looks(v)'
      OBVIOUS
    <3>1. CASE v = w
      BY <3>1, <1>5, <1>9, <1>10, <1>11
    <3>2. CASE v # w
      BY <3>2, <1>5, <1>11 DEF ToolInv
    <3> QED BY <3>1, <3>2
  <2>2. \A r \in requests' : r.kind = "tool_info" => claude'[r.from] = "checking" /\ r.tool = using'[r.from]
    BY <1>4, <1>5, <1>8 DEF ToolInv
  <2> QED BY <1>4, <2>1, <2>2 DEF ToolInv
<1>15. \A e \in Carried' : e.window # w
  <2>1. SUFFICES ASSUME NEW e \in Carried', e.window = w PROVE FALSE
    OBVIOUS
  <2>2. e \in Carried /\ e # p
    BY <1>12, <2>1
  <2>3. e.n = p.n
    BY <1>2, <2>1, <2>2 DEF PromptInv
  <2>4. e \in choices
    <3>1. e \in InChannel \cup updates \cup popups \cup choices
      BY <2>2 DEF Carried
    <3>2. e \in InChannel => e.n \in NumbersOf(channel)
      <4>1. DOMAIN channel = 1 .. Len(channel)
        BY DEF TypeInv, TypeOK
      <4> QED BY <4>1 DEF InChannel, NumbersOf
    <3>3. p.n \in Numbers(choices) /\ (e \in updates => e.n \in Numbers(updates)) /\ (e \in popups => e.n \in Numbers(popups))
      BY DEF Numbers
    <3> QED BY <2>3, <3>1, <3>2, <3>3 DEF OnceInv, PlacesInv, Apart
  <2> QED BY <2>2, <2>3, <2>4 DEF OnceInv, SinglesInv, Single
<1>16. PromptInv'
  <2>1. \A v \in Windows : claude'[v] = "asking" <=> asking'[v] # 0
    BY <1>5 DEF PromptInv
  <2>2. \A v \in Windows : asking'[v] =< hooks'
    <3>1. 0 =< hooks
      BY CalmTypes
    <3> QED BY <1>4, <1>5, <3>1 DEF PromptInv
  <2>3. \A v, u \in Windows : asking'[v] = asking'[u] /\ asking'[v] # 0 => v = u
    BY <1>5 DEF PromptInv
  <2>4. \A r \in requests' : r.kind = "permission" => asking'[r.from] = r.n /\ r.tool = using'[r.from]
    BY <1>4, <1>5, <1>7 DEF PromptInv
  <2>5. \A e \in Carried' : e.window \in Windows /\ asking'[e.window] = e.n /\ e.tool = using'[e.window]
    BY <1>4, <1>5, <1>12, <1>15 DEF PromptInv
  <2>6. \A v \in Windows : asking'[v] # 0 =>
          (\E r \in requests' : r.kind = "permission" /\ r.from = v) \/ (\E e \in Carried' : e.window = v)
    <3> SUFFICES ASSUME NEW v \in Windows, asking'[v] # 0
                 PROVE  (\E r \in requests' : r.kind = "permission" /\ r.from = v) \/ (\E e \in Carried' : e.window = v)
      OBVIOUS
    <3>1. v # w /\ asking[v] # 0
      BY <1>5
    <3>2. CASE \E r \in requests : r.kind = "permission" /\ r.from = v
      BY <3>2, <1>4
    <3>3. CASE \E e \in Carried : e.window = v
      <4>1. PICK e \in Carried : e.window = v
        BY <3>3
      <4>2. e # p
        BY <3>1, <4>1 DEF w
      <4> QED BY <4>1, <4>2, <1>12
    <3> QED BY <3>1, <3>2, <3>3 DEF PromptInv
  <2> QED BY <2>1, <2>2, <2>3, <2>4, <2>5, <2>6 DEF PromptInv
<1> QED BY <1>2, <1>13, <1>14, <1>16 DEF w

\* An event moves on through the TUI.
LEMMA TuiCalm ==
  ASSUME TypeInv, QuietInv, ToolInv, PromptInv,
         \/ \E e \in updates : Apply(e)
         \/ \E p \in popups : Dismiss(p)
         \/ Receive
  PROVE  QuietInv' /\ ToolInv' /\ PromptInv'
<1>1. UNCHANGED <<claude, using, asking, requests, cached, pending, hooks, subscribed, queue, full>>
  BY DEF Apply, Dismiss, Receive, external, server
<1>2. \A p \in popups \cup choices : p.popup
  BY DEF QuietInv
<1>3. ASSUME NEW e \in updates, Apply(e) PROVE Carried' = Carried /\ \A p \in popups' \cup choices' : p.popup
  <2>1. updates' = updates \ {e} /\ popups' = popups \cup {p \in {e} : Visible(p)} /\ UNCHANGED <<channel, choices>>
    BY <1>3 DEF Apply
  <2>2. Visible(e) <=> e.popup
    <3>1. e.popup => e \in Carried
      BY DEF Carried
    <3>2. e.popup => e.window \in Windows
      BY <3>1 DEF PromptInv
    <3> QED BY <3>2, ConstantsAssumption DEF Visible, QuietInv
  <2>3. popups' = IF e.popup THEN popups \cup {e} ELSE popups
    BY <2>1, <2>2
  <2>4. InChannel' = InChannel
    BY <2>1 DEF InChannel
  <2> QED BY <1>2, <2>1, <2>3, <2>4 DEF Carried
<1>4. ASSUME NEW p \in popups, Dismiss(p) PROVE Carried' = Carried /\ \A q \in popups' \cup choices' : q.popup
  <2>1. popups' = popups \ {p} /\ choices' = choices \cup {p} /\ UNCHANGED <<channel, updates>>
    BY <1>4 DEF Dismiss
  <2>2. InChannel' = InChannel
    BY <2>1 DEF InChannel
  <2> QED BY <1>2, <2>1, <2>2 DEF Carried
<1>5. ASSUME Receive PROVE Carried' = Carried /\ \A q \in popups' \cup choices' : q.popup
  <2>1. channel # <<>> /\ updates' = updates \cup {Head(channel)} /\ channel' = Tail(channel) /\ UNCHANGED <<popups, choices>>
    BY <1>5 DEF Receive
  <2>2. channel \in Seq(Event)
    BY DEF TypeInv, TypeOK
  <2>3. /\ Len(channel) \in Nat /\ Len(channel) > 0 /\ Len(channel') = Len(channel) - 1 /\ Head(channel) = channel[1]
        /\ \A i \in 1 .. Len(channel) - 1 : channel'[i] = channel[i + 1]
        /\ DOMAIN channel = 1 .. Len(channel) /\ DOMAIN channel' = 1 .. Len(channel) - 1
    BY <2>1, <2>2
  <2>4. \A i \in 1 .. Len(channel) - 1 : i + 1 \in 1 .. Len(channel)
    BY <2>3
  <2>5. \A i \in 1 .. Len(channel) : i = 1 \/ (i - 1 \in 1 .. Len(channel) - 1 /\ (i - 1) + 1 = i)
    BY <2>3
  <2>6. 1 \in 1 .. Len(channel)
    BY <2>3
  <2>7. InChannel = InChannel' \cup {Head(channel)}
    <3>1. ASSUME NEW e \in InChannel PROVE e \in InChannel' \cup {Head(channel)}
      <4>1. PICK i \in 1 .. Len(channel) : e = channel[i]
        BY <2>3 DEF InChannel
      <4>2. CASE i = 1
        BY <4>1, <4>2, <2>3
      <4>3. CASE i # 1
        <5>1. i - 1 \in DOMAIN channel' /\ channel'[i - 1] = e
          BY <4>1, <4>3, <2>3, <2>5
        <5> QED BY <5>1 DEF InChannel
      <4> QED BY <4>2, <4>3
    <3>2. ASSUME NEW e \in InChannel' PROVE e \in InChannel
      <4>1. PICK i \in 1 .. Len(channel) - 1 : e = channel'[i]
        BY <2>3 DEF InChannel
      <4>2. i + 1 \in DOMAIN channel /\ channel[i + 1] = e
        BY <4>1, <2>3, <2>4
      <4> QED BY <4>2 DEF InChannel
    <3>3. Head(channel) \in InChannel
      BY <2>3, <2>6 DEF InChannel
    <3> QED BY <3>1, <3>2, <3>3
  <2> QED BY <1>2, <2>1, <2>7 DEF Carried
<1> QED BY <1>1, <1>3, <1>4, <1>5, CarriedOn

\* Calm lasts, and while it does every step keeps what it is made of.
LEMMA NextCalm == TypeInv /\ OnceInv /\ CalmInv /\ [Next]_<<env, vars>> => CalmInv'
<1> SUFFICES ASSUME TypeInv, OnceInv, CalmInv, [Next]_<<env, vars>>, Calm' PROVE QuietInv' /\ ToolInv' /\ PromptInv'
  BY DEF CalmInv
<1>1. env' = env
  BY DEF Next
<1>2. Calm
  BY <1>1 DEF Calm, MaxRestarts, MaxHooks, MaxTurns, MaxTools, Buffer
<1>3. QuietInv /\ ToolInv /\ PromptInv
  BY <1>2 DEF CalmInv
<1>4. CASE UNCHANGED <<env, vars>>
  <2>1. UNCHANGED <<claude, using, asking, requests, cached, pending, hooks, subscribed, queue, full, channel, updates, popups, choices>>
    BY <1>4 DEF vars, external, server, tui
  <2>2. Carried' = Carried
    BY <2>1 DEF Carried, InChannel
  <2>3. \A p \in popups' \cup choices' : p.popup
    BY <1>3, <2>1 DEF QuietInv
  <2> QED BY <1>3, <2>1, <2>2, <2>3, CarriedOn
<1>5. CASE Next
  <2>1. /\ \A w \in Windows : ~AnswerInPane(w) /\ ~EnterFullscreen(w)
        /\ ~ReadAll /\ ~PendingExpires /\ ~ExitFullscreen /\ ~Quit /\ ~Start
    <3>1. \A d : ~May(d)
      BY <1>2 DEF Calm, May
    <3>2. ~(restarts < MaxRestarts)
      <4>1. restarts \in 0 .. MaxRestarts /\ MaxRestarts = 0
        BY <1>2 DEF Calm, TypeInv, TypeOK
      <4> QED BY <4>1
    <3> QED BY <1>3, <3>1, <3>2 DEF QuietInv, AnswerInPane, EnterFullscreen, ReadAll, PendingExpires, ExitFullscreen, Quit, Start
  <2>2. \/ \E w \in Windows : Claude(w)
        \/ \E r \in requests : Handler(r)
        \/ \E e \in updates : Apply(e)
        \/ \E p \in popups : Dismiss(p)
        \/ \E p \in choices : SendChoice(p)
        \/ Receive
    BY <1>5, <2>1, Zenon DEF Next
  <2> QED BY <1>2, <1>3, <2>2, ClaudeCalm, HandlerCalm, TuiCalm, ChoiceCalm, Zenon
<1> QED BY <1>4, <1>5

\* In the first state nothing is asked.
LEMMA InitCalm == Init => CalmInv
<1> SUFFICES ASSUME Init PROVE QuietInv /\ ToolInv /\ PromptInv
  BY DEF CalmInv
<1>1. /\ claude = [w \in Windows |-> "idle"] /\ asking = [w \in Windows |-> 0] /\ hooks = 0
      /\ requests = {} /\ cached = [w \in Windows |-> NoWindow] /\ pending = <<>>
      /\ channel = <<>> /\ subscribed /\ queue = <<>> /\ updates = {} /\ popups = {} /\ choices = {} /\ full = NoWindow
  BY DEF Init
<1>2. Carried = {}
  BY <1>1 DEF Carried, InChannel
<1>3. \A w \in Windows : ~Notes(w) /\ ~Looks(w) /\ ~Noted(w) /\ claude[w] = "idle" /\ asking[w] = 0
  BY <1>1 DEF Notes, Looks, Noted
<1>4. QuietInv
  BY <1>1 DEF QuietInv
<1>5. ToolInv
  BY <1>1, <1>3 DEF ToolInv
<1>6. PromptInv
  BY <1>1, <1>2, <1>3 DEF PromptInv
<1> QED BY <1>4, <1>5, <1>6

\* For any number of windows, turns and tools: when nothing disturbs, an event
\* comes under the window of the Claude that posted it and names its tool.
THEOREM PromptsAreRouted == Spec => []RoutedHome
<1>1. TypeInv /\ CalmInv => RoutedHome
  <2> SUFFICES ASSUME TypeInv, QuietInv, PromptInv, NEW e \in InChannel \cup InQueue \cup updates \cup popups, e.popup,
                      NEW w \in Windows, asking[w] = e.n
               PROVE  e.window = w /\ e.tool = using[w]
    BY DEF CalmInv, RoutedHome
  <2>1. InQueue = {}
    BY DEF QuietInv, InQueue
  <2>2. e \in Carried
    BY <2>1 DEF Carried
  <2>3. e.window \in Windows /\ asking[e.window] = e.n /\ e.tool = using[e.window] /\ e.n # 0
    BY <2>2, CalmTypes DEF PromptInv
  <2>4. e.window = w
    BY <2>3 DEF PromptInv
  <2> QED BY <2>3, <2>4
<1> QED BY <1>1, InitTypes, NextTypes, OnceInit, NextOnce, InitCalm, NextCalm, PTL DEF Spec

\* When nothing disturbs and all is delivered, every open prompt has a popup.
THEOREM PromptsAreShown == Spec => []PromptIsVisible
<1>1. TypeInv /\ CalmInv => PromptIsVisible
  <2> SUFFICES ASSUME TypeInv, QuietInv, PromptInv, Settled, NEW w \in Windows, asking[w] # 0
               PROVE  \E p \in popups : p.n = asking[w] /\ p.window = w
    BY DEF CalmInv, PromptIsVisible
  <2>1. InChannel = {} /\ requests = {} /\ updates = {} /\ choices = {}
    BY DEF Settled, InChannel
  <2>2. PICK e \in Carried : e.window = w
    BY <2>1 DEF PromptInv
  <2>3. e \in popups
    BY <2>1, <2>2 DEF Carried
  <2>4. e.n = asking[w]
    BY <2>2 DEF PromptInv
  <2> QED BY <2>2, <2>3, <2>4
<1> QED BY <1>1, InitTypes, NextTypes, OnceInit, NextOnce, InitCalm, NextCalm, PTL DEF Spec

\* When nothing disturbs, the choice of a popup reaches the prompt the popup
\* was made for, in whatever order events are applied and popups answered.
THEOREM ChoicesAreRouted == Spec => ChoiceAnswersItsPrompt
<1> DEFINE Right == Calm => \A p \in choices : SendChoice(p) => asking[p.window] = p.n
<1>1. TypeInv /\ OnceInv /\ CalmInv => Right
  BY ChoiceCalm DEF CalmInv
<1>2. TypeInv /\ OnceInv /\ CalmInv /\ [Next]_<<env, vars>> => [Right]_vars
  BY <1>1
<1>3. ChoiceAnswersItsPrompt <=> [][Right]_vars
  BY DEF ChoiceAnswersItsPrompt
<1> HIDE DEF Right
<1> QED BY <1>2, <1>3, InitTypes, NextTypes, OnceInit, NextOnce, InitCalm, NextCalm, PTL DEF Spec

-----------------------------------------------------------------------------
(* How a server is found.                                                  *)

\* A lock file is there from WriteLock to RemoveLock, or was left by a crash.
Locking == {"portfile", "except", "starting", "serving", "unlock", "open", "dead"}

\* A lock file is that of the process whose port it is named after.
LockInv ==
  \A n \in Ports : locks[n] # Nobody => port[locks[n]] = n /\ pc[locks[n]] \in Locking

\* A process has a port from Listen on, and has it alone.
PortInv ==
  /\ \A p \in Programs : pc[p] \in Started \cup Stopping \cup Ending \cup {"open"} => port[p] \in Ports
  /\ \A p \in Programs : pc[p] \in Launching \cup {"off"} => port[p] = 0
  /\ \A p, q \in Programs : port[p] = port[q] /\ port[p] # 0 => p = q

\* Who replaces a server knows its port.
TargetInv == \A p \in Procs : pc[p] = "kill" => target[p] \in Ports

DiscoveryInv == DiscoveryTypeOK /\ LockInv /\ PortInv /\ TargetInv /\ ServingIsDiscoverable

-----------------------------------------------------------------------------
(* Types.                                                                  *)

USE DEF Idle, Ending, Launching, Started, Stopping, Goto, Programs

\* Types: nothing a step writes leaves its set.
LEMMA DiscoveryTypeStep ==
  ASSUME DiscoveryTypeOK, TargetInv, [DiscoveryNext]_discoveryVars
  PROVE  DiscoveryTypeOK'
<1> USE DiscoveryAssumption DEF DiscoveryTypeOK, TargetInv
<1>1. CASE UNCHANGED discoveryVars
  BY <1>1 DEF discoveryVars, files, history
<1>2. ASSUME NEW p \in Procs, Launch(p) \/ Check(p) \/ StopDaemon(p) \/ RestartServer(p) PROVE DiscoveryTypeOK'
  BY <1>2 DEF Launch, Check, StopDaemon, RestartServer, files, history
<1>3. ASSUME NEW p \in Procs, KillServerOnPort(p) PROVE DiscoveryTypeOK'
  BY <1>3 DEF KillServerOnPort, Signalled, files, history
<1>4. ASSUME NEW p \in Procs, RemovePortFile(p) \/ StartFails(p) \/ EnsureServer(p) PROVE DiscoveryTypeOK'
  BY <1>4 DEF RemovePortFile, StartFails, EnsureServer, files, history
<1>5. ASSUME NEW p \in Procs, Listen(p) PROVE DiscoveryTypeOK'
  BY <1>5 DEF Listen, Bind, files, history, Locked
<1>6. ASSUME NEW p \in Procs, WriteLock(p) PROVE DiscoveryTypeOK'
  BY <1>6 DEF WriteLock, files, history
<1>7. ASSUME NEW p \in Procs, WritePortFile(p) PROVE DiscoveryTypeOK'
  <2>1. locks' = locks /\ Locked \subseteq Ports /\ UNCHANGED <<port, target, detached, history>>
    BY <1>7 DEF WritePortFile, Locked
  <2>2. portFile' \in Ports \cup {0}
    BY <1>7, SMT DEF WritePortFile
  <2>3. fresh' \in BOOLEAN
    BY <1>7, Zenon DEF WritePortFile
  <2>4. pc' = [pc EXCEPT ![p] = "except"] \/ pc' = [pc EXCEPT ![p] = "starting"]
    BY <1>7 DEF WritePortFile
  <2>5. scan' = scan \/ scan' = [scan EXCEPT ![p] = Locked \ {port[p]}]
    BY <1>7, Zenon DEF WritePortFile
  <2>6. scan' \in [Procs -> SUBSET Ports]
    <3> DEFINE new == Locked \ {port[p]}
    <3>1. new \in SUBSET Ports /\ scan \in [Procs -> SUBSET Ports]
      BY <2>1
    <3>2. scan' = scan \/ scan' = [scan EXCEPT ![p] = new]
      BY <2>5
    <3> HIDE DEF new, DiscoveryTypeOK
    <3> QED BY <3>1, <3>2
  <2> QED BY <2>1, <2>2, <2>3, <2>4, <2>6 DEF history
<1>8. ASSUME NEW p \in Procs, CleanedAll(p) \/ Serve(p) \/ Shutdown(p) \/ Exit(p) PROVE DiscoveryTypeOK'
  BY <1>8 DEF CleanedAll, Serve, Shutdown, Exit, files, history
<1>9. ASSUME NEW p \in Procs, RemoveLock(p) PROVE DiscoveryTypeOK'
  BY <1>9 DEF RemoveLock, files, history
<1>10. ASSUME NEW p \in Procs, AskToEnd(p) \/ Crash(p) PROVE DiscoveryTypeOK'
  BY <1>10 DEF AskToEnd, Crash, files, history, Alive
<1>11. ASSUME NEW p \in Procs, NEW n \in Ports, CleanStale(p, n) PROVE DiscoveryTypeOK'
  BY <1>11 DEF CleanStale, Stale, Reachable, Owners, Alive, Listening, files, history
<1>12. ASSUME NEW p \in Procs, NEW n \in Ports, CleanAllExcept(p, n) PROVE DiscoveryTypeOK'
  BY <1>12 DEF CleanAllExcept, Signalled, files, history
<1>13. CASE Age
  BY <1>13 DEF Age, history
<1>15. ASSUME NEW e \in Editors, OpenEditor(e) PROVE DiscoveryTypeOK'
  BY <1>15 DEF OpenEditor, Bind, files, history, Locked
<1>16. ASSUME NEW e \in Editors, CloseEditor(e) PROVE DiscoveryTypeOK'
  BY <1>16 DEF CloseEditor, files, history
<1>14. CASE DiscoveryNext
  BY <1>14, <1>2, <1>3, <1>4, <1>5, <1>6, <1>7, <1>8, <1>9, <1>10, <1>11, <1>12, <1>13, <1>15, <1>16, Zenon DEF DiscoveryNext, Progress
<1> QED BY <1>1, <1>14

\* A process gets its port in Listen, one nobody has had.
LEMMA PortStep ==
  ASSUME DiscoveryTypeOK, TargetInv, LockInv, PortInv, [DiscoveryNext]_discoveryVars
  PROVE  PortInv'
<1> USE DiscoveryAssumption DEF DiscoveryTypeOK, TargetInv, LockInv, PortInv, Locking
<1>1. CASE UNCHANGED discoveryVars
  BY <1>1 DEF discoveryVars, files, history
<1>2. ASSUME NEW p \in Procs, Launch(p) \/ Check(p) \/ StopDaemon(p) \/ RestartServer(p) PROVE PortInv'
  BY <1>2 DEF Launch, Check, StopDaemon, RestartServer, files, history
<1>3. ASSUME NEW p \in Procs, KillServerOnPort(p) PROVE PortInv'
  BY <1>3 DEF KillServerOnPort, Signalled, files, history
<1>4. ASSUME NEW p \in Procs, RemovePortFile(p) \/ StartFails(p) \/ EnsureServer(p) PROVE PortInv'
  BY <1>4 DEF RemovePortFile, StartFails, EnsureServer, files, history
<1>5. ASSUME NEW p \in Procs, Listen(p) PROVE PortInv'
  <2>1. PICK n \in Ports : (\A q \in Programs : port[q] # n) /\ port' = [port EXCEPT ![p] = n]
    BY <1>5 DEF Listen, Bind
  <2>2. pc' = [pc EXCEPT ![p] = "clean"] /\ n # 0
    BY <1>5 DEF Listen, Bind
  <2> QED BY <2>1, <2>2
<1>6. ASSUME NEW p \in Procs, WriteLock(p) PROVE PortInv'
  BY <1>6 DEF WriteLock, files, history
<1>7. ASSUME NEW p \in Procs, WritePortFile(p) PROVE PortInv'
  BY <1>7 DEF WritePortFile, files, history, Locked
<1>8. ASSUME NEW p \in Procs, CleanedAll(p) \/ Serve(p) \/ Shutdown(p) \/ Exit(p) PROVE PortInv'
  BY <1>8 DEF CleanedAll, Serve, Shutdown, Exit, files, history
<1>9. ASSUME NEW p \in Procs, RemoveLock(p) PROVE PortInv'
  BY <1>9 DEF RemoveLock, files, history
<1>10. ASSUME NEW p \in Procs, AskToEnd(p) \/ Crash(p) PROVE PortInv'
  BY <1>10 DEF AskToEnd, Crash, files, history, Alive
<1>11. ASSUME NEW p \in Procs, NEW n \in Ports, CleanStale(p, n) PROVE PortInv'
  BY <1>11 DEF CleanStale, Stale, Reachable, Owners, Alive, Listening, files, history
<1>12. ASSUME NEW p \in Procs, NEW n \in Ports, CleanAllExcept(p, n) PROVE PortInv'
  BY <1>12 DEF CleanAllExcept, Signalled, files, history
<1>13. CASE Age
  BY <1>13 DEF Age, history
<1>15. ASSUME NEW e \in Editors, OpenEditor(e) PROVE PortInv'
  BY <1>15 DEF OpenEditor, Bind, files, history, Locked
<1>16. ASSUME NEW e \in Editors, CloseEditor(e) PROVE PortInv'
  BY <1>16 DEF CloseEditor, files, history
<1>14. CASE DiscoveryNext
  BY <1>14, <1>2, <1>3, <1>4, <1>5, <1>6, <1>7, <1>8, <1>9, <1>10, <1>11, <1>12, <1>13, <1>15, <1>16, Zenon DEF DiscoveryNext, Progress
<1> QED BY <1>1, <1>14

\* A lock is written under the port of its writer, and gone before it stops.
LEMMA LockStep ==
  ASSUME DiscoveryTypeOK, TargetInv, LockInv, PortInv, [DiscoveryNext]_discoveryVars
  PROVE  LockInv'
<1> USE DiscoveryAssumption DEF DiscoveryTypeOK, TargetInv, LockInv, PortInv, Locking
<1>1. CASE UNCHANGED discoveryVars
  BY <1>1 DEF discoveryVars, files, history
<1>2. ASSUME NEW p \in Procs, Launch(p) \/ Check(p) \/ StopDaemon(p) \/ RestartServer(p) PROVE LockInv'
  BY <1>2 DEF Launch, Check, StopDaemon, RestartServer, files, history
<1>3. ASSUME NEW p \in Procs, KillServerOnPort(p) PROVE LockInv'
  BY <1>3 DEF KillServerOnPort, Signalled, files, history
<1>4. ASSUME NEW p \in Procs, RemovePortFile(p) \/ StartFails(p) \/ EnsureServer(p) PROVE LockInv'
  BY <1>4 DEF RemovePortFile, StartFails, EnsureServer, files, history
<1>5. ASSUME NEW p \in Procs, Listen(p) PROVE LockInv'
  <2>1. pc' = [pc EXCEPT ![p] = "clean"] /\ locks' = locks /\ pc[p] = "listen"
    BY <1>5 DEF Listen, Bind, files
  <2>2. \A q \in Programs : q # p => port'[q] = port[q]
    BY <1>5 DEF Listen, Bind
  <2>3. \A n \in Ports : locks[n] # Nobody => locks[n] \in Programs \ {p}
    BY <2>1
  <2>4. \A q \in Programs \ {p} : pc'[q] = pc[q]
    BY <2>1
  <2> QED BY <2>1, <2>2, <2>3, <2>4
<1>6. ASSUME NEW p \in Procs, WriteLock(p) PROVE LockInv'
  BY <1>6 DEF WriteLock, files, history
<1>7. ASSUME NEW p \in Procs, WritePortFile(p) PROVE LockInv'
  BY <1>7 DEF WritePortFile, files, history, Locked
<1>8. ASSUME NEW p \in Procs, CleanedAll(p) \/ Serve(p) \/ Shutdown(p) \/ Exit(p) PROVE LockInv'
  BY <1>8 DEF CleanedAll, Serve, Shutdown, Exit, files, history
<1>9. ASSUME NEW p \in Procs, RemoveLock(p) PROVE LockInv'
  BY <1>9 DEF RemoveLock, files, history
<1>10. ASSUME NEW p \in Procs, AskToEnd(p) \/ Crash(p) PROVE LockInv'
  BY <1>10 DEF AskToEnd, Crash, files, history, Alive
<1>11. ASSUME NEW p \in Procs, NEW n \in Ports, CleanStale(p, n) PROVE LockInv'
  BY <1>11 DEF CleanStale, Stale, Reachable, Owners, Alive, Listening, files, history
<1>12. ASSUME NEW p \in Procs, NEW n \in Ports, CleanAllExcept(p, n) PROVE LockInv'
  BY <1>12 DEF CleanAllExcept, Signalled, files, history
<1>13. CASE Age
  BY <1>13 DEF Age, history
<1>15. ASSUME NEW e \in Editors, OpenEditor(e) PROVE LockInv'
  <2>1. PICK m \in Ports : m \notin Locked /\ port' = [port EXCEPT ![e] = m]
    BY <1>15 DEF OpenEditor, Bind
  <2>2. locks' = [locks EXCEPT ![m] = e]
    BY <1>15, <2>1 DEF OpenEditor
  <2>3. pc' = [pc EXCEPT ![e] = "open"] /\ pc[e] = "off"
    BY <1>15 DEF OpenEditor
  <2>4. \A n \in Ports : locks[n] # Nobody => locks[n] \in Programs \ {e}
    BY <2>3
  <2>5. \A q \in Programs \ {e} : port'[q] = port[q] /\ pc'[q] = pc[q]
    BY <2>1, <2>3
  <2>6. ASSUME NEW n \in Ports, n # m, locks'[n] # Nobody PROVE port'[locks'[n]] = n /\ pc'[locks'[n]] \in Locking
    <3>1. locks'[n] = locks[n]
      BY <2>2, <2>6
    <3> QED BY <3>1, <2>4, <2>5, <2>6
  <2>7. locks'[m] = e /\ port'[e] = m /\ pc'[e] = "open"
    BY <2>1, <2>2, <2>3
  <2> QED BY <2>6, <2>7
<1>16. ASSUME NEW e \in Editors, CloseEditor(e) PROVE LockInv'
  BY <1>16 DEF CloseEditor, files, history
<1>14. CASE DiscoveryNext
  BY <1>14, <1>2, <1>3, <1>4, <1>5, <1>6, <1>7, <1>8, <1>9, <1>10, <1>11, <1>12, <1>13, <1>15, <1>16, Zenon DEF DiscoveryNext, Progress
<1> QED BY <1>1, <1>14

\* StopDaemon and RestartServer kill on the port they have read.
LEMMA TargetStep ==
  ASSUME DiscoveryTypeOK, TargetInv, [DiscoveryNext]_discoveryVars
  PROVE  TargetInv'
<1> USE DiscoveryAssumption DEF DiscoveryTypeOK, TargetInv
<1>1. CASE UNCHANGED discoveryVars
  BY <1>1 DEF discoveryVars, files, history
<1>2. ASSUME NEW p \in Procs, Launch(p) \/ Check(p) \/ StopDaemon(p) \/ RestartServer(p) PROVE TargetInv'
  BY <1>2 DEF Launch, Check, StopDaemon, RestartServer, files, history
<1>3. ASSUME NEW p \in Procs, KillServerOnPort(p) PROVE TargetInv'
  BY <1>3 DEF KillServerOnPort, Signalled, files, history
<1>4. ASSUME NEW p \in Procs, RemovePortFile(p) \/ StartFails(p) \/ EnsureServer(p) PROVE TargetInv'
  BY <1>4 DEF RemovePortFile, StartFails, EnsureServer, files, history
<1>5. ASSUME NEW p \in Procs, Listen(p) PROVE TargetInv'
  BY <1>5 DEF Listen, Bind, files, history, Locked
<1>6. ASSUME NEW p \in Procs, WriteLock(p) PROVE TargetInv'
  BY <1>6 DEF WriteLock, files, history
<1>7. ASSUME NEW p \in Procs, WritePortFile(p) PROVE TargetInv'
  BY <1>7 DEF WritePortFile, files, history, Locked
<1>8. ASSUME NEW p \in Procs, CleanedAll(p) \/ Serve(p) \/ Shutdown(p) \/ Exit(p) PROVE TargetInv'
  BY <1>8 DEF CleanedAll, Serve, Shutdown, Exit, files, history
<1>9. ASSUME NEW p \in Procs, RemoveLock(p) PROVE TargetInv'
  BY <1>9 DEF RemoveLock, files, history
<1>10. ASSUME NEW p \in Procs, AskToEnd(p) \/ Crash(p) PROVE TargetInv'
  BY <1>10 DEF AskToEnd, Crash, files, history, Alive
<1>11. ASSUME NEW p \in Procs, NEW n \in Ports, CleanStale(p, n) PROVE TargetInv'
  BY <1>11 DEF CleanStale, Stale, Reachable, Owners, Alive, Listening, files, history
<1>12. ASSUME NEW p \in Procs, NEW n \in Ports, CleanAllExcept(p, n) PROVE TargetInv'
  BY <1>12 DEF CleanAllExcept, Signalled, files, history
<1>13. CASE Age
  BY <1>13 DEF Age, history
<1>15. ASSUME NEW e \in Editors, OpenEditor(e) PROVE TargetInv'
  BY <1>15 DEF OpenEditor, Bind, files, history, Locked
<1>16. ASSUME NEW e \in Editors, CloseEditor(e) PROVE TargetInv'
  BY <1>16 DEF CloseEditor, files, history
<1>14. CASE DiscoveryNext
  BY <1>14, <1>2, <1>3, <1>4, <1>5, <1>6, <1>7, <1>8, <1>9, <1>10, <1>11, <1>12, <1>13, <1>15, <1>16, Zenon DEF DiscoveryNext, Progress
<1> QED BY <1>1, <1>14

\* A clean up takes stale locks only, a replacement those it signals.
LEMMA ServingStep ==
  ASSUME DiscoveryInv, [DiscoveryNext]_discoveryVars
  PROVE  ServingIsDiscoverable'
<1> USE DiscoveryAssumption DEF DiscoveryInv, DiscoveryTypeOK, TargetInv, LockInv, PortInv, ServingIsDiscoverable, Locking
<1>1. CASE UNCHANGED discoveryVars
  BY <1>1 DEF discoveryVars, files, history
<1>2. ASSUME NEW p \in Procs, Launch(p) \/ Check(p) \/ StopDaemon(p) \/ RestartServer(p) PROVE ServingIsDiscoverable'
  BY <1>2 DEF Launch, Check, StopDaemon, RestartServer, files, history
<1>3. ASSUME NEW p \in Procs, KillServerOnPort(p) PROVE ServingIsDiscoverable'
  BY <1>3 DEF KillServerOnPort, Signalled, files, history
<1>4. ASSUME NEW p \in Procs, RemovePortFile(p) \/ StartFails(p) \/ EnsureServer(p) PROVE ServingIsDiscoverable'
  BY <1>4 DEF RemovePortFile, StartFails, EnsureServer, files, history
<1>5. ASSUME NEW p \in Procs, Listen(p) PROVE ServingIsDiscoverable'
  BY <1>5 DEF Listen, Bind, files, history, Locked
<1>6. ASSUME NEW p \in Procs, WriteLock(p) PROVE ServingIsDiscoverable'
  BY <1>6 DEF WriteLock, files, history
<1>7. ASSUME NEW p \in Procs, WritePortFile(p) PROVE ServingIsDiscoverable'
  BY <1>7 DEF WritePortFile, files, history, Locked
<1>8. ASSUME NEW p \in Procs, CleanedAll(p) \/ Serve(p) \/ Shutdown(p) \/ Exit(p) PROVE ServingIsDiscoverable'
  BY <1>8 DEF CleanedAll, Serve, Shutdown, Exit, files, history
<1>9. ASSUME NEW p \in Procs, RemoveLock(p) PROVE ServingIsDiscoverable'
  BY <1>9 DEF RemoveLock, files, history
<1>10. ASSUME NEW p \in Procs, AskToEnd(p) \/ Crash(p) PROVE ServingIsDiscoverable'
  BY <1>10 DEF AskToEnd, Crash, files, history, Alive
<1>11. ASSUME NEW p \in Procs, NEW n \in Ports, CleanStale(p, n) PROVE ServingIsDiscoverable'
  BY <1>11 DEF CleanStale, Stale, Reachable, Owners, Alive, Listening, files, history
<1>12. ASSUME NEW p \in Procs, NEW n \in Ports, CleanAllExcept(p, n) PROVE ServingIsDiscoverable'
  BY <1>12 DEF CleanAllExcept, Signalled, files, history
<1>13. CASE Age
  BY <1>13 DEF Age, history
<1>15. ASSUME NEW e \in Editors, OpenEditor(e) PROVE ServingIsDiscoverable'
  BY <1>15 DEF OpenEditor, Bind, files, history, Locked
<1>16. ASSUME NEW e \in Editors, CloseEditor(e) PROVE ServingIsDiscoverable'
  <2>1. pc' = [pc EXCEPT ![e] = "dead"] /\ UNCHANGED <<port, signalled>>
    BY <1>16 DEF CloseEditor, history
  <2>2. \A n \in Ports : n # port[e] => locks'[n] = locks[n]
    BY <1>16 DEF CloseEditor
  <2>3. \A p \in Procs : p # e /\ pc'[p] = pc[p]
    BY <2>1
  <2>4. \A p \in Procs : pc[p] \in Started \cup Stopping => port[p] \in Ports \ {port[e]}
    BY <2>3
  <2> QED BY <2>1, <2>2, <2>3, <2>4
<1>14. CASE DiscoveryNext
  BY <1>14, <1>2, <1>3, <1>4, <1>5, <1>6, <1>7, <1>8, <1>9, <1>10, <1>11, <1>12, <1>13, <1>15, <1>16, Zenon DEF DiscoveryNext, Progress
<1> QED BY <1>1, <1>14

-----------------------------------------------------------------------------
(* The theorems.                                                           *)

\* At first nobody has a port or a lock.
LEMMA InitDiscoveryInv == DiscoveryInit => DiscoveryInv
<1> SUFFICES ASSUME DiscoveryInit PROVE DiscoveryInv
  OBVIOUS
<1>1. DiscoveryTypeOK
  <2>1. 0 \in 0 .. Crashes /\ 0 \in 0 .. Quits
    BY DiscoveryAssumption
  <2>2. pc \in [Programs -> Idle] /\ locks \in [Ports -> {Nobody}] /\ scan \in [Procs -> {{}}]
    BY DEF DiscoveryInit
  <2>3. port \in [Programs -> {0}] /\ target \in [Procs -> {0}]
    BY DEF DiscoveryInit
  <2>4. fresh \in BOOLEAN
    BY Zenon DEF DiscoveryInit
  <2> QED BY <2>1, <2>2, <2>3, <2>4 DEF DiscoveryInit, DiscoveryTypeOK
<1>2. LockInv /\ TargetInv /\ ServingIsDiscoverable
  BY DiscoveryAssumption DEF DiscoveryInit, LockInv, TargetInv, ServingIsDiscoverable
<1>3. PortInv
  BY DiscoveryAssumption DEF DiscoveryInit, PortInv
<1> QED BY <1>1, <1>2, <1>3 DEF DiscoveryInv

\* The invariant is inductive.
LEMMA NextDiscoveryInv == DiscoveryInv /\ [DiscoveryNext]_discoveryVars => DiscoveryInv'
<1> SUFFICES ASSUME DiscoveryInv, [DiscoveryNext]_discoveryVars PROVE DiscoveryInv'
  OBVIOUS
<1>1. DiscoveryTypeOK /\ LockInv /\ PortInv /\ TargetInv
  BY DEF DiscoveryInv
<1> QED BY <1>1, DiscoveryTypeStep, PortStep, LockStep, TargetStep, ServingStep, Zenon DEF DiscoveryInv

\* The strengthened invariant holds in every state.
THEOREM DiscoveryInductive == DiscoverySpec => []DiscoveryInv
<1> QED BY InitDiscoveryInv, NextDiscoveryInv, PTL DEF DiscoverySpec

\* Every variable keeps its type, whatever starts, crashes or ends.
THEOREM DiscoveryTypeCorrect == DiscoverySpec => []DiscoveryTypeOK
<1>1. DiscoveryInv => DiscoveryTypeOK
  BY DEF DiscoveryInv
<1> QED BY <1>1, DiscoveryInductive, PTL

\* Who has a lock file and is alive listens on the port it is named after,
\* and who listens on that port is the one who has the lock file.
LEMMA LockOfListener ==
  ASSUME DiscoveryInv
  PROVE  HooksAndCliAgree
<1> USE DiscoveryAssumption DEF DiscoveryInv, DiscoveryTypeOK, LockInv, PortInv, Locking
<1>1. ASSUME NEW n \in Ports, locks[n] # Nobody, Alive(locks[n]) PROVE locks[n] \in Owners(n)
  BY <1>1 DEF Alive, Owners, Listening
<1>2. ASSUME NEW n \in Ports, locks[n] # Nobody, Reachable(n) PROVE Alive(locks[n])
  <2>1. PICK q \in Programs : port[q] = n /\ Listening(q)
    BY <1>2 DEF Reachable, Owners
  <2>2. locks[n] \in Programs /\ n # 0
    BY <1>2
  <2>3. q = locks[n]
    BY <1>2, <2>1, <2>2
  <2> QED BY <2>1, <2>3 DEF Listening, Alive
<1>3. CliPorts = {m \in HookPorts : locks[m] \notin Editors}
  BY <1>1, <1>2, Zenon DEF HookPorts, CliPorts, Locked, Reachable
<1>4. \A m \in HookPorts : m \in Ports /\ locks[m] \in Owners(m)
  BY <1>1 DEF HookPorts, Locked
<1>5. ASSUME NEW n \in Ports, Highest(HookPorts, n), locks[n] \notin Editors PROVE Highest(CliPorts, n)
  BY <1>3, <1>5, Zenon DEF Highest
<1>6. ASSUME NEW n \in Ports, Highest(CliPorts, n), \A m \in HookPorts : ~(m > n /\ locks[m] \in Editors)
      PROVE  Highest(HookPorts, n)
  <2>1. n \in HookPorts
    BY <1>3, <1>6, Zenon DEF Highest
  <2>2. ASSUME NEW m \in HookPorts PROVE m =< n
    <3>1. CASE locks[m] \in Editors
      <4>1. m \in Nat /\ n \in Nat /\ ~(m > n)
        BY <1>4, <1>6, <3>1
      <4> QED BY <4>1
    <3>2. CASE locks[m] \notin Editors
      BY <1>3, <1>6, <3>2, Zenon DEF Highest
    <3> QED BY <3>1, <3>2
  <2> QED BY <2>1, <2>2, Zenon DEF Highest
<1>7. ASSUME NEW n \in Ports, Highest(HookPorts, n) PROVE locks[n] \in Owners(n)
  BY <1>4, <1>7, Zenon DEF Highest
<1> QED BY <1>5, <1>6, <1>7, Zenon DEF HooksAndCliAgree

\* However servers start, replace each other, crash and end, and whatever
\* editors open and close beside them, the pid of a lock (what hooks look at)
\* and its port (what the command line dials) lead to the same server, unless
\* an editor's lock has the highest port, which only hooks take: discover.go:19.
THEOREM HooksAgreeWithCli == DiscoverySpec => []HooksAndCliAgree
<1> QED BY LockOfListener, DiscoveryInductive, PTL

\* No start, restart or clean up of others takes the lock file of a server
\* that was not signalled.
THEOREM ServersStayDiscoverable == DiscoverySpec => []ServingIsDiscoverable
<1>1. DiscoveryInv => ServingIsDiscoverable
  BY DEF DiscoveryInv
<1> QED BY <1>1, DiscoveryInductive, PTL
=============================================================================
