----------------------------- MODULE ScreenProofs -----------------------------
(* The proofs about PopupStack: for any set of popups and any depth of the  *)
(* stack, the focus is on the screen and no popup is answered twice.  And   *)
(* those about Screen: it implements each of the three components it        *)
(* composes, so that what is proved of a component holds on the screen.     *)
EXTENDS Screen, SequenceTheorems, TLAPS

-----------------------------------------------------------------------------
(* PopupStack                                                              *)

\* What taking one entry out of a stack leaves: the others, in their order.
LEMMA RemoveAtFacts ==
  ASSUME NEW S, NEW s \in Seq(S), NEW f \in Nat, f < Len(s)
  PROVE  /\ RemoveAt(s, f + 1) \in Seq(S)
         /\ Len(RemoveAt(s, f + 1)) = Len(s) - 1
         /\ \A i \in 1 .. Len(s) - 1 : RemoveAt(s, f + 1)[i] = IF i <= f THEN s[i] ELSE s[i + 1]
<1> DEFINE a == SubSeq(s, 1, (f + 1) - 1)
           b == SubSeq(s, f + 1 + 1, Len(s))
<1>1. a \in Seq(S) /\ Len(a) = f /\ \A i \in 1 .. f : a[i] = s[i]
  OBVIOUS
<1>2. /\ b \in Seq(S) /\ Len(b) = Len(s) - f - 1
      /\ \A i \in 1 .. Len(s) - f - 1 : b[i] = s[f + 1 + i]
  OBVIOUS
<1>3. RemoveAt(s, f + 1) = a \o b
  BY Zenon DEF RemoveAt
<1> HIDE DEF a, b
<1>4. /\ a \o b \in Seq(S) /\ Len(a \o b) = Len(a) + Len(b)
      /\ \A i \in 1 .. Len(a) + Len(b) : (a \o b)[i] = IF i <= Len(a) THEN a[i] ELSE b[i - Len(a)]
  BY <1>1, <1>2, ConcatProperties, Zenon
<1>5. Len(s) \in Nat
  OBVIOUS
<1>6. Len(a) + Len(b) = Len(s) - 1
  BY <1>1, <1>2, <1>5
<1>7. ASSUME NEW i \in 1 .. Len(s) - 1 PROVE (a \o b)[i] = IF i <= f THEN s[i] ELSE s[i + 1]
  <2>1. CASE i <= f
    BY <2>1, <1>1, <1>4, <1>6
  <2>2. CASE i > f
    <3>1. (a \o b)[i] = b[i - f]
      BY <2>2, <1>1, <1>4, <1>6
    <3>2. i - f \in 1 .. Len(s) - f - 1 /\ f + 1 + (i - f) = i + 1
      BY <2>2, <1>5
    <3> QED BY <3>1, <3>2, <1>2, <2>2
  <2>3. i <= f \/ i > f
    OBVIOUS
  <2> QED BY <2>1, <2>2, <2>3
<1> QED BY <1>3, <1>4, <1>6, <1>7

-----------------------------------------------------------------------------
(* Types and the focus.                                                    *)

\* Wherever the search for a visible entry ends, it is on one, or no entry
\* is visible and the focus stays.
LEMMA FocusFound ==
  ASSUME NEW s \in Seq(Entry), NEW f \in Int, NEW g, FocusNextIs(s, f, g) \/ FocusPrevIs(s, f, g)
  PROVE  (g \in Indices(s) /\ Visible(s, g)) \/ (~HasVisible(s) /\ g = f)
<1>1. ASSUME Len(s) > 0, NEW x \in Int PROVE x % Len(s) \in Indices(s)
  BY <1>1 DEF Indices
<1>2. ASSUME NEW i \in Indices(s)
      PROVE  /\ (f + 1 + i) % Len(s) \in Indices(s)
             /\ (f - 1 - i + Len(s)) % Len(s) \in Indices(s)
  <2>1. Len(s) \in Nat /\ Len(s) > 0 /\ i \in Int
    BY DEF Indices
  <2>2. f + 1 + i \in Int /\ f - 1 - i + Len(s) \in Int
    BY <2>1
  <2>3. (f + 1 + i) % Len(s) \in Indices(s)
    BY <1>1, <2>1, <2>2
  <2>4. (f - 1 - i + Len(s)) % Len(s) \in Indices(s)
    BY <1>1, <2>1, <2>2
  <2> QED BY <2>3, <2>4
<1>3. CASE FocusNextIs(s, f, g)
  BY <1>2, <1>3, Zenon DEF FocusNextIs
<1>4. CASE FocusPrevIs(s, f, g)
  BY <1>2, <1>4, Zenon DEF FocusPrevIs
<1> QED BY <1>3, <1>4

\* Hiding or showing the entries changes nothing else of the stack.
LEMMA SuspendedFacts ==
  ASSUME NEW b \in BOOLEAN, stack \in Seq(Entry), SetSuspended(b)
  PROVE  /\ stack' \in Seq(Entry) /\ Len(stack') = Len(stack)
         /\ \A i \in 1 .. Len(stack) : stack'[i].popup = stack[i].popup /\ stack'[i].suspended = b
<1> DEFINE e(i) == [stack[i] EXCEPT !.suspended = b]
<1>0. \A x \in Entry : LET y == [x EXCEPT !.suspended = b] IN y \in Entry /\ y.popup = x.popup /\ y.suspended = b
  BY DEF Entry
<1>1. DOMAIN stack = 1 .. Len(stack) /\ Len(stack) \in Nat
  OBVIOUS
<1>2. \A i \in 1 .. Len(stack) : e(i) \in Entry /\ e(i).popup = stack[i].popup /\ e(i).suspended = b
  BY <1>0
<1>3. stack' = [i \in 1 .. Len(stack) |-> e(i)]
  BY <1>1 DEF SetSuspended
<1> HIDE DEF e
<1> QED BY <1>1, <1>2, <1>3

\* What a new popup leaves.
LEMMA PushFacts ==
  ASSUME TypeOK, NEW p \in Popups, PushPopup(p)
  PROVE  /\ stack' \in Seq(Entry) /\ Len(stack') = Len(stack) + 1 /\ focusIdx' = Len(stack)
         /\ stack'[Len(stack) + 1] = [popup |-> p, suspended |-> FALSE]
         /\ \A i \in 1 .. Len(stack) : stack'[i] = stack[i]
<1> DEFINE new == [popup |-> p, suspended |-> FALSE]
<1>1. stack \in Seq(Entry) /\ new \in Entry
  BY DEF TypeOK, Entry
<1>2. stack' = Append(stack, new) /\ focusIdx' = Len(stack)
  BY DEF PushPopup
<1> HIDE DEF new
<1>3. /\ stack' \in Seq(Entry) /\ Len(stack') = Len(stack) + 1
      /\ stack'[Len(stack) + 1] = new /\ \A i \in 1 .. Len(stack) : stack'[i] = stack[i]
  BY <1>1, <1>2, AppendProperties
<1> QED BY <1>2, <1>3 DEF new

\* What the answer to the focused popup leaves.
LEMMA DismissFacts ==
  ASSUME TypeOK, DismissActive
  PROVE  /\ focusIdx \in Nat /\ focusIdx < Len(stack)
         /\ stack' \in Seq(Entry) /\ Len(stack') = Len(stack) - 1
         /\ \A i \in 1 .. Len(stack) - 1 :
              stack'[i] = IF i <= focusIdx THEN stack[i] ELSE stack[i + 1]
         /\ focusIdx' \in -1 .. Len(stack')
         /\ HasVisible(stack') => focusIdx' \in Indices(stack') /\ Visible(stack', focusIdx')
<1> DEFINE f == Clamp(focusIdx, Len(stack) - 1)
<1>1. stack \in Seq(Entry) /\ Len(stack) \in Nat /\ focusIdx \in Nat /\ focusIdx < Len(stack)
  BY DEF TypeOK, DismissActive, Indices
<1>2. stack' = RemoveAt(stack, focusIdx + 1)
  BY DEF DismissActive
<1>3. /\ stack' \in Seq(Entry) /\ Len(stack') = Len(stack) - 1
      /\ \A i \in 1 .. Len(stack) - 1 :
           stack'[i] = IF i <= focusIdx THEN stack[i] ELSE stack[i + 1]
  BY <1>1, <1>2, RemoveAtFacts
<1>4. f \in -1 .. Len(stack') /\ (Len(stack') > 0 => f \in Indices(stack'))
  BY <1>1, <1>3 DEF Clamp, Indices
<1>5. IF f \in Indices(stack') /\ ~Visible(stack', f) THEN FocusNextIs(stack', f, focusIdx') ELSE focusIdx' = f
  BY DEF DismissActive
<1> HIDE DEF f
<1>6. CASE f \in Indices(stack') /\ ~Visible(stack', f)
  <2>1. FocusNextIs(stack', f, focusIdx')
    BY <1>5, <1>6
  <2>2. \/ focusIdx' \in Indices(stack') /\ Visible(stack', focusIdx')
        \/ ~HasVisible(stack') /\ focusIdx' = f
    BY <2>1, <1>3, <1>4, FocusFound
  <2>3. focusIdx' \in -1 .. Len(stack')
    BY <2>2, <1>3, <1>4 DEF Indices
  <2> QED BY <2>2, <2>3, <1>1, <1>3
<1>7. CASE ~(f \in Indices(stack') /\ ~Visible(stack', f))
  <2>1. focusIdx' = f
    BY <1>5, <1>7
  <2>2. HasVisible(stack') => f \in Indices(stack')
    BY <1>3, <1>4 DEF HasVisible, Indices
  <2> QED BY <2>1, <2>2, <1>1, <1>3, <1>4, <1>7
<1> QED BY <1>6, <1>7

-----------------------------------------------------------------------------
(* The invariant: types, the focus, and every popup once.                  *)

IInv == TypeOK /\ FocusIsVisible /\ AnsweredOnce

LEMMA InitInvariant == Init => IInv
<1> SUFFICES ASSUME Init PROVE IInv
  OBVIOUS
<1>1. stack = <<>> /\ focusIdx = 0 /\ answered = {}
  BY DEF Init
<1>2. Len(stack) = 0 /\ stack \in Seq(Entry) /\ DOMAIN stack = 1 .. 0
  BY <1>1
<1>3. TypeOK
  BY <1>1, <1>2 DEF TypeOK
<1>4. FocusIsVisible
  BY <1>2 DEF FocusIsVisible, HasVisible, Indices
<1>5. AnsweredOnce
  BY <1>2 DEF AnsweredOnce
<1> QED BY <1>3, <1>4, <1>5 DEF IInv

LEMMA PushKeeps ==
  ASSUME IInv, NEW p \in Popups, PushPopup(p)
  PROVE  IInv'
<1>1. /\ stack' \in Seq(Entry) /\ Len(stack') = Len(stack) + 1 /\ focusIdx' = Len(stack)
      /\ stack'[Len(stack) + 1] = [popup |-> p, suspended |-> FALSE]
      /\ \A i \in 1 .. Len(stack) : stack'[i] = stack[i]
  BY PushFacts DEF IInv
<1>2. /\ Len(stack) \in Nat /\ answered' = answered
      /\ DOMAIN stack = 1 .. Len(stack) /\ DOMAIN stack' = 1 .. Len(stack')
  BY <1>1 DEF IInv, TypeOK, PushPopup
<1>3. TypeOK'
  BY <1>1, <1>2 DEF IInv, TypeOK
<1>4. FocusIsVisible'
  <2>1. Len(stack) \in 0 .. Len(stack') - 1
    BY <1>1, <1>2
  <2>2. ~stack'[Len(stack) + 1].suspended
    BY <1>1
  <2> QED BY <2>1, <2>2, <1>1 DEF FocusIsVisible, Indices, Visible
<1>5. AnsweredOnce'
  <2>1. p \notin answered /\ \A i \in 1 .. Len(stack) : stack[i].popup # p
    BY <1>2 DEF PushPopup, InStack
  <2>2. stack'[Len(stack) + 1].popup = p
    BY <1>1
  <2>3. \A i \in 1 .. Len(stack') : i = Len(stack) + 1 \/ i \in 1 .. Len(stack)
    BY <1>1, <1>2
  <2>4. \A i \in DOMAIN stack' : stack'[i].popup \notin answered'
    BY <2>1, <2>2, <2>3, <1>1, <1>2 DEF IInv, AnsweredOnce
  <2>5. \A i, j \in DOMAIN stack' : stack'[i].popup = stack'[j].popup => i = j
    BY <2>1, <2>2, <2>3, <1>1, <1>2 DEF IInv, AnsweredOnce
  <2> QED BY <2>4, <2>5 DEF AnsweredOnce
<1> QED BY <1>3, <1>4, <1>5 DEF IInv

LEMMA DismissActiveKeeps ==
  ASSUME IInv, DismissActive
  PROVE  IInv'
<1>1. /\ focusIdx \in Nat /\ focusIdx < Len(stack)
      /\ stack' \in Seq(Entry) /\ Len(stack') = Len(stack) - 1
      /\ \A i \in 1 .. Len(stack) - 1 :
           stack'[i] = IF i <= focusIdx THEN stack[i] ELSE stack[i + 1]
      /\ focusIdx' \in -1 .. Len(stack')
      /\ HasVisible(stack') => focusIdx' \in Indices(stack') /\ Visible(stack', focusIdx')
  BY DismissFacts DEF IInv
<1>2. /\ stack \in Seq(Entry) /\ Len(stack) \in Nat /\ answered \in SUBSET Popups
      /\ DOMAIN stack = 1 .. Len(stack) /\ DOMAIN stack' = 1 .. Len(stack')
  BY <1>1 DEF IInv, TypeOK
<1>3. focusIdx + 1 \in 1 .. Len(stack)
  BY <1>1, <1>2
<1>4. answered' = answered \cup {stack[focusIdx + 1].popup} /\ stack[focusIdx + 1].popup \in Popups
  <2>1. stack[focusIdx + 1] \in Entry
    BY <1>2, <1>3
  <2> QED BY <2>1 DEF DismissActive, Entry
<1>5. TypeOK'
  BY <1>1, <1>2, <1>4 DEF TypeOK
<1>6. FocusIsVisible'
  BY <1>1 DEF FocusIsVisible
<1>7. AnsweredOnce'
  <2> DEFINE was(i) == IF i <= focusIdx THEN i ELSE i + 1
  <2>1. \A i \in 1 .. Len(stack') : was(i) \in 1 .. Len(stack) /\ was(i) # focusIdx + 1
    BY <1>1, <1>2
  <2>2. \A i, j \in 1 .. Len(stack') : was(i) = was(j) => i = j
    BY <1>1, <1>2
  <2>3. \A i \in 1 .. Len(stack') : stack'[i] = stack[was(i)]
    BY <1>1
  <2> HIDE DEF was
  <2>4. \A i, j \in DOMAIN stack' : stack'[i].popup = stack'[j].popup => i = j
    BY <2>1, <2>2, <2>3, <1>2 DEF IInv, AnsweredOnce
  <2>5. \A i \in DOMAIN stack' : stack'[i].popup \notin answered'
    BY <2>1, <2>3, <1>2, <1>3, <1>4 DEF IInv, AnsweredOnce
  <2> QED BY <2>4, <2>5 DEF AnsweredOnce
<1> QED BY <1>5, <1>6, <1>7 DEF IInv

LEMMA DismissAllKeeps ==
  ASSUME IInv, DismissAll
  PROVE  IInv'
<1>1. stack' = <<>> /\ focusIdx' = 0 /\ answered' = answered \cup InStack
  BY DEF DismissAll
<1>2. Len(stack') = 0 /\ stack' \in Seq(Entry) /\ DOMAIN stack' = 1 .. 0
  BY <1>1
<1>3. InStack \subseteq Popups
  <2>1. \A i \in DOMAIN stack : stack[i] \in Entry
    BY DEF IInv, TypeOK
  <2> QED BY <2>1 DEF InStack, Entry
<1>4. TypeOK'
  BY <1>1, <1>2, <1>3 DEF IInv, TypeOK
<1>5. FocusIsVisible'
  BY <1>2 DEF FocusIsVisible, HasVisible, Indices
<1>6. AnsweredOnce'
  BY <1>2 DEF AnsweredOnce
<1> QED BY <1>4, <1>5, <1>6 DEF IInv

\* Esc and p: the entries stay, the focus is on the last one again.
LEMMA SuspendKeeps ==
  ASSUME IInv, SuspendAll \/ UnsuspendAll
  PROVE  IInv'
<1>1. PICK b \in BOOLEAN :
        /\ SetSuspended(b) /\ answered' = answered
        /\ b \/ (stack # <<>> /\ focusIdx' = Len(stack) - 1)
        /\ focusIdx' \in {focusIdx, Len(stack) - 1}
  BY DEF SuspendAll, UnsuspendAll
<1>2. /\ stack \in Seq(Entry) /\ Len(stack) \in Nat /\ focusIdx \in Int
      /\ DOMAIN stack = 1 .. Len(stack)
  BY DEF IInv, TypeOK
<1>3. /\ stack' \in Seq(Entry) /\ Len(stack') = Len(stack)
      /\ \A i \in 1 .. Len(stack) : stack'[i].popup = stack[i].popup /\ stack'[i].suspended = b
  BY <1>1, <1>2, SuspendedFacts
<1>4. DOMAIN stack' = 1 .. Len(stack)
  BY <1>3
<1>5. TypeOK'
  BY <1>1, <1>2, <1>3 DEF IInv, TypeOK
<1>6. FocusIsVisible'
  <2>1. \A i \in Indices(stack') : i + 1 \in 1 .. Len(stack)
    BY <1>2, <1>3 DEF Indices
  <2>2. CASE b
    BY <2>1, <2>2, <1>3 DEF FocusIsVisible, HasVisible, Visible
  <2>3. CASE ~b
    <3>1. Len(stack) > 0 /\ focusIdx' = Len(stack) - 1
      BY <2>3, <1>1, <1>2
    <3>2. focusIdx' \in Indices(stack')
      BY <3>1, <1>2, <1>3 DEF Indices
    <3>3. Visible(stack', focusIdx')
      BY <2>1, <2>3, <3>2, <1>3 DEF Visible
    <3> QED BY <3>2, <3>3 DEF FocusIsVisible
  <2> QED BY <2>2, <2>3
<1>7. AnsweredOnce'
  BY <1>1, <1>2, <1>3, <1>4 DEF IInv, AnsweredOnce
<1> QED BY <1>5, <1>6, <1>7 DEF IInv

LEMMA FocusKeeps ==
  ASSUME IInv, FocusNext \/ FocusPrev
  PROVE  IInv'
<1>1. stack' = stack /\ answered' = answered /\ HasVisible(stack)
  BY DEF FocusNext, FocusPrev
<1>2. FocusNextIs(stack, focusIdx, focusIdx') \/ FocusPrevIs(stack, focusIdx, focusIdx')
  BY DEF FocusNext, FocusPrev
<1>3. stack \in Seq(Entry) /\ focusIdx \in Int
  BY DEF IInv, TypeOK
<1>4. focusIdx' \in Indices(stack) /\ Visible(stack, focusIdx')
  BY <1>1, <1>2, <1>3, FocusFound
<1>5. TypeOK'
  BY <1>1, <1>4 DEF IInv, TypeOK, Indices
<1>6. FocusIsVisible'
  BY <1>1, <1>4 DEF FocusIsVisible
<1>7. AnsweredOnce'
  BY <1>1 DEF IInv, AnsweredOnce
<1> QED BY <1>5, <1>6, <1>7 DEF IInv

LEMMA NextKeeps == IInv /\ [Next]_vars => IInv'
<1> SUFFICES ASSUME IInv, [Next]_vars PROVE IInv'
  OBVIOUS
<1>1. ASSUME NEW p \in Popups, PushPopup(p) PROVE IInv'
  BY <1>1, PushKeeps
<1>2. CASE DismissActive
  BY <1>2, DismissActiveKeeps
<1>3. CASE DismissAll
  BY <1>3, DismissAllKeeps
<1>4. CASE SuspendAll \/ UnsuspendAll
  BY <1>4, SuspendKeeps
<1>5. CASE FocusNext \/ FocusPrev
  BY <1>5, FocusKeeps
<1>6. CASE UNCHANGED vars
  BY <1>6 DEF vars, IInv, TypeOK, FocusIsVisible, AnsweredOnce
<1> QED BY <1>1, <1>2, <1>3, <1>4, <1>5, <1>6 DEF Next

LEMMA Invariant == Spec => []IInv
<1>1. Init => IInv
  BY InitInvariant
<1>2. IInv /\ [Next]_vars => IInv'
  BY NextKeeps
<1> QED BY <1>1, <1>2, PTL DEF Spec

\* The stack is one of popups and the focus a number (PopupController).
THEOREM TypeCorrect == Spec => []TypeOK
<1>1. IInv => TypeOK
  BY DEF IInv
<1> QED BY <1>1, Invariant, PTL

\* While a popup is on the screen the focus is on one, whatever was hidden,
\* answered or pushed before (ActiveEntry, DismissActive, FocusNext).
THEOREM FocusOnScreen == Spec => []FocusIsVisible
<1>1. IInv => FocusIsVisible
  BY DEF IInv
<1> QED BY <1>1, Invariant, PTL

\* No popup is in the stack twice or after its answer, for any number of
\* popups (DismissActive, DismissAll).
THEOREM NoAnswerTwice == Spec => []AnsweredOnce
<1>1. IInv => AnsweredOnce
  BY DEF IInv
<1> QED BY <1>1, Invariant, PTL

-----------------------------------------------------------------------------
(* What a step may never do.                                               *)

LEMMA NothingLost ==
  ASSUME IInv, [Next]_vars, NEW p \in InStack
  PROVE  p \in InStack' \cup answered'
<1>1. /\ stack \in Seq(Entry) /\ Len(stack) \in Nat /\ DOMAIN stack = 1 .. Len(stack)
      /\ TypeOK
  BY DEF IInv, TypeOK
<1>2. PICK i \in 1 .. Len(stack) : p = stack[i].popup
  BY <1>1 DEF InStack
<1>3. ASSUME NEW q \in Popups, PushPopup(q) PROVE p \in InStack'
  <2>1. stack' \in Seq(Entry) /\ Len(stack') = Len(stack) + 1 /\ stack'[i] = stack[i]
    BY <1>1, <1>2, <1>3, PushFacts
  <2>2. i \in DOMAIN stack'
    BY <2>1, <1>1
  <2> QED BY <2>1, <2>2, <1>2 DEF InStack
<1>4. CASE DismissActive
  <2>1. /\ focusIdx \in Nat /\ stack' \in Seq(Entry) /\ Len(stack') = Len(stack) - 1
        /\ \A k \in 1 .. Len(stack) - 1 : stack'[k] = IF k <= focusIdx THEN stack[k] ELSE stack[k + 1]
    BY <1>1, <1>4, DismissFacts
  <2>2. CASE i = focusIdx + 1
    BY <2>2, <1>2, <1>4 DEF DismissActive
  <2>3. CASE i < focusIdx + 1
    <3>1. i \in 1 .. Len(stack) - 1 /\ i <= focusIdx
      BY <2>1, <2>3, <1>1, <1>4 DEF DismissActive, Indices
    <3>2. i \in DOMAIN stack' /\ stack'[i] = stack[i]
      BY <2>1, <3>1
    <3> QED BY <3>2, <1>2 DEF InStack
  <2>4. CASE i > focusIdx + 1
    <3>1. i - 1 \in 1 .. Len(stack) - 1 /\ ~(i - 1 <= focusIdx) /\ (i - 1) + 1 = i
      BY <2>1, <2>4, <1>1
    <3>2. i - 1 \in DOMAIN stack' /\ stack'[i - 1] = stack[i]
      BY <2>1, <3>1
    <3> QED BY <3>2, <1>2 DEF InStack
  <2> QED BY <2>1, <2>2, <2>3, <2>4, <1>2
<1>5. CASE DismissAll
  BY <1>5 DEF DismissAll
<1>6. CASE SuspendAll \/ UnsuspendAll
  <2>1. PICK b \in BOOLEAN : SetSuspended(b)
    BY <1>6 DEF SuspendAll, UnsuspendAll
  <2>2. stack' \in Seq(Entry) /\ Len(stack') = Len(stack) /\ stack'[i].popup = stack[i].popup
    BY <2>1, <1>1, <1>2, SuspendedFacts
  <2>3. i \in DOMAIN stack'
    BY <2>2, <1>1
  <2> QED BY <2>2, <2>3, <1>2 DEF InStack
<1>7. CASE FocusNext \/ FocusPrev \/ UNCHANGED vars
  BY <1>7 DEF FocusNext, FocusPrev, vars, InStack
<1> QED BY <1>3, <1>4, <1>5, <1>6, <1>7 DEF Next

\* Hiding, focusing and answering other popups never loses one (keybinds.md:22).
THEOREM PopupsAreKept == Spec => NoPopupLost
<1>1. IInv /\ [Next]_vars => [\A p \in InStack : p \in InStack' \cup answered']_vars
  BY NothingLost
<1> QED BY <1>1, Invariant, PTL DEF Spec, NoPopupLost

\* A key of the focused popup answers one that is on the screen, and it only
\* (PopupHandler's HasPopup guard, DismissActive).
THEOREM AnswersTheScreen == Spec => OnlyVisibleAnswered
<1> DEFINE P == DismissActive => \E i \in Indices(stack) :
                  Visible(stack, i) /\ answered' \ answered = {stack[i + 1].popup}
<1>1. ASSUME IInv, DismissActive PROVE P
  <2>1. focusIdx \in Indices(stack) /\ Visible(stack, focusIdx)
    BY <1>1 DEF DismissActive, IInv, FocusIsVisible
  <2>2. focusIdx + 1 \in DOMAIN stack
    BY <2>1, <1>1 DEF IInv, TypeOK, Indices
  <2>3. stack[focusIdx + 1].popup \notin answered
    BY <2>2, <1>1 DEF IInv, AnsweredOnce
  <2>4. answered' \ answered = {stack[focusIdx + 1].popup}
    BY <2>3, <1>1 DEF DismissActive
  <2> QED BY <2>1, <2>4
<1>2. IInv /\ [Next]_vars => [P]_vars
  BY <1>1
<1> QED BY <1>2, Invariant, PTL DEF Spec, OnlyVisibleAnswered

-----------------------------------------------------------------------------
(* KeyForwarder                                                            *)

\* A batch is open only between two sends, and is for one target.
BatchInv ==
  /\ forwarder \in {"waiting", "stopped"} => batch = <<>>
  /\ forwarder = "batching" => \A i \in DOMAIN batch : batch[i].target = batch[1].target

ForwarderInv == ForwarderTypeOK /\ BatchInv /\ KeysInOrder

\* A sequence is its head and its tail.
LEMMA Split ==
  ASSUME NEW S, NEW s \in Seq(S), s # <<>>
  PROVE  /\ Head(s) \in S /\ Tail(s) \in Seq(S) /\ Len(Tail(s)) = Len(s) - 1
         /\ <<Head(s)>> \in Seq(S)
         /\ s = <<Head(s)>> \o Tail(s)
<1>1. /\ Head(s) \in S /\ Tail(s) \in Seq(S) /\ Len(Tail(s)) = Len(s) - 1
      /\ \A i \in 1 .. Len(Tail(s)) : Tail(s)[i] = s[i + 1]
  BY HeadTailProperties
<1>2. /\ <<Head(s)>> \in Seq(S) /\ Len(<<Head(s)>>) = 1 /\ <<Head(s)>>[1] = s[1]
  BY <1>1
<1>3. Len(s) \in Nat \ {0}
  BY EmptySeq
<1>4. <<Head(s)>> \o Tail(s) \in Seq(S) /\ Len(<<Head(s)>> \o Tail(s)) = Len(s)
  BY <1>1, <1>2, <1>3, ConcatProperties
<1>5. \A i \in 1 .. Len(s) : (<<Head(s)>> \o Tail(s))[i] = s[i]
  BY <1>1, <1>2, <1>3, ConcatProperties
<1>6. s = <<Head(s)>> \o Tail(s)
  BY <1>4, <1>5
<1>7. QED BY <1>1, <1>2, <1>6

\* A batch for one target is flushed as it is.
LEMMA FlushedIsBatch ==
  ASSUME ForwarderTypeOK, \A i \in DOMAIN batch : batch[i].target = batch[1].target
  PROVE  Flushed = sent \o batch
<1>1. \A i \in DOMAIN batch : [batch[i] EXCEPT !.target = batch[1].target] = batch[i]
  <2> SUFFICES ASSUME NEW i \in DOMAIN batch PROVE [batch[i] EXCEPT !.target = batch[1].target] = batch[i]
    OBVIOUS
  <2>1. batch[i] \in Command
    BY LenProperties DEF ForwarderTypeOK
  <2>2. QED BY <2>1 DEF Command
<1>2. batch = [i \in DOMAIN batch |-> batch[i]]
  BY DEF ForwarderTypeOK
<1>3. [i \in DOMAIN batch |-> [batch[i] EXCEPT !.target = batch[1].target]] = batch
  BY <1>1, <1>2, Zenon
<1>4. QED BY <1>3 DEF Flushed

\* A key enters at the end of the queue.
LEMMA EnqueueKeeps ==
  ASSUME ForwarderInv, NEW target \in Targets, NEW literal \in BOOLEAN, Enqueue(target, literal)
  PROVE  ForwarderInv'
<1> DEFINE command == [target |-> target, literal |-> literal, press |-> Len(accepted)]
<1>1. command \in Command
  BY LenProperties DEF ForwarderInv, ForwarderTypeOK, Command
<1>2. UNCHANGED <<batch, forwarder, done, sent>>
  BY DEF Enqueue
<1>3. CASE Len(keyQueue) < KeyQueueSize
  <2>1. keyQueue' = Append(keyQueue, command) /\ accepted' = Append(accepted, command)
    BY <1>3 DEF Enqueue
  <2>2. /\ keyQueue' \in Seq(Command) /\ Len(keyQueue') = Len(keyQueue) + 1
        /\ accepted' \in Seq(Command)
    BY <1>1, <2>1, AppendProperties DEF ForwarderInv, ForwarderTypeOK
  <2>3. Len(keyQueue') <= KeyQueueSize
    BY <1>3, <2>2, ForwarderAssumption, LenProperties DEF ForwarderInv, ForwarderTypeOK
  <2>4. KeysInOrder'
    <3>1. /\ sent \in Seq(Command) /\ batch \in Seq(Command) /\ keyQueue \in Seq(Command)
          /\ accepted \in Seq(Command) /\ <<command>> \in Seq(Command)
          /\ sent \o batch \in Seq(Command)
      BY <1>1, ConcatProperties DEF ForwarderInv, ForwarderTypeOK
    <3>2. keyQueue' = keyQueue \o <<command>> /\ accepted' = accepted \o <<command>>
      BY <1>1, <2>1, <3>1, AppendIsConcat
    <3>3. sent \o batch \o (keyQueue \o <<command>>) = (sent \o batch \o keyQueue) \o <<command>>
      BY <3>1, ConcatAssociative
    <3>4. QED BY <1>2, <3>2, <3>3 DEF ForwarderInv, KeysInOrder
  <2>5. QED BY <1>2, <2>2, <2>3, <2>4 DEF ForwarderInv, ForwarderTypeOK, BatchInv
<1>4. CASE ~(Len(keyQueue) < KeyQueueSize)
  BY <1>2, <1>4 DEF Enqueue, ForwarderInv, ForwarderTypeOK, BatchInv, KeysInOrder
<1>5. QED BY <1>3, <1>4

\* The goroutine moves keys from the queue to the batch and from there to
\* tmux, and changes no other order.
LEMMA StepKeeps ==
  ASSUME ForwarderInv, ForwarderStep
  PROVE  ForwarderInv'
<1> USE DEF ForwarderInv
<1>t. /\ sent \in Seq(Command) /\ batch \in Seq(Command) /\ keyQueue \in Seq(Command)
      /\ accepted \in Seq(Command) /\ sent \o batch \in Seq(Command)
  BY ConcatProperties DEF ForwarderTypeOK
<1>h. ASSUME keyQueue # <<>>
      PROVE  /\ Head(keyQueue) \in Command /\ Tail(keyQueue) \in Seq(Command)
             /\ Len(Tail(keyQueue)) <= KeyQueueSize
             /\ <<Head(keyQueue)>> \in Seq(Command)
             /\ keyQueue = <<Head(keyQueue)>> \o Tail(keyQueue)
  BY <1>t, <1>h, Split, ForwarderAssumption, LenProperties DEF ForwarderTypeOK
<1>e. <<>> \in Seq(Command) /\ DOMAIN <<>> = {}
  OBVIOUS
<1>1. CASE Take
  <2>1. keyQueue # <<>> /\ batch = <<>> /\ UNCHANGED <<done, accepted, sent>>
    BY <1>1 DEF Take, BatchInv
  <2>2. ForwarderTypeOK'
    BY <1>1, <1>h, <2>1 DEF Take, ForwarderTypeOK
  <2>3. batch' = <<Head(keyQueue)>> /\ keyQueue' = Tail(keyQueue) /\ forwarder' \in {"batching", "single"}
    BY <1>1 DEF Take
  <2>4. BatchInv'
    BY <2>3 DEF BatchInv
  <2>5. KeysInOrder'
    <3>1. sent \o batch = sent
      BY <1>t, <2>1, ConcatEmptySeq
    <3>2. sent \o <<Head(keyQueue)>> \o Tail(keyQueue) = sent \o (<<Head(keyQueue)>> \o Tail(keyQueue))
      BY <1>t, <1>h, <2>1, ConcatAssociative
    <3>3. QED BY <1>h, <2>1, <2>3, <3>1, <3>2 DEF KeysInOrder
  <2>6. QED BY <2>2, <2>4, <2>5
<1>2. CASE Collect
  <2>1. /\ keyQueue # <<>> /\ forwarder = "batching" /\ Joins(Head(keyQueue))
        /\ batch' = Append(batch, Head(keyQueue)) /\ keyQueue' = Tail(keyQueue)
        /\ UNCHANGED <<forwarder, done, accepted, sent>>
    BY <1>2 DEF Collect
  <2>2. /\ batch' \in Seq(Command) /\ batch' = batch \o <<Head(keyQueue)>>
        /\ Len(batch') = Len(batch) + 1 /\ Len(batch) \in Nat
        /\ \A i \in 1 .. Len(batch) : batch'[i] = batch[i]
        /\ batch'[Len(batch) + 1] = Head(keyQueue)
    BY <1>t, <1>h, <2>1, AppendProperties, AppendIsConcat, LenProperties
  <2>3. ForwarderTypeOK'
    BY <1>h, <2>1, <2>2 DEF ForwarderTypeOK
  <2>4. BatchInv'
    <3>1. DOMAIN batch = 1 .. Len(batch) /\ DOMAIN batch' = 1 .. Len(batch) + 1
      BY <1>t, <2>2, LenProperties
    <3>2. CASE Len(batch) = 0
      BY <2>1, <3>1, <3>2 DEF BatchInv
    <3>3. CASE Len(batch) # 0
      <4>1. batch'[1] = batch[1]
        BY <2>2, <3>3
      <4>2. \A i \in 1 .. Len(batch) : batch'[i].target = batch[1].target
        BY <2>1, <2>2, <3>1 DEF BatchInv
      <4>3. batch'[Len(batch) + 1].target = batch[1].target
        BY <2>1, <2>2 DEF Joins
      <4>4. \A i \in DOMAIN batch' : i \in 1 .. Len(batch) \/ i = Len(batch) + 1
        BY <2>2, <3>1
      <4>5. QED BY <2>1, <4>1, <4>2, <4>3, <4>4 DEF BatchInv
    <3>4. QED BY <3>2, <3>3
  <2>5. KeysInOrder'
    <3>1. sent \o (batch \o <<Head(keyQueue)>>) \o Tail(keyQueue)
            = sent \o batch \o (<<Head(keyQueue)>> \o Tail(keyQueue))
      <4>1. sent \o (batch \o <<Head(keyQueue)>>) = (sent \o batch) \o <<Head(keyQueue)>>
        BY <1>t, <1>h, <2>1, ConcatAssociative
      <4>2. (sent \o batch) \o <<Head(keyQueue)>> \o Tail(keyQueue)
              = sent \o batch \o (<<Head(keyQueue)>> \o Tail(keyQueue))
        <5>1. keyQueue # <<>>
          BY <2>1
        <5>2. <<Head(keyQueue)>> \in Seq(Command) /\ Tail(keyQueue) \in Seq(Command)
          BY <1>h, <5>1
        <5> HIDE DEF ForwarderInv
        <5>3. QED BY <1>t, <5>2, ConcatAssociative
      <4>3. QED BY <4>1, <4>2
    <3>2. QED BY <1>h, <2>1, <2>2, <3>1 DEF KeysInOrder
  <2>6. QED BY <2>3, <2>4, <2>5
<1>3. CASE FlushBefore
  <2>1. /\ keyQueue # <<>> /\ forwarder = "batching" /\ sent' = Flushed
        /\ batch' = <<Head(keyQueue)>> /\ keyQueue' = Tail(keyQueue)
        /\ forwarder' \in {"batching", "single"}
        /\ UNCHANGED <<done, accepted>>
    BY <1>3 DEF FlushBefore
  <2>2. sent' = sent \o batch
    BY <2>1, FlushedIsBatch DEF BatchInv
  <2>3. ForwarderTypeOK'
    BY <1>t, <1>h, <2>1, <2>2 DEF ForwarderTypeOK
  <2>4. BatchInv'
    BY <2>1 DEF BatchInv
  <2>5. KeysInOrder'
    <3>1. sent \o batch \o <<Head(keyQueue)>> \o Tail(keyQueue)
            = sent \o batch \o (<<Head(keyQueue)>> \o Tail(keyQueue))
      BY <1>t, <1>h, <2>1, ConcatAssociative
    <3>2. QED BY <1>h, <2>1, <2>2, <3>1 DEF KeysInOrder
  <2>6. QED BY <2>3, <2>4, <2>5
<1>4. CASE FlushIdle \/ FlushDone \/ DispatchKey
  <2>1. /\ batch' = <<>> /\ forwarder' = "waiting" /\ UNCHANGED <<keyQueue, done, accepted>>
        /\ (forwarder = "batching" /\ sent' = Flushed) \/ sent' = sent \o batch
    BY <1>4 DEF FlushIdle, FlushDone, DispatchKey
  <2>2. sent' = sent \o batch
    BY <2>1, FlushedIsBatch DEF BatchInv
  <2>3. ForwarderTypeOK'
    BY <1>t, <1>e, <2>1, <2>2 DEF ForwarderTypeOK
  <2>4. BatchInv'
    BY <2>1 DEF BatchInv
  <2>5. KeysInOrder'
    <3>1. sent' \o batch' = sent \o batch
      BY <1>t, <2>1, <2>2, ConcatEmptySeq
    <3>2. QED BY <2>1, <3>1 DEF KeysInOrder
  <2>6. QED BY <2>3, <2>4, <2>5
<1>5. CASE StopForwarder
  BY <1>5 DEF StopForwarder, ForwarderTypeOK, BatchInv, KeysInOrder
<1>6. QED BY <1>1, <1>2, <1>3, <1>4, <1>5 DEF ForwarderStep

\* The invariant of the forwarder.
LEMMA ForwarderInvariant == ForwarderSpec => []ForwarderInv
<1>1. ForwarderInit => ForwarderInv
  <2> SUFFICES ASSUME ForwarderInit PROVE ForwarderInv
    OBVIOUS
  <2>1. <<>> \in Seq(Command) /\ Len(<<>>) = 0 /\ 0 <= KeyQueueSize
    BY EmptySeq, ForwarderAssumption
  <2>2. ForwarderTypeOK
    BY <2>1 DEF ForwarderInit, ForwarderTypeOK
  <2>3. BatchInv
    BY DEF ForwarderInit, BatchInv
  <2>4. KeysInOrder
    <3>1. <<>> \o <<>> = <<>>
      BY <2>1, ConcatEmptySeq
    <3>2. QED BY <3>1 DEF ForwarderInit, KeysInOrder
  <2>5. QED BY <2>2, <2>3, <2>4 DEF ForwarderInv
<1>2. ForwarderInv /\ [ForwarderNext]_forwarderVars => ForwarderInv'
  <2> SUFFICES ASSUME ForwarderInv, [ForwarderNext]_forwarderVars PROVE ForwarderInv'
    OBVIOUS
  <2>1. CASE CloseDone
    BY <2>1 DEF CloseDone, ForwarderInv, ForwarderTypeOK, BatchInv, KeysInOrder
  <2>2. CASE UNCHANGED forwarderVars
    BY <2>2 DEF forwarderVars, ForwarderInv, ForwarderTypeOK, BatchInv, KeysInOrder
  <2>3. QED BY <2>1, <2>2, EnqueueKeeps, StepKeeps DEF ForwarderNext
<1>3. QED BY <1>1, <1>2, PTL DEF ForwarderSpec

\* The order of the keys, for any targets, queue and number of keys.
LEMMA ForwarderKeepsOrder == ForwarderSpec => []KeysInOrder
<1>1. ForwarderInv => KeysInOrder
  BY DEF ForwarderInv
<1>2. QED BY <1>1, ForwarderInvariant, PTL

-----------------------------------------------------------------------------
(* Scrollback                                                              *)

\* A generation starts one capture at most; out of scroll mode none is of the
\* current generation, and none is ever of a generation to come.
CapturesInv ==
  /\ \A c \in captures : c.gen <= generation
  /\ \A c, d \in captures : c.gen = d.gen => c = d
  /\ ~scrolling => \A c \in captures : c.gen # generation

\* The capture that ScrollModeEnter started learns the bound at the bottom.
OffsetInv ==
  /\ OffsetInHistory
  /\ \A c \in captures : c.gen = generation /\ c.kind = "enter" => scrollOffset = 0

ScrollInv == ScrollTypeOK /\ CapturesInv /\ NoLinesAfterExit /\ OffsetInv

\* What a handler that starts a capture leaves.
LEMMA BumpFacts ==
  ASSUME ScrollInv, NEW kind \in Kinds, NEW at \in Nat, Bump(kind, at)
  PROVE  /\ generation' \in Nat /\ captures' \in SUBSET Capture /\ stale' \in BOOLEAN
         /\ \A c \in captures' : c.gen <= generation'
         /\ \A c, d \in captures' : c.gen = d.gen => c = d
         /\ \A c \in captures' : c.gen = generation' => c.kind = kind
<1> USE DEF ScrollInv, ScrollTypeOK
<1> DEFINE new == [gen |-> generation + 1, kind |-> kind, step |-> IF kind = "lines" THEN "capture" ELSE "history",
                   at |-> at, size |-> Failed, count |-> Failed]
<1>1. generation' = generation + 1 /\ captures' = captures \cup {new} /\ stale' = FALSE
  BY DEF Bump
<1>2. new \in Capture /\ new.gen = generation + 1 /\ new.kind = kind
  BY DEF Capture, Steps
<1>3. \A c \in captures : c.gen \in Nat /\ c.gen <= generation /\ c.gen # generation + 1
  BY DEF CapturesInv, Capture
<1> HIDE DEF new
<1>4. generation' \in Nat /\ captures' \in SUBSET Capture /\ stale' \in BOOLEAN
  <2>1. generation \in Nat /\ captures \in SUBSET Capture
    OBVIOUS
  <2> HIDE DEF ScrollInv, ScrollTypeOK
  <2>2. generation' \in Nat
    BY <1>1, <2>1
  <2>5. stale' \in BOOLEAN
    BY <1>1, Zenon
  <2>3. captures' \in SUBSET Capture
    BY <1>1, <1>2, <2>1, Zenon
  <2>4. QED BY <2>2, <2>3, <2>5
<1>5. \A c \in captures' : c \in captures \/ c = new
  BY <1>1
<1>6. \A c \in captures' : c.gen <= generation'
  BY <1>1, <1>2, <1>3, <1>5
<1>7. \A c \in captures' : c.gen = generation' => c = new
  BY <1>1, <1>3, <1>5
<1>8. \A c, d \in captures' : c.gen = d.gen => c = d
  BY <1>2, <1>3, <1>5 DEF CapturesInv
<1>9. QED BY <1>2, <1>4, <1>6, <1>7, <1>8

\* A move to an offset within a known bound.
LEMMA MoveToKeeps ==
  ASSUME ScrollInv, scrolling, NEW offset \in Nat, maxOffset > 0 => offset <= maxOffset,
         MoveTo(offset), cursorY' \in 0 .. ViewHeight - 1
  PROVE  ScrollInv'
<1>1. /\ scrollOffset' = offset /\ Bump("lines", offset)
      /\ UNCHANGED <<scrolling, maxOffset, lines, history>>
  BY DEF MoveTo
<1>2. "lines" \in Kinds /\ "lines" # "enter"
  BY DEF Kinds
<1>3. /\ generation' \in Nat /\ captures' \in SUBSET Capture /\ stale' \in BOOLEAN
      /\ \A c \in captures' : c.gen <= generation'
      /\ \A c, d \in captures' : c.gen = d.gen => c = d
      /\ \A c \in captures' : c.gen = generation' => c.kind = "lines"
  BY <1>1, <1>2, BumpFacts
<1>4. ScrollTypeOK'
  BY <1>1, <1>3 DEF ScrollInv, ScrollTypeOK
<1>5. CapturesInv' /\ NoLinesAfterExit'
  BY <1>1, <1>3 DEF CapturesInv, NoLinesAfterExit
<1>6. OffsetInv'
  BY <1>1, <1>2, <1>3 DEF OffsetInv, OffsetInHistory
<1>7. QED BY <1>4, <1>5, <1>6 DEF ScrollInv

\* Offsets stay naturals, and those that were bounded stay bounded.
LEMMA OffsetFacts ==
  ASSUME ScrollInv
  PROVE  /\ \A n \in Nat : Bounded(scrollOffset + n, maxOffset) \in Nat
         /\ \A n \in Nat : maxOffset > 0 => Bounded(scrollOffset + n, maxOffset) <= maxOffset
         /\ \A n \in Nat : Reduced(scrollOffset, n) \in Nat
         /\ \A n \in Nat : maxOffset > 0 => Reduced(scrollOffset, n) <= maxOffset
         /\ ViewHeight \div 2 \in Nat /\ ViewHeight - 1 \in 0 .. ViewHeight - 1
  BY ScrollAssumption DEF ScrollInv, ScrollTypeOK, OffsetInv, OffsetInHistory, Bounded, Reduced, Least

\* Leaving scroll mode makes every capture old.
LEMMA ExitKeeps ==
  ASSUME ScrollInv, ScrollModeExit
  PROVE  ScrollInv'
<1>1. ScrollTypeOK'
  <2>1. NoLines \in ScreenLines /\ 0 \in 0 .. ViewHeight - 1
    BY ScrollAssumption DEF NoLines, ScreenLines
  <2>2. /\ scrolling' = FALSE /\ stale' = FALSE /\ lines' = NoLines
        /\ scrollOffset' = 0 /\ maxOffset' = 0 /\ cursorY' = 0 /\ generation' = generation + 1
        /\ captures' = captures /\ history' = history
    BY DEF ScrollModeExit
  <2>3. scrolling' \in BOOLEAN /\ stale' \in BOOLEAN
    BY <2>2, Zenon
  <2>4. generation' \in Nat /\ captures' \in SUBSET Capture /\ history' \in 0 .. MaxHistory
    BY <2>2 DEF ScrollInv, ScrollTypeOK
  <2>5. QED BY <2>1, <2>2, <2>3, <2>4 DEF ScrollTypeOK
<1>2. \A c \in captures : c.gen \in Nat /\ c.gen <= generation
  BY DEF ScrollInv, ScrollTypeOK, CapturesInv, Capture
<1>3. generation \in Nat /\ generation' = generation + 1 /\ captures' = captures
  BY DEF ScrollInv, ScrollTypeOK, ScrollModeExit
<1>4. CapturesInv'
  BY <1>2, <1>3 DEF ScrollInv, CapturesInv
<1>5. NoLinesAfterExit' /\ OffsetInv'
  BY <1>2, <1>3 DEF ScrollModeExit, NoLinesAfterExit, OffsetInv, OffsetInHistory
<1>6. QED BY <1>1, <1>4, <1>5 DEF ScrollInv

\* The keys of scroll mode.
LEMMA ScrollKeyKeeps ==
  ASSUME ScrollInv, ScrollKey
  PROVE  ScrollInv'
<1> USE DEF ScrollInv
<1>t. /\ scrollOffset \in Nat /\ maxOffset \in Nat /\ cursorY \in 0 .. ViewHeight - 1
      /\ lines \in ScreenLines /\ ViewHeight \in Nat \ {0}
  BY ScrollAssumption DEF ScrollTypeOK
<1>1. CASE ScrollModeEnter
  <2>1. /\ scrolling' = TRUE /\ scrollOffset' = 0 /\ maxOffset' = 0 /\ cursorY' = ViewHeight - 1
        /\ lines' = NoLines /\ Bump("enter", 0) /\ UNCHANGED history
    BY <1>1 DEF ScrollModeEnter
  <2>2. /\ generation' \in Nat /\ captures' \in SUBSET Capture /\ stale' \in BOOLEAN
        /\ \A c \in captures' : c.gen <= generation'
        /\ \A c, d \in captures' : c.gen = d.gen => c = d
    BY <2>1, BumpFacts DEF Kinds
  <2>3. ScrollTypeOK'
    BY <1>t, <2>1, <2>2 DEF ScrollTypeOK, NoLines, ScreenLines
  <2>4. CapturesInv' /\ NoLinesAfterExit'
    BY <2>1, <2>2 DEF CapturesInv, NoLinesAfterExit
  <2>5. OffsetInv'
    BY <2>1 DEF OffsetInv, OffsetInHistory
  <2>6. QED BY <2>3, <2>4, <2>5
<1>2. CASE ScrollModeExit
  BY <1>2, ExitKeeps
<1>3. ASSUME cursorY' \in 0 .. ViewHeight - 1,
             UNCHANGED <<scrolling, scrollOffset, maxOffset, lines, generation, captures, history, stale>>
      PROVE  ScrollInv'
  BY <1>3 DEF ScrollTypeOK, CapturesInv, NoLinesAfterExit, OffsetInv, OffsetInHistory
<1>4. CASE ScrollModeUp
  <2>1. CASE cursorY > 0 /\ cursorY' = cursorY - 1
              /\ UNCHANGED <<scrolling, scrollOffset, maxOffset, lines, generation, captures, history, stale>>
    BY <1>t, <1>3, <2>1
  <2>2. CASE MoveTo(Bounded(scrollOffset + 1, maxOffset)) /\ UNCHANGED cursorY
    BY <1>t, <1>4, <2>2, OffsetFacts, MoveToKeeps DEF ScrollModeUp
  <2>3. QED BY <1>4, <2>1, <2>2 DEF ScrollModeUp
<1>5. CASE ScrollModeDown
  <2>1. CASE cursorY < LastLine /\ cursorY' = cursorY + 1
              /\ UNCHANGED <<scrolling, scrollOffset, maxOffset, lines, generation, captures, history, stale>>
    <3>1. LastLine \in 0 .. ViewHeight - 1
      BY <1>t DEF LastLine, ScreenLines
    <3>2. QED BY <1>t, <1>3, <2>1, <3>1
  <2>2. CASE scrollOffset > 0 /\ MoveTo(scrollOffset - 1) /\ UNCHANGED cursorY
    <3>1. scrollOffset - 1 \in Nat /\ (maxOffset > 0 => scrollOffset - 1 <= maxOffset)
      BY <1>t, <2>2 DEF OffsetInv, OffsetInHistory
    <3>2. QED BY <1>t, <1>5, <2>2, <3>1, MoveToKeeps DEF ScrollModeDown
  <2>3. QED BY <1>5, <2>1, <2>2 DEF ScrollModeDown
<1>6. CASE ScrollModeHalfUp \/ ScrollModeHalfDown
  BY <1>t, <1>6, OffsetFacts, MoveToKeeps DEF ScrollModeHalfUp, ScrollModeHalfDown
<1>7. CASE ScrollModeToTop
  <2>1. /\ scrolling /\ scrollOffset' = TopOffset /\ cursorY' = 0 /\ Bump("top", 0)
        /\ UNCHANGED <<scrolling, maxOffset, lines, history>>
    BY <1>7 DEF ScrollModeToTop
  <2>2. /\ generation' \in Nat /\ captures' \in SUBSET Capture /\ stale' \in BOOLEAN
        /\ \A c \in captures' : c.gen <= generation'
        /\ \A c, d \in captures' : c.gen = d.gen => c = d
        /\ \A c \in captures' : c.gen = generation' => c.kind = "top"
    BY <2>1, BumpFacts DEF Kinds
  <2>3. TopOffset \in Nat /\ (maxOffset > 0 => TopOffset <= maxOffset)
    BY <1>t DEF TopOffset
  <2>4. ScrollTypeOK'
    BY <1>t, <2>1, <2>2, <2>3 DEF ScrollTypeOK
  <2>5. CapturesInv' /\ NoLinesAfterExit'
    BY <2>1, <2>2 DEF CapturesInv, NoLinesAfterExit
  <2>6. OffsetInv'
    BY <2>1, <2>2, <2>3 DEF OffsetInv, OffsetInHistory
  <2>7. QED BY <2>4, <2>5, <2>6
<1>8. CASE ScrollModeToBottom
  BY <1>t, <1>8, OffsetFacts, MoveToKeeps DEF ScrollModeToBottom
<1>9. QED BY <1>1, <1>2, <1>4, <1>5, <1>6, <1>7, <1>8 DEF ScrollKey

\* The wheel.
LEMMA WheelKeeps ==
  ASSUME ScrollInv, Wheel
  PROVE  ScrollInv'
<1>t. /\ scrollOffset \in Nat /\ maxOffset \in Nat /\ cursorY \in 0 .. ViewHeight - 1
      /\ lines \in ScreenLines /\ NoLines \in ScreenLines
      /\ ViewHeight \in Nat \ {0} /\ MouseScrollLines \in Nat
  BY ScrollAssumption DEF ScrollInv, ScrollTypeOK, NoLines, ScreenLines
<1>1. CASE ScrollModeMouseUp
  <2>1. /\ scrollOffset' \in Nat /\ maxOffset' \in Nat
        /\ maxOffset' > 0 => scrollOffset' <= maxOffset'
        /\ cursorY' \in 0 .. ViewHeight - 1
        /\ lines' \in ScreenLines
    <3>1. CASE scrolling
      <4>1. scrollOffset' = Bounded(scrollOffset + MouseScrollLines, maxOffset) /\ UNCHANGED <<maxOffset, cursorY, lines>>
        BY <1>1, <3>1 DEF ScrollModeMouseUp
      <4>2. QED BY <1>t, <4>1, OffsetFacts
    <3>2. CASE ~scrolling
      <4>1. scrollOffset' = MouseScrollLines /\ maxOffset' = 0 /\ cursorY' = ViewHeight - 1 /\ lines' = NoLines
        BY <1>1, <3>2 DEF ScrollModeMouseUp
      <4>2. QED BY <1>t, <4>1
    <3>3. QED BY <3>1, <3>2
  <2>2. scrolling' = TRUE /\ UNCHANGED history /\ Bump("lines", scrollOffset')
    BY <1>1 DEF ScrollModeMouseUp
  <2>3. "lines" \in Kinds /\ "lines" # "enter"
    BY DEF Kinds
  <2>4. /\ generation' \in Nat /\ captures' \in SUBSET Capture /\ stale' \in BOOLEAN
        /\ \A c \in captures' : c.gen <= generation'
        /\ \A c, d \in captures' : c.gen = d.gen => c = d
        /\ \A c \in captures' : c.gen = generation' => c.kind = "lines"
    BY <2>1, <2>2, <2>3, BumpFacts
  <2>5. ScrollTypeOK'
    BY <2>1, <2>2, <2>4 DEF ScrollInv, ScrollTypeOK
  <2>6. CapturesInv' /\ NoLinesAfterExit'
    BY <2>2, <2>4 DEF CapturesInv, NoLinesAfterExit
  <2>7. OffsetInv'
    BY <2>1, <2>3, <2>4 DEF OffsetInv, OffsetInHistory
  <2>8. QED BY <2>5, <2>6, <2>7 DEF ScrollInv
<1>2. CASE ScrollModeMouseDown
  <2>1. CASE ScrollModeExit
    BY <2>1, ExitKeeps
  <2>2. CASE MoveTo(Reduced(scrollOffset, MouseScrollLines)) /\ UNCHANGED cursorY
    BY <1>2, <1>t, <2>2, OffsetFacts, MoveToKeeps DEF ScrollModeMouseDown
  <2>3. QED BY <1>2, <2>1, <2>2 DEF ScrollModeMouseDown
<1>3. QED BY <1>1, <1>2 DEF Wheel

\* A capture that goes on keeps its generation and its kind.
LEMMA AdvancedKeeps ==
  ASSUME ScrollInv, NEW c \in captures, NEW d \in Capture, d.gen = c.gen, d.kind = c.kind,
         Advanced(c, d), NothingShown
  PROVE  ScrollInv'
<1>1. captures' = (captures \ {c}) \cup {d}
  BY DEF Advanced
<1>2. UNCHANGED <<scrolling, scrollOffset, maxOffset, cursorY, lines, generation, history, stale>>
  BY DEF NothingShown
<1>3. ScrollTypeOK'
  BY <1>1, <1>2 DEF ScrollInv, ScrollTypeOK
<1>4. \A e \in captures' : \E f \in captures : f.gen = e.gen /\ f.kind = e.kind /\ (e = f \/ (e = d /\ f = c))
  BY <1>1
<1>5. \A e, f \in captures' : e.gen = f.gen => e = f
  BY <1>1 DEF ScrollInv, CapturesInv
<1>6. CapturesInv' /\ NoLinesAfterExit'
  BY <1>2, <1>4, <1>5 DEF ScrollInv, CapturesInv, NoLinesAfterExit
<1>7. OffsetInv'
  BY <1>2, <1>4 DEF ScrollInv, OffsetInv, OffsetInHistory
<1>8. QED BY <1>3, <1>6, <1>7 DEF ScrollInv

\* The callback of a capture.
LEMMA UpdateKeeps ==
  ASSUME ScrollInv, NEW c \in captures, Update(c)
  PROVE  ScrollInv'
<1> USE DEF ScrollInv
<1>t. /\ scrollOffset \in Nat /\ maxOffset \in Nat /\ cursorY \in 0 .. ViewHeight - 1
      /\ lines \in ScreenLines /\ ViewHeight \in Nat \ {0} /\ c \in Capture
      /\ generation \in Nat /\ captures \in SUBSET Capture
  BY ScrollAssumption DEF ScrollTypeOK
<1>1. captures' = captures \ {c} /\ UNCHANGED <<scrolling, generation, history>>
  BY DEF Update
<1>2. CapturesInv'
  BY <1>1 DEF CapturesInv
<1>3. CASE c.gen # generation
  <2>1. UNCHANGED <<scrollOffset, maxOffset, cursorY, lines, stale>>
    BY <1>3 DEF Update
  <2>2. ScrollTypeOK'
    BY <1>1, <2>1 DEF ScrollTypeOK
  <2>3. NoLinesAfterExit' /\ OffsetInv'
    BY <1>1, <2>1 DEF NoLinesAfterExit, OffsetInv, OffsetInHistory
  <2>4. QED BY <1>2, <2>2, <2>3
<1>4. CASE c.gen = generation
  <2> DEFINE max == KnownMax(c)
             offset == IF c.kind = "top" /\ max > 0 THEN max ELSE scrollOffset
             from == IF c.kind = "top" THEN 0 ELSE cursorY
  <2>1. /\ scrollOffset' = offset /\ SetLines(c, offset, max, from)
        /\ stale' = (c.count = Failed \/ (c.kind = "top" /\ c.size <= 0))
    BY <1>4 DEF Update
  <2>2. scrolling
    BY <1>4 DEF CapturesInv
  <2>3. /\ c.kind \in Kinds /\ c.at \in Nat /\ c.size \in Nat \cup {-1}
        /\ c.count \in 0 .. ViewHeight \cup {-1}
    BY <1>t DEF Capture, Failed
  <2>4. max \in Nat /\ from \in 0 .. ViewHeight - 1
    BY <1>t, <2>3 DEF KnownMax
  <2>5. offset \in Nat /\ (max > 0 => offset <= max)
    <3>1. CASE c.kind = "top"
      BY <1>t, <2>4, <3>1
    <3>2. CASE c.kind = "enter"
      BY <1>t, <1>4, <2>4, <3>2 DEF OffsetInv
    <3>3. CASE c.kind = "lines"
      BY <1>t, <2>4, <3>3 DEF KnownMax, OffsetInv, OffsetInHistory
    <3>4. QED BY <2>3, <3>1, <3>2, <3>3 DEF Kinds
  <2>6. /\ lines' \in ScreenLines /\ maxOffset' \in Nat /\ cursorY' \in 0 .. ViewHeight - 1
        /\ maxOffset' > 0 => offset <= maxOffset'
    <3> HIDE DEF max, offset, from
    <3>1. CASE c.count = Failed
      BY <1>t, <2>1, <2>4, <2>5, <3>1 DEF SetLines
    <3>2. CASE c.count # Failed
      <4>1. c.count \in 0 .. ViewHeight
        BY <2>3, <3>2 DEF Failed
      <4>2. lines' = [at |-> c.at, count |-> c.count]
        BY <2>1, <3>2 DEF SetLines
      <4>3. lines' \in ScreenLines
        BY <2>3, <4>1, <4>2 DEF ScreenLines
      <4>4. /\ maxOffset' = IF c.count > 0 /\ c.count < ViewHeight /\ max = 0 THEN offset ELSE max
            /\ cursorY' = IF c.count > 0 THEN Least(from, c.count - 1) ELSE from
        BY <2>1, <3>2 DEF SetLines
      <4>5. maxOffset' \in Nat /\ (maxOffset' > 0 => offset <= maxOffset')
        BY <2>4, <2>5, <4>4
      <4>6. cursorY' \in 0 .. ViewHeight - 1
        BY <1>t, <2>4, <4>1, <4>4 DEF Least
      <4>7. QED BY <4>3, <4>5, <4>6
    <3>3. QED BY <3>1, <3>2
  <2>7. stale' \in BOOLEAN
    BY <2>1
  <2>8. ScrollTypeOK'
    <3> HIDE DEF max, offset, from
    <3>1. captures' \in SUBSET Capture /\ scrollOffset' \in Nat
      BY <1>t, <1>1, <2>1, <2>5
    <3>2. QED BY <1>1, <2>6, <2>7, <3>1 DEF ScrollTypeOK
  <2>9. NoLinesAfterExit'
    BY <1>1, <2>2 DEF NoLinesAfterExit
  <2>10. OffsetInv'
    <3>1. \A d \in captures' : d.gen # generation
      BY <1>1, <1>4 DEF CapturesInv
    <3>2. OffsetInHistory'
      BY <2>1, <2>6 DEF OffsetInHistory
    <3>3. QED BY <1>1, <3>1, <3>2 DEF OffsetInv
  <2>11. QED BY <1>2, <2>8, <2>9, <2>10
<1>5. QED BY <1>3, <1>4

\* The goroutine of a capture.
LEMMA CaptureStepKeeps ==
  ASSUME ScrollInv, CaptureStep
  PROVE  ScrollInv'
<1> SUFFICES ASSUME NEW c \in captures, ReadHistory(c) \/ CaptureScrollback(c) \/ Update(c)
             PROVE  ScrollInv'
  BY DEF CaptureStep
<1>t. c \in Capture /\ history \in Nat
  BY ScrollAssumption DEF ScrollInv, ScrollTypeOK
<1>1. CASE ReadHistory(c)
  <2>1. PICK size \in {history, Failed} :
          Advanced(c, [c EXCEPT !.step = "capture", !.size = size,
                                !.at = IF c.kind = "top" /\ size > 0 THEN size ELSE c.at])
    BY <1>1 DEF ReadHistory
  <2> DEFINE d == [c EXCEPT !.step = "capture", !.size = size,
                            !.at = IF c.kind = "top" /\ size > 0 THEN size ELSE c.at]
  <2>2. size \in Nat \cup {Failed} /\ (size > 0 => size \in Nat)
    BY <1>t, <2>1 DEF Failed
  <2>3. d \in Capture /\ d.gen = c.gen /\ d.kind = c.kind
    BY <1>t, <2>2 DEF Capture, Steps
  <2>4. NothingShown
    BY <1>1 DEF ReadHistory
  <2>5. QED BY <2>1, <2>3, <2>4, AdvancedKeeps
<1>2. CASE CaptureScrollback(c)
  <2>1. PICK count \in {Captured(c.at), Failed} : Advanced(c, [c EXCEPT !.step = "update", !.count = count])
    BY <1>2 DEF CaptureScrollback
  <2>2. count \in 0 .. ViewHeight \cup {Failed}
    BY <1>t, <2>1, ScrollAssumption DEF Captured, Capture
  <2> DEFINE d == [c EXCEPT !.step = "update", !.count = count]
  <2>3. d \in Capture /\ d.gen = c.gen /\ d.kind = c.kind
    BY <1>t, <2>2 DEF Capture, Steps
  <2>4. NothingShown
    BY <1>2 DEF CaptureScrollback
  <2>5. QED BY <2>1, <2>3, <2>4, AdvancedKeeps
<1>3. CASE Update(c)
  BY <1>3, UpdateKeeps
<1>4. QED BY <1>1, <1>2, <1>3

\* The invariant of scroll mode.
LEMMA ScrollInvariant == ScrollSpec => []ScrollInv
<1>1. ScrollInit => ScrollInv
  <2> SUFFICES ASSUME ScrollInit PROVE ScrollInv
    OBVIOUS
  <2>1. NoLines \in ScreenLines /\ 0 \in 0 .. ViewHeight - 1
    BY ScrollAssumption DEF NoLines, ScreenLines
  <2>2. ScrollTypeOK
    BY <2>1 DEF ScrollInit, ScrollTypeOK
  <2>3. CapturesInv /\ NoLinesAfterExit /\ OffsetInv
    BY DEF ScrollInit, CapturesInv, NoLinesAfterExit, OffsetInv, OffsetInHistory
  <2>4. QED BY <2>2, <2>3 DEF ScrollInv
<1>2. ScrollInv /\ [ScrollNext]_scrollVars => ScrollInv'
  <2> SUFFICES ASSUME ScrollInv, [ScrollNext]_scrollVars PROVE ScrollInv'
    OBVIOUS
  <2>1. CASE HistoryChanges
    BY <2>1 DEF HistoryChanges, ScrollInv, ScrollTypeOK, CapturesInv, NoLinesAfterExit, OffsetInv, OffsetInHistory
  <2>2. CASE UNCHANGED scrollVars
    BY <2>2 DEF scrollVars, ScrollInv, ScrollTypeOK, CapturesInv, NoLinesAfterExit, OffsetInv, OffsetInHistory
  <2>3. QED BY <2>1, <2>2, ScrollKeyKeeps, WheelKeeps, CaptureStepKeeps DEF ScrollNext
<1>3. QED BY <1>1, <1>2, PTL DEF ScrollSpec

\* The two properties of scroll mode, for any height, history and wheel.
LEMMA ScrollProperties == ScrollSpec => []NoLinesAfterExit /\ []OffsetInHistory
<1>1. ScrollInv => NoLinesAfterExit /\ OffsetInHistory
  BY DEF ScrollInv, OffsetInv
<1>2. QED BY <1>1, ScrollInvariant, PTL

\* What the captures on their way will show: those of the current generation
\* are taken at its offset, the top at the size that was found.
AimInv ==
  /\ \A c \in captures : c.gen = generation =>
       /\ c.kind = "lines" => c.at = scrollOffset
       /\ c.kind = "enter" => c.at = 0
       /\ c.kind = "top" /\ c.step # "history" /\ c.size > 0 => c.at = c.size
  /\ \A c \in captures : c.step = "update" => c.count # 0

\* A new capture is of a generation of its own and aims at the offset given.
LEMMA BumpAims ==
  ASSUME ScrollInv, AimInv, NEW kind \in Kinds, NEW at \in Nat, Bump(kind, at),
         kind = "lines" => at = scrollOffset', kind = "enter" => at = 0
  PROVE  AimInv' /\ \E c \in captures' : c.gen = generation'
<1> DEFINE new == [gen |-> generation + 1, kind |-> kind, step |-> IF kind = "lines" THEN "capture" ELSE "history",
                   at |-> at, size |-> Failed, count |-> Failed]
<1>1. generation' = generation + 1 /\ captures' = captures \cup {new}
  BY DEF Bump
<1>2. /\ new.gen = generation + 1 /\ new.kind = kind /\ new.at = at
      /\ new.step # "update" /\ (kind = "top" => new.step = "history")
  OBVIOUS
<1>3. \A c \in captures : c.gen \in Nat /\ c.gen <= generation /\ c.gen # generation + 1
  BY DEF ScrollInv, ScrollTypeOK, CapturesInv, Capture
<1> HIDE DEF new
<1>4. \A c \in captures' : c.gen = generation' => c = new
  BY <1>1, <1>3
<1>5. AimInv'
  BY <1>1, <1>2, <1>4 DEF AimInv, Kinds
<1>6. QED BY <1>1, <1>2, <1>5

\* Every handler that moves the view starts a capture at the new offset.
LEMMA MoveToAims ==
  ASSUME ScrollInv, AimInv, NEW offset \in Nat, MoveTo(offset)
  PROVE  AimInv' /\ SettledView'
<1>1. AimInv' /\ \E c \in captures' : c.gen = generation'
  BY BumpAims DEF MoveTo, Kinds
<1>2. QED BY <1>1 DEF SettledView

\* After the exit nothing on its way is current.
LEMMA ExitAims ==
  ASSUME ScrollInv, AimInv, ScrollModeExit
  PROVE  AimInv' /\ SettledView'
<1>1. \A c \in captures : c.gen \in Nat /\ c.gen <= generation
  BY DEF ScrollInv, ScrollTypeOK, CapturesInv, Capture
<1>2. generation \in Nat /\ generation' = generation + 1 /\ captures' = captures /\ lines' = NoLines
  BY DEF ScrollInv, ScrollTypeOK, ScrollModeExit
<1>3. AimInv'
  BY <1>1, <1>2 DEF AimInv
<1>4. QED BY <1>2, <1>3 DEF SettledView

\* The keys and the wheel.
LEMMA InputAims ==
  ASSUME ScrollInv, AimInv, SettledView, ScrollKey \/ Wheel
  PROVE  AimInv' /\ SettledView'
<1>t. /\ scrollOffset \in Nat /\ maxOffset \in Nat /\ cursorY \in 0 .. ViewHeight - 1
      /\ lines \in ScreenLines /\ ViewHeight \in Nat \ {0} /\ MouseScrollLines \in Nat
  BY ScrollAssumption DEF ScrollInv, ScrollTypeOK
<1>1. CASE ScrollModeEnter
  <2>1. scrollOffset' = 0 /\ Bump("enter", 0)
    BY <1>1 DEF ScrollModeEnter
  <2>2. AimInv' /\ \E c \in captures' : c.gen = generation'
    BY <2>1, BumpAims DEF Kinds
  <2>3. QED BY <2>2 DEF SettledView
<1>2. CASE ScrollModeExit
  BY <1>2, ExitAims
<1>3. ASSUME UNCHANGED <<scrolling, scrollOffset, maxOffset, lines, generation, captures, history, stale>>,
             cursorY' < cursorY \/ cursorY' =< LastLine, cursorY' \in Int
      PROVE  AimInv' /\ SettledView'
  <2>1. AimInv'
    BY <1>3 DEF AimInv
  <2>2. SettledView'
    BY <1>t, <1>3 DEF SettledView, LastLine, ScreenLines
  <2>3. QED BY <2>1, <2>2
<1>4. CASE ScrollModeUp
  <2>1. CASE cursorY > 0 /\ cursorY' = cursorY - 1
              /\ UNCHANGED <<scrolling, scrollOffset, maxOffset, lines, generation, captures, history, stale>>
    BY <1>t, <1>3, <2>1
  <2>2. CASE MoveTo(Bounded(scrollOffset + 1, maxOffset))
    BY <2>2, OffsetFacts, MoveToAims
  <2>3. QED BY <1>4, <2>1, <2>2 DEF ScrollModeUp
<1>5. CASE ScrollModeDown
  <2>1. CASE cursorY < LastLine /\ cursorY' = cursorY + 1
              /\ UNCHANGED <<scrolling, scrollOffset, maxOffset, lines, generation, captures, history, stale>>
    <3>1. LastLine \in Int
      BY <1>t DEF LastLine, ScreenLines
    <3>2. QED BY <1>t, <1>3, <2>1, <3>1
  <2>2. CASE scrollOffset > 0 /\ MoveTo(scrollOffset - 1)
    BY <1>t, <2>2, MoveToAims
  <2>3. QED BY <1>5, <2>1, <2>2 DEF ScrollModeDown
<1>6. CASE ScrollModeHalfUp \/ ScrollModeHalfDown \/ ScrollModeToBottom
  BY <1>6, OffsetFacts, MoveToAims DEF ScrollModeHalfUp, ScrollModeHalfDown, ScrollModeToBottom
<1>7. CASE ScrollModeToTop
  <2>1. Bump("top", 0)
    BY <1>7 DEF ScrollModeToTop
  <2>2. AimInv' /\ \E c \in captures' : c.gen = generation'
    BY <2>1, BumpAims DEF Kinds
  <2>3. QED BY <2>2 DEF SettledView
<1>8. CASE ScrollModeMouseUp
  <2>1. Bump("lines", scrollOffset')
    BY <1>8 DEF ScrollModeMouseUp
  <2>2. scrollOffset' \in Nat
    BY <1>8, <1>t, OffsetFacts DEF ScrollModeMouseUp
  <2>3. AimInv' /\ \E c \in captures' : c.gen = generation'
    BY <2>1, <2>2, BumpAims DEF Kinds
  <2>4. QED BY <2>3 DEF SettledView
<1>9. CASE ScrollModeMouseDown
  <2>1. CASE ScrollModeExit
    BY <2>1, ExitAims
  <2>2. CASE MoveTo(Reduced(scrollOffset, MouseScrollLines))
    BY <1>t, <2>2, OffsetFacts, MoveToAims
  <2>3. QED BY <1>9, <2>1, <2>2 DEF ScrollModeMouseDown
<1>10. QED BY <1>1, <1>2, <1>4, <1>5, <1>6, <1>7, <1>8, <1>9 DEF ScrollKey, Wheel

\* The callback of the current capture shows what it aimed at, and leaves the
\* cursor on it.
LEMMA UpdateSettles ==
  ASSUME ScrollInv, AimInv, SettledView, NEW c \in captures, Update(c)
  PROVE  AimInv' /\ SettledView'
<1>t. /\ c \in Capture /\ cursorY \in Nat /\ ViewHeight \in Nat \ {0} /\ scrollOffset \in Nat
  BY ScrollAssumption DEF ScrollInv, ScrollTypeOK
<1>1. captures' = captures \ {c} /\ generation' = generation /\ c.count # 0
  BY DEF Update, AimInv
<1>2. CASE c.gen # generation
  <2>1. UNCHANGED <<scrollOffset, cursorY, lines, stale>>
    BY <1>2 DEF Update
  <2>2. AimInv'
    BY <1>1, <2>1 DEF AimInv
  <2>3. (\A d \in captures' : d.gen # generation) => \A d \in captures : d.gen # generation
    BY <1>1, <1>2
  <2>4. QED BY <1>1, <2>1, <2>2, <2>3 DEF SettledView
<1>3. CASE c.gen = generation
  <2>1. \A d \in captures' : d.gen # generation'
    BY <1>1, <1>3 DEF ScrollInv, CapturesInv
  <2>2. AimInv'
    BY <1>1, <2>1 DEF AimInv
  <2> DEFINE max == KnownMax(c)
             offset == IF c.kind = "top" /\ max > 0 THEN max ELSE scrollOffset
             from == IF c.kind = "top" THEN 0 ELSE cursorY
  <2>3. /\ scrollOffset' = offset /\ SetLines(c, offset, max, from)
        /\ stale' = (c.count = Failed \/ (c.kind = "top" /\ c.size <= 0))
    BY <1>3 DEF Update
  <2>4. CASE stale'
    BY <2>2, <2>4 DEF SettledView
  <2>5. CASE ~stale'
    <3>1. c.count # Failed /\ c.count \in 1 .. ViewHeight /\ (c.kind = "top" => c.size > 0)
      <4>1. c.count \in 0 .. ViewHeight \cup {-1} /\ c.size \in Nat \cup {-1}
        BY <1>t DEF Capture, Failed
      <4>2. c.count # -1 /\ ~(c.kind = "top" /\ c.size <= 0)
        BY <2>3, <2>5 DEF Failed
      <4>3. QED BY <1>t, <1>1, <4>1, <4>2 DEF Failed
    <3>2. c.at = offset
      <4>1. CASE c.kind = "top"
        BY <1>3, <3>1, <4>1 DEF AimInv, KnownMax, Update
      <4>2. CASE c.kind = "enter"
        BY <1>3, <4>2 DEF AimInv, ScrollInv, OffsetInv
      <4>3. CASE c.kind = "lines"
        BY <1>3, <4>3 DEF AimInv
      <4>4. QED BY <1>t, <4>1, <4>2, <4>3 DEF Capture, Kinds
    <3>3. lines' = [at |-> c.at, count |-> c.count] /\ cursorY' = Least(from, c.count - 1)
      BY <2>3, <3>1 DEF SetLines
    <3>4. lines'.at = scrollOffset' /\ lines'.count = c.count /\ cursorY' < c.count
      BY <1>t, <2>3, <3>1, <3>2, <3>3 DEF Least
    <3>5. QED BY <2>2, <3>4 DEF SettledView
  <2>6. QED BY <2>4, <2>5
<1>4. QED BY <1>2, <1>3

\* The goroutines of the captures keep their aim, and tmux always has a line.
LEMMA CaptureAims ==
  ASSUME ScrollInv, AimInv, SettledView, CaptureStep
  PROVE  AimInv' /\ SettledView'
<1> SUFFICES ASSUME NEW c \in captures, ReadHistory(c) \/ CaptureScrollback(c) \/ Update(c)
             PROVE  AimInv' /\ SettledView'
  BY DEF CaptureStep
<1>t. c \in Capture /\ history \in Nat /\ c.at \in Nat
  BY ScrollAssumption DEF ScrollInv, ScrollTypeOK, Capture
<1>1. ASSUME NEW d \in Capture, d.gen = c.gen, d.kind = c.kind, Advanced(c, d), NothingShown,
             d.kind \in {"lines", "enter"} => d.at = c.at,
             d.gen = generation /\ d.kind = "top" /\ d.step # "history" /\ d.size > 0 => d.at = d.size,
             d.step = "update" => d.count # 0
      PROVE  AimInv' /\ SettledView'
  <2>1. captures' = (captures \ {c}) \cup {d}
        /\ UNCHANGED <<scrollOffset, cursorY, lines, generation, stale>>
    BY <1>1 DEF Advanced, NothingShown
  <2>2. \A e \in captures' : e = d \/ e \in captures
    BY <2>1
  <2>3. AimInv'
    BY <1>1, <2>1, <2>2 DEF AimInv
  <2>4. (\A e \in captures' : e.gen # generation) => \A e \in captures : e.gen # generation
    BY <1>1, <2>1
  <2>5. QED BY <2>1, <2>3, <2>4 DEF SettledView
<1>2. CASE ReadHistory(c)
  <2>1. PICK size \in {history, Failed} :
          Advanced(c, [c EXCEPT !.step = "capture", !.size = size,
                                !.at = IF c.kind = "top" /\ size > 0 THEN size ELSE c.at])
    BY <1>2 DEF ReadHistory
  <2> DEFINE d == [c EXCEPT !.step = "capture", !.size = size,
                            !.at = IF c.kind = "top" /\ size > 0 THEN size ELSE c.at]
  <2>2. size \in Nat \cup {Failed} /\ (size > 0 => size \in Nat)
    BY <1>t, <2>1 DEF Failed
  <2>3. /\ d \in Capture /\ d.gen = c.gen /\ d.kind = c.kind /\ d.step = "capture" /\ d.size = size
        /\ d.at = IF c.kind = "top" /\ size > 0 THEN size ELSE c.at
    BY <1>t, <2>2 DEF Capture, Steps
  <2>4. NothingShown
    BY <1>2 DEF ReadHistory
  <2> HIDE DEF d
  <2>5. Advanced(c, d)
    BY <2>1 DEF d
  <2>6. QED BY <1>1, <2>3, <2>4, <2>5
<1>3. CASE CaptureScrollback(c)
  <2>1. PICK count \in {Captured(c.at), Failed} : Advanced(c, [c EXCEPT !.step = "update", !.count = count])
    BY <1>3 DEF CaptureScrollback
  <2>2. count \in 0 .. ViewHeight \cup {Failed} /\ count # 0
    BY <1>t, <2>1, ScrollAssumption DEF Captured, Failed
  <2> DEFINE d == [c EXCEPT !.step = "update", !.count = count]
  <2>3. /\ d \in Capture /\ d.gen = c.gen /\ d.kind = c.kind /\ d.at = c.at /\ d.size = c.size /\ d.count = count
    BY <1>t, <2>2 DEF Capture, Steps
  <2>4. NothingShown /\ c.step = "capture"
    BY <1>3 DEF CaptureScrollback
  <2> HIDE DEF d
  <2>5. Advanced(c, d)
    BY <2>1 DEF d
  <2>6. d.step = "update"
    BY <1>t DEF d, Capture
  <2>7. d.gen = generation /\ d.kind = "top" /\ d.size > 0 => d.at = d.size
    BY <2>3, <2>4 DEF AimInv
  <2>8. QED BY <1>1, <2>2, <2>3, <2>4, <2>5, <2>6, <2>7
<1>4. CASE Update(c)
  BY <1>4, UpdateSettles
<1>5. QED BY <1>2, <1>3, <1>4

\* The view settles on what was captured at the offset that is shown.
LEMMA ScrollSettles == ScrollSpec => []SettledView
<1>1. ScrollInit => AimInv /\ SettledView
  BY DEF ScrollInit, AimInv, SettledView
<1>2. ScrollInv /\ AimInv /\ SettledView /\ [ScrollNext]_scrollVars => AimInv' /\ SettledView'
  <2> SUFFICES ASSUME ScrollInv, AimInv, SettledView, [ScrollNext]_scrollVars PROVE AimInv' /\ SettledView'
    OBVIOUS
  <2>1. CASE HistoryChanges
    BY <2>1 DEF HistoryChanges, AimInv, SettledView
  <2>2. CASE UNCHANGED scrollVars
    BY <2>2 DEF scrollVars, AimInv, SettledView
  <2>3. QED BY <2>1, <2>2, InputAims, CaptureAims DEF ScrollNext
<1>3. QED BY <1>1, <1>2, ScrollInvariant, PTL DEF ScrollSpec

-----------------------------------------------------------------------------
(* Screen                                                                  *)

\* Every step of the screen is a step of each component or leaves it alone.
LEMMA StepImplements ==
  [ScreenNext]_screenVars => [Next]_vars /\ [ForwarderNext]_forwarderVars /\ [ScrollNext]_scrollVars
<1> SUFFICES ASSUME [ScreenNext]_screenVars
             PROVE  [Next]_vars /\ [ForwarderNext]_forwarderVars /\ [ScrollNext]_scrollVars
  OBVIOUS
<1>1. CASE EnterFullScreen \/ ExitFullScreen \/ MoveCursor \/ ToggleProject
             \/ SessionsChange \/ RefreshItems \/ DoLayout
  BY <1>1 DEF EnterFullScreen, ExitFullScreen, MoveCursor, ToggleProject, SessionsChange, RefreshItems, DoLayout
<1>2. CASE ShowToolPopup
  BY <1>2 DEF ShowToolPopup, Next
<1>3. CASE PopupKey \/ UnsuspendKey
  BY <1>3 DEF PopupKey, UnsuspendKey, Undisturbed, Next
<1>4. CASE PopupJumpToSession
  BY <1>4 DEF PopupJumpToSession, Next
<1>5. CASE ForwardKey
  <2>1. UNCHANGED <<vars, scrollVars>> /\ AtCursor \in Targets
    BY <1>5, ScreenAssumption DEF ForwardKey
  <2>2. \E literal \in BOOLEAN : Enqueue(AtCursor, literal)
    BY <1>5 DEF ForwardKey
  <2>3. ForwarderNext
    BY <2>1, <2>2 DEF ForwarderNext
  <2>4. QED BY <2>1, <2>3
<1>6. CASE RunKeyForwarder \/ Quit
  BY <1>6 DEF RunKeyForwarder, Quit, ForwarderNext
<1>7. CASE ScrollInput \/ RunCapture \/ PaneChanges
  BY <1>7 DEF ScrollInput, RunCapture, PaneChanges, ScrollNext
<1>8. CASE UNCHANGED screenVars
  BY <1>8 DEF screenVars
<1>9. QED BY <1>1, <1>2, <1>3, <1>4, <1>5, <1>6, <1>7, <1>8 DEF ScreenNext, MainLoop

\* The screen implements its three components: no interleaving of keys,
\* popups, layouts and goroutines makes one of them take a step of its own
\* that the component does not allow.
THEOREM ScreenImplementsParts == ScreenSpec => Spec /\ ForwarderSpec /\ ScrollSpec
<1>1. ScreenInit => Init /\ ForwarderInit /\ ScrollInit
  BY DEF ScreenInit
<1>2. QED BY <1>1, StepImplements, PTL DEF ScreenSpec, Spec, ForwarderSpec, ScrollSpec

\* For any targets, queue size and number of keys, the keys of full screen
\* reach tmux in order and for the target they were accepted for.
THEOREM KeysKeepTheirOrder == ScreenSpec => []KeysInOrder
  BY ScreenImplementsParts, ForwarderKeepsOrder, PTL

\* Whatever captures are still on their way, scroll mode holds no lines once
\* it is left and the offset never passes a known bound, for any history.
THEOREM ScrollStaysSound == ScreenSpec => []ScrollStateIsSound
  <1>1. NoLinesAfterExit /\ OffsetInHistory => ScrollStateIsSound
    BY DEF ScrollStateIsSound
  <1>2. QED BY <1>1, ScreenImplementsParts, ScrollProperties, PTL

\* For any height, history and number of captures, the lines that stay are
\* those of the offset on the screen, with the cursor on one of them.
THEOREM ViewSettles == ScreenSpec => []SettledView
  BY ScreenImplementsParts, ScrollSettles, PTL

\* The popups keep all their promises whatever else happens on the screen.
THEOREM ScreenKeepsPopups ==
  ScreenSpec => []FocusIsVisible /\ []AnsweredOnce /\ NoPopupLost /\ OnlyVisibleAnswered
  BY ScreenImplementsParts, FocusOnScreen, NoAnswerTwice, PopupsAreKept, AnswersTheScreen, PTL
=============================================================================
