------------------------- MODULE SessionManagerProofs -------------------------
(***************************************************************************)
(* SessionManager for any number of ids, clients, launches and restarts:   *)
(* types; whatever fails, one record per id and no window behind an orphan *)
(* but for the ids a failed Save of a resume doubled, and a resumed        *)
(* session that stays in state.json; as long as state.json can be written, *)
(* a state.json that follows the store; and if windows can be closed as    *)
(* well and nobody purges, a session for every window.                     *)
(***************************************************************************)
EXTENDS SessionManager, TLAPS

\* What the operators the actions are built from do to a record.
LEMMA RecordTypes ==
  /\ \A id \in Ids, b \in Births, st \in Statuses, ren \in BOOLEAN :
       [id |-> id, born |-> b, status |-> st, renamed |-> ren] \in Record
  /\ \A r \in Record : Store(r) \in Stored /\ Store(r).id = r.id /\ r.id \in Ids /\ r.renamed \in BOOLEAN
  /\ \A d \in Stored : Restore(d) \in Record /\ Restore(d).id = d.id /\ Restore(d).status = "Unknown"
  /\ \A r \in Record, st \in Statuses :
       /\ [r EXCEPT !.status = st] \in Record
       /\ [r EXCEPT !.status = st].id = r.id /\ [r EXCEPT !.status = st].status = st
  /\ \A r \in Record :
       /\ [r EXCEPT !.renamed = TRUE] \in Record
       /\ [r EXCEPT !.renamed = TRUE].id = r.id /\ [r EXCEPT !.renamed = TRUE].status = r.status
  BY DEF Record, Stored, Store, Restore, Statuses

LEMMA GotoType ==
  ASSUME NEW t \in Threads, NEW label \in Labels, pc \in [Threads -> Labels], Goto(t, label)
  PROVE  pc' \in [Threads -> Labels]
  BY DEF Goto

LEMMA ReturnType ==
  ASSUME NEW t \in Threads, pc \in [Threads -> Labels], Return(t)
  PROVE  pc' \in [Threads -> Labels]
  BY GotoType DEF Return, Labels

\* kill-window closes at most the window it names.
LEMMA KillWindowEffect ==
  ASSUME NEW id \in Ids, window \in [Ids -> Panes], KillWindow(id)
  PROVE  window' \in [Ids -> Panes] /\ \A i \in Ids : window[i] = "none" => window'[i] = "none"
  BY DEF KillWindow, Panes

LEMMA RemoveFirstEffect ==
  ASSUME NEW id, RemoveFirst(id)
  PROVE  records' \subseteq records
  BY DEF RemoveFirst

\* launchSession adds one running record and opens its window.
LEMMA LaunchType ==
  ASSUME TypeOK, NEW t \in Threads, NEW id \in Ids, NEW renamed \in BOOLEAN, Launch(t, id, renamed)
  PROVE  /\ launches' \in 0 .. MaxLaunches /\ window' \in [Ids -> Panes]
         /\ records' \in SUBSET Record /\ mu' \in Threads \cup {Free} /\ pc' \in [Threads -> Labels]
  <1>1. launches + 1 \in Births /\ launches' = launches + 1 /\ launches' \in 0 .. MaxLaunches
    BY ConstantsAssumption DEF TypeOK, Launch, Births
  <1>2. [id |-> id, born |-> launches + 1, status |-> "Running", renamed |-> renamed] \in Record
    BY <1>1, RecordTypes DEF Statuses
  <1>3. records' \in SUBSET Record
    BY <1>2 DEF TypeOK, Launch
  <1>4. window' \in [Ids -> Panes]
    BY DEF TypeOK, Launch, Panes
  <1>5. pc' \in [Threads -> Labels]
    BY GotoType DEF TypeOK, Launch, Labels
  <1>6. QED BY <1>1, <1>3, <1>4, <1>5 DEF Launch

\* Delete by a client or by the collector.
LEMMA DeleteType ==
  ASSUME TypeOK, NEW t \in Threads, NEW id \in Ids, DeleteOf(t, id)
  PROVE  /\ window' \in [Ids -> Panes] /\ records' \in SUBSET Record
         /\ mu' \in Threads \cup {Free} /\ arg' \in [Threads -> Ids] /\ pc' \in [Threads -> Labels]
  <1>1. pc' \in [Threads -> Labels]
    BY GotoType DEF TypeOK, DeleteOf, Labels
  <1>2. window' \in [Ids -> Panes]
    BY KillWindowEffect DEF TypeOK, DeleteOf
  <1>3. QED BY <1>1, <1>2 DEF TypeOK, DeleteOf

\* Types are preserved by every step.
LEMMA NextTypeOK == TypeOK /\ [Next]_vars => TypeOK'
  <1> SUFFICES ASSUME TypeOK, [Next]_vars PROVE TypeOK'
    OBVIOUS
  <1> USE ConstantsAssumption DEF TypeOK
  <1>a. /\ Clients \subseteq Threads /\ GC \in Threads
        /\ \A t \in Threads : t \in Threads \cup {Free}
        /\ Free \in Threads \cup {Free}
    BY DEF Threads
  <1>b. \A id, t : DeleteOf(t, id) => \E r \in records : r.id = id /\ r.id \in Ids
    BY RecordTypes DEF DeleteOf, Of
  <1>1. ASSUME NEW c \in Clients, ClientStep(c) PROVE TypeOK'
    <2>1. CASE Create(c)
      <3>1. PICK id \in Ids \ used : Launch(c, id, FALSE) /\ arg' = [arg EXCEPT ![c] = id] /\ used' = used \cup {id}
        BY <2>1 DEF Create
      <3>2. QED BY <2>1, <3>1, <1>a, LaunchType DEF Create
    <2>2. CASE ResumeCollected(c)
      <3>1. PICK id \in used : Launch(c, id, FALSE) /\ arg' = [arg EXCEPT ![c] = id]
        BY <2>2 DEF ResumeCollected
      <3>2. QED BY <2>2, <3>1, <1>a, LaunchType DEF ResumeCollected
    <2>3. CASE ResumeFind(c)
      <3>1. PICK old \in records :
              /\ saved' = {old} /\ arg' = [arg EXCEPT ![c] = old.id]
              /\ IF old.status = "Orphan" THEN UNCHANGED window ELSE KillWindow(old.id)
        BY <2>3 DEF ResumeFind
      <3>2. old \in Record /\ old.id \in Ids
        BY RecordTypes
      <3>3. window' \in [Ids -> Panes]
        BY <3>1, <3>2, KillWindowEffect
      <3>4. pc' \in [Threads -> Labels]
        BY <2>3, <1>a, GotoType DEF ResumeFind, Labels
      <3>5. arg' \in [Threads -> Ids] /\ saved' \in SUBSET Record
        BY <3>1, <3>2
      <3>6. QED BY <2>3, <1>a, <3>3, <3>4, <3>5 DEF ResumeFind
    <2>4. CASE ResumeRemove(c)
      <3>1. pc' \in [Threads -> Labels]
        BY <2>4, <1>a, GotoType DEF ResumeRemove, Labels
      <3>2. records' \in SUBSET Record
        BY <2>4, RemoveFirstEffect DEF ResumeRemove
      <3>3. QED BY <2>4, <3>1, <3>2 DEF ResumeRemove
    <2>5. CASE ResumeLaunch(c)
      <3>1. PICK old \in saved : Launch(c, arg[c], old.renamed)
        BY <2>5 DEF ResumeLaunch
      <3>2. old.renamed \in BOOLEAN /\ arg[c] \in Ids
        BY <1>a, RecordTypes
      <3>3. QED BY <2>5, <3>1, <3>2, <1>a, LaunchType DEF ResumeLaunch
    <2>6. CASE ResumeLaunchFails(c)
      <3>1. pc' \in [Threads -> Labels]
        BY <2>6, <1>a, GotoType DEF ResumeLaunchFails, RestoreOld, Labels
      <3>2. QED BY <2>6, <3>1 DEF ResumeLaunchFails, RestoreOld
    <2>7. CASE SaveRestored(c)
      <3>1. pc' \in [Threads -> Labels]
        BY <2>7, <1>a, ReturnType DEF SaveRestored
      <3>2. disk' \in SUBSET Stored
        BY <2>7, RecordTypes DEF SaveRestored, Persisted
      <3>3. QED BY <2>7, <1>a, <3>1, <3>2 DEF SaveRestored
    <2>8. CASE Delete(c)
      <3>1. PICK id \in Ids : DeleteOf(c, id)
        BY <2>8 DEF Delete
      <3>2. QED BY <2>8, <3>1, <1>a, DeleteType DEF Delete
    <2>9. CASE Rename(c)
      <3>1. pc' \in [Threads -> Labels]
        BY <2>9, <1>a, GotoType DEF Rename, Labels
      <3>2. records' \in SUBSET Record
        BY <2>9, RecordTypes DEF Rename
      <3>3. QED BY <2>9, <3>1, <3>2 DEF Rename
    <2>10. CASE Purge(c)
      <3>1. pc' \in [Threads -> Labels]
        BY <2>10, <1>a, GotoType DEF Purge, Labels
      <3>2. {r.id : r \in {s \in records : s.status = "Orphan"}} \in SUBSET Ids
        BY RecordTypes
      <3>3. todo' \in [Threads -> SUBSET Ids]
        BY <2>10, <1>a, <3>2 DEF Purge
      <3>4. QED BY <2>10, <3>1, <3>3 DEF Purge
    <2>11. CASE PurgeOne(c)
      <3>1. pc' \in [Threads -> Labels]
        BY <2>11, <1>a DEF PurgeOne, Goto, Labels
      <3>2. records' \in SUBSET Record
        BY <2>11, RemoveFirstEffect DEF PurgeOne
      <3>3. todo' \in [Threads -> SUBSET Ids]
        BY <2>11, <1>a DEF PurgeOne
      <3>4. QED BY <2>11, <3>1, <3>2, <3>3 DEF PurgeOne
    <2>12. CASE Flush(c)
      <3>1. pc' \in [Threads -> Labels]
        BY <2>12, <1>a, GotoType DEF Flush, Labels
      <3>2. disk' \in SUBSET Stored
        BY <2>12, RecordTypes DEF Flush, Persisted
      <3>3. QED BY <2>12, <3>1, <3>2 DEF Flush
    <2>13. QED
      BY <1>1, <2>1, <2>2, <2>3, <2>4, <2>5, <2>6, <2>7, <2>8, <2>9, <2>10, <2>11, <2>12 DEF ClientStep
  <1>2. ASSUME NEW t \in Threads, Save(t) PROVE TypeOK'
    <2>1. pc' \in [Threads -> Labels]
      BY <1>2, ReturnType DEF Save
    <2>2. disk' \in SUBSET Stored
      BY <1>2, RecordTypes DEF Save, Persisted
    <2>3. QED BY <1>2, <2>1, <2>2 DEF Save
  <1>3. ASSUME NEW t \in Threads, SaveFails(t) PROVE TypeOK'
    <2>1. pc' \in [Threads -> Labels]
      BY <1>3, ReturnType, GotoType DEF SaveFails, RestoreOld, Labels
    <2>2. QED BY <1>3, <2>1 DEF SaveFails, RestoreOld
  <1>4. CASE Collector
    <2>1. CASE Collect
      <3>1. PICK id \in todo[GC] :
              /\ todo' = [todo EXCEPT ![GC] = @ \ {id}]
              /\ \/ DeleteOf(GC, id)
                 \/ mu = Free /\ Of(id) = {} /\ UNCHANGED <<records, window, mu, pc, arg>>
        BY <2>1 DEF Collect
      <3>2. id \in Ids /\ todo' \in [Threads -> SUBSET Ids]
        BY <3>1, <1>a
      <3>3. QED BY <2>1, <3>1, <3>2, <1>a, DeleteType DEF Collect
    <2>2. CASE SyncApply
      <3>1. \A id \in Ids : Observed(id) \in Statuses
        BY DEF Observed, Statuses, Panes
      <3>2. records' \in SUBSET Record
        BY <2>2, <3>1, RecordTypes DEF SyncApply
      <3>3. pc' \in [Threads -> Labels]
        BY <2>2, <1>a, GotoType DEF SyncApply, Labels
      <3>4. QED BY <2>2, <3>2, <3>3 DEF SyncApply
    <2>3. CASE Snapshot
      <3>1. {r.id : r \in {s \in records : s.status = "Dead" /\ s.born \in aged}} \in SUBSET Ids
        BY RecordTypes
      <3>2. todo' \in [Threads -> SUBSET Ids]
        BY <2>3, <1>a, <3>1 DEF Snapshot
      <3>3. pc' \in [Threads -> Labels]
        BY <2>3, <1>a, GotoType DEF Snapshot, Labels
      <3>4. QED BY <2>3, <3>2, <3>3 DEF Snapshot
    <2>4. CASE SyncList \/ SyncNoSession \/ SyncFails \/ CollectEnd
      <3>1. pc' \in [Threads -> Labels]
        BY <2>4, <1>a, GotoType DEF SyncList, SyncNoSession, SyncFails, CollectEnd, Labels
      <3>2. QED BY <2>4, <1>a, <3>1 DEF SyncList, SyncNoSession, SyncFails, CollectEnd
    <2>5. QED BY <1>4, <2>1, <2>2, <2>3, <2>4 DEF Collector
  <1>5. CASE Environment
    <2>1. CASE PaneExits
      BY <2>1 DEF PaneExits, Panes
    <2>2. CASE WindowClosed
      BY <2>2 DEF WindowClosed, Panes
    <2>3. CASE GraceElapses
      <3>1. 1 .. launches \subseteq Births
        BY DEF Births
      <3>2. QED BY <2>3, <3>1 DEF GraceElapses
    <2>4. CASE Restart
      <3>1. records' \in SUBSET Record
        BY <2>4, RecordTypes DEF Restart
      <3>2. pc' \in [Threads -> Labels] /\ todo' \in [Threads -> SUBSET Ids]
        BY <2>4 DEF Restart, Labels
      <3>3. crashes' \in 0 .. MaxCrashes
        BY <2>4 DEF Restart
      <3>4. QED BY <2>4, <3>1, <3>2, <3>3 DEF Restart
    <2>5. QED BY <1>5, <2>1, <2>2, <2>3, <2>4 DEF Environment
  <1>6. CASE UNCHANGED vars
    BY <1>6 DEF vars
  <1>7. QED BY <1>1, <1>2, <1>3, <1>4, <1>5, <1>6 DEF Next

LEMMA InitTypeOK == Init => TypeOK
  <1> SUFFICES ASSUME Init PROVE TypeOK
    OBVIOUS
  <1>1. (CHOOSE id \in Ids : TRUE) \in Ids
    BY ConstantsAssumption
  <1>2. QED BY <1>1, ConstantsAssumption DEF Init, TypeOK, Panes, Labels

\* Every variable keeps its type, for all ids, clients and bounds.
THEOREM TypeCorrect == Spec => []TypeOK
  BY InitTypeOK, NextTypeOK, PTL DEF Spec

-----------------------------------------------------------------------------
(* One record per id, and no window behind an orphan.                      *)

\* Whoever is inside a section of Manager.mu holds it.
HoldInv ==
  \A t \in Threads : pc[t] \in {"remove", "launch", "save", "restored", "sync"} => mu = t

\* The sections of ResumeSession that have the record it saved in hand.
Resuming == {"remove", "launch", "save", "restored"}

\* ResumeSession works on the one record it saved, which it has removed
\* before it launches, and whose window is closed if it was an orphan; an id
\* doubled before is the exception.
ResumeInv ==
  /\ saved # {} => mu \in Threads /\ pc[mu] \in Resuming
  /\ \A t \in Threads :
       /\ pc[t] \in Resuming => \A s \in saved : s.id = arg[t]
       /\ pc[t] = "launch" => Of(arg[t]) = {} \/ arg[t] \in unsaved
       /\ pc[t] \in {"remove", "launch"} =>
            \A s \in saved : s.status = "Orphan" => window[s.id] = "none" \/ s.id \in unsaved

\* At most one record is saved, ids are unique on disk too, every id of the
\* store or of state.json was handed out before, and only a Save that fails
\* makes an exception.
UniqueInv ==
  /\ \A r, s \in saved : r = s
  /\ \A d, e \in disk : d.id = e.id => d = e \/ d.id \in unsaved
  /\ \A r \in records \cup saved \cup disk : r.id \in used
  /\ ~SaveMayFail => unsaved = {}

\* Sync works on a listing that misses no window.
SyncInv == pc[GC] = "sync" => \A id \in Ids : id \notin listed => window[id] = "none"

IInv == TypeOK /\ HoldInv /\ ResumeInv /\ UniqueInv /\ SyncInv /\ OneRecordPerId /\ OrphanHasNoWindow

LEMMA InitIInv == Init => IInv
  <1> SUFFICES ASSUME Init PROVE IInv
    OBVIOUS
  <1>1. TypeOK
    BY InitTypeOK
  <1>2. \A t \in Threads : pc[t] = "idle"
    BY DEF Init
  <1>3. GC \in Threads
    BY DEF Threads
  <1>4. QED
    BY <1>1, <1>2, <1>3
       DEF Init, IInv, HoldInv, ResumeInv, UniqueInv, SyncInv, OneRecordPerId, OrphanHasNoWindow

\* What Save writes keeps ids unique.
LEMMA PersistedUnique ==
  ASSUME TypeOK, OneRecordPerId, \A r \in records : r.id \in used
  PROVE  /\ \A d, e \in Persisted : d.id = e.id => d = e \/ d.id \in unsaved
         /\ \A d \in Persisted : d.id \in used
  <1>1. \A r \in records : Store(r).id = r.id
    BY RecordTypes DEF TypeOK
  <1>2. QED BY <1>1 DEF Persisted, OneRecordPerId

\* A launch under an id without a record keeps the parts of the invariant
\* that records and windows take part in.
LEMMA LaunchKeeps ==
  ASSUME IInv, NEW t \in Threads, NEW id \in Ids, NEW renamed \in BOOLEAN,
         Launch(t, id, renamed), Of(id) = {} \/ id \in unsaved, id \in used', used \subseteq used',
         mu \in {t, Free}, t # GC, \A s \in saved : s.id = arg'[t],
         UNCHANGED <<saved, disk, listed, unsaved>>, \A s \in Threads : s # t => arg'[s] = arg[s]
  PROVE  HoldInv' /\ ResumeInv' /\ UniqueInv' /\ SyncInv' /\ OneRecordPerId' /\ OrphanHasNoWindow'
  <1> DEFINE new == [id |-> id, born |-> launches + 1, status |-> "Running", renamed |-> renamed]
  <1>1. /\ records' = records \cup {new} /\ window' = [window EXCEPT ![id] = "alive"]
        /\ mu' = t /\ pc' = [pc EXCEPT ![t] = "save"]
    BY DEF Launch, Goto
  <1>2. new.id = id /\ new.status = "Running"
    OBVIOUS
  <1>3. \A r \in records : (r.id # id \/ id \in unsaved) /\ r.id \in Ids
    BY RecordTypes DEF Of, IInv, TypeOK
  <1>4. \A s \in Threads : s # t =>
          pc'[s] = pc[s] /\ pc[s] \notin {"remove", "launch", "save", "restored", "sync"}
    BY <1>1, ConstantsAssumption DEF IInv, HoldInv, TypeOK
  <1>5. pc'[t] = "save" /\ GC \in Threads
    BY <1>1 DEF IInv, TypeOK, Threads
  <1> HIDE DEF new
  <1>6. HoldInv'
    BY <1>1, <1>4, <1>5 DEF HoldInv
  <1>7. ResumeInv'
    BY <1>1, <1>4, <1>5 DEF ResumeInv, Resuming
  <1>8. UniqueInv'
    BY <1>1, <1>2 DEF IInv, UniqueInv
  <1>9. SyncInv'
    BY <1>4, <1>5 DEF SyncInv
  <1>10. OneRecordPerId'
    BY <1>1, <1>2, <1>3 DEF IInv, OneRecordPerId
  <1>11. OrphanHasNoWindow'
    <2>1. \A r \in records : window'[r.id] = window[r.id] \/ r.id \in unsaved
      BY <1>1, <1>3 DEF IInv, TypeOK
    <2>2. QED BY <1>1, <1>2, <2>1 DEF IInv, OrphanHasNoWindow
  <1>12. QED BY <1>6, <1>7, <1>8, <1>9, <1>10, <1>11

\* A step that adds no id and makes no orphan, and only closes windows, keeps
\* the windows of orphans and of saved orphans closed.
LEMMA ShrinkKeeps ==
  ASSUME IInv, unsaved' = unsaved,
         \A r \in records' : \E s \in records : r.id = s.id /\ r.status = s.status,
         \A i \in Ids : window[i] = "none" => window'[i] = "none"
  PROVE  /\ OrphanHasNoWindow'
         /\ \A t \in Threads : pc[t] = "launch" => (\A r \in records' : r.id # arg[t]) \/ arg[t] \in unsaved
         /\ \A t \in Threads, s \in saved :
              pc[t] \in {"remove", "launch"} /\ s.status = "Orphan" => window'[s.id] = "none" \/ s.id \in unsaved
         /\ \A r \in records' : r.id \in used
  <1>1. \A r \in records \cup saved : r.id \in Ids
    BY RecordTypes DEF IInv, TypeOK
  <1>2. OrphanHasNoWindow'
    BY <1>1 DEF IInv, OrphanHasNoWindow
  <1>3. \A t \in Threads : pc[t] = "launch" => (\A r \in records : r.id # arg[t]) \/ arg[t] \in unsaved
    BY DEF Of, IInv, ResumeInv
  <1>4. QED BY <1>1, <1>2, <1>3 DEF IInv, ResumeInv, UniqueInv

\* A step that leaves the sections of Manager.mu alone, adds no id and makes
\* no orphan, and only closes windows keeps the invariant.
LEMMA QuietKeeps ==
  ASSUME IInv, OneRecordPerId',
         \A r \in records' : \E s \in records : r.id = s.id /\ r.status = s.status,
         \A i \in Ids : window[i] = "none" => window'[i] = "none",
         \A t \in Threads : pc'[t] = pc[t] \/ {pc[t], pc'[t]} \cap {"remove", "launch", "save", "restored", "sync"} = {},
         disk' = disk \/ disk' = Persisted,
         UNCHANGED <<mu, arg, saved, listed, used, unsaved>>
  PROVE  HoldInv' /\ ResumeInv' /\ UniqueInv' /\ SyncInv' /\ OneRecordPerId' /\ OrphanHasNoWindow'
  <1> USE DEF IInv
  <1>1. \A t \in Threads : pc'[t] \in {"remove", "launch", "save", "restored", "sync"} => pc'[t] = pc[t]
    OBVIOUS
  <1>2. HoldInv'
    BY <1>1 DEF HoldInv
  <1>3. ResumeInv'
    <2>1. \A t \in Threads : pc'[t] = "launch" => Of(arg[t])' = {} \/ arg[t] \in unsaved
      BY <1>1, ShrinkKeeps DEF Of
    <2>2. saved # {} => mu \in Threads /\ pc'[mu] \in Resuming
      BY DEF ResumeInv, Resuming
    <2>3. \A t \in Threads : pc'[t] \in Resuming => pc'[t] = pc[t]
      BY <1>1 DEF Resuming
    <2>4. \A t \in Threads : pc'[t] \in {"remove", "launch"} => pc'[t] = pc[t]
      BY <1>1
    <2>5. QED BY <2>1, <2>2, <2>3, <2>4, ShrinkKeeps DEF ResumeInv
  <1>4. UniqueInv'
    <2>1. \A d, e \in disk' : d.id = e.id => d = e \/ d.id \in unsaved
      BY PersistedUnique DEF UniqueInv
    <2>2. \A d \in disk' : d.id \in used
      BY PersistedUnique DEF UniqueInv
    <2>3. QED BY <2>1, <2>2, ShrinkKeeps DEF UniqueInv
  <1>5. SyncInv'
    BY <1>1 DEF SyncInv, Threads
  <1>6. QED BY <1>2, <1>3, <1>4, <1>5, ShrinkKeeps

\* Delete, whoever calls it.
LEMMA DeleteKeeps ==
  ASSUME IInv, NEW t \in Threads, NEW id \in Ids, DeleteOf(t, id), UNCHANGED <<disk, saved, listed, used, unsaved>>
  PROVE  HoldInv' /\ ResumeInv' /\ UniqueInv' /\ SyncInv' /\ OneRecordPerId' /\ OrphanHasNoWindow'
  <1> USE DEF IInv
  <1>1. /\ mu = Free /\ mu' = t /\ pc' = [pc EXCEPT ![t] = "save"] /\ records' \subseteq records
    BY DEF DeleteOf, Goto
  <1>2. \A i \in Ids : window[i] = "none" => window'[i] = "none"
    BY KillWindowEffect DEF DeleteOf, TypeOK
  <1>3. \A s \in Threads :
          /\ s # t => pc'[s] = pc[s] /\ pc'[s] \notin {"remove", "launch", "save", "restored", "sync"}
          /\ s = t => pc'[s] = "save"
    BY <1>1, ConstantsAssumption DEF TypeOK, HoldInv
  <1>4. HoldInv' /\ ResumeInv'
    <2>1. saved' = {}
      BY <1>1, ConstantsAssumption DEF ResumeInv
    <2>2. QED BY <1>1, <1>3, <2>1 DEF HoldInv, ResumeInv
  <1>5. SyncInv'
    BY <1>3 DEF SyncInv, Threads
  <1>6. UniqueInv' /\ OneRecordPerId'
    BY <1>1 DEF UniqueInv, OneRecordPerId
  <1>7. QED BY <1>1, <1>2, <1>4, <1>5, <1>6, ShrinkKeeps

\* Every step of a client keeps the invariant.
LEMMA ClientKeepsIInv ==
  ASSUME IInv, TypeOK', NEW c \in Clients, ClientStep(c)
  PROVE  IInv'
  <1> USE DEF IInv
  <1>a. c \in Threads /\ c # GC /\ GC \in Threads
    BY ConstantsAssumption DEF Threads
  <1>b. \A r \in records \cup saved : r.id \in Ids
    BY RecordTypes DEF TypeOK
  <1>c. mu = Free => \A t \in Threads : pc[t] \notin {"remove", "launch", "save", "restored", "sync"}
    BY ConstantsAssumption DEF HoldInv
  <1>d. mu = c => \A t \in Threads : t # c => pc[t] \notin {"remove", "launch", "save", "restored", "sync"}
    BY DEF HoldInv
  <1>e. mu = Free => saved = {}
    BY ConstantsAssumption DEF ResumeInv
  <1>1. CASE Create(c)
    <2>1. PICK id \in Ids \ used : Launch(c, id, FALSE) /\ arg' = [arg EXCEPT ![c] = id] /\ used' = used \cup {id}
      BY <1>1 DEF Create
    <2>2. Of(id) = {}
      BY <2>1 DEF Of, UniqueInv
    <2>3. \A s \in Threads : s # c => arg'[s] = arg[s]
      BY <2>1 DEF TypeOK
    <2>4. mu = Free /\ saved = {}
      BY <1>1, <1>e DEF Create
    <2>5. QED BY <1>1, <1>a, <2>1, <2>2, <2>3, <2>4, LaunchKeeps DEF Create
  <1>2. CASE ResumeCollected(c)
    <2>1. PICK id \in used : Of(id) = {} /\ Launch(c, id, FALSE) /\ arg' = [arg EXCEPT ![c] = id]
      BY <1>2 DEF ResumeCollected
    <2>2. \A s \in Threads : s # c => arg'[s] = arg[s]
      BY <2>1 DEF TypeOK
    <2>3. mu = Free /\ saved = {}
      BY <1>2, <1>e DEF ResumeCollected
    <2>4. QED BY <1>2, <1>a, <2>1, <2>2, <2>3, LaunchKeeps DEF ResumeCollected, TypeOK
  <1>3. CASE ResumeFind(c)
    <2>1. PICK old \in records :
            /\ saved' = {old} /\ arg' = [arg EXCEPT ![c] = old.id]
            /\ IF old.status = "Orphan" THEN UNCHANGED window ELSE KillWindow(old.id)
      BY <1>3 DEF ResumeFind
    <2>2. /\ mu = Free /\ mu' = c /\ pc' = [pc EXCEPT ![c] = "remove"]
          /\ UNCHANGED <<records, disk, listed, used, unsaved>>
      BY <1>3 DEF ResumeFind, Goto
    <2>3. \A i \in Ids : window[i] = "none" => window'[i] = "none"
      BY <2>1, <1>b, KillWindowEffect DEF TypeOK
    <2>4. \A t \in Threads : t # c => pc'[t] \notin {"remove", "launch", "save", "restored", "sync"}
      BY <2>2, <1>c DEF TypeOK
    <2>5. pc'[c] = "remove" /\ arg'[c] = old.id
      BY <2>1, <2>2, <1>a DEF TypeOK
    <2>6. HoldInv'
      BY <2>2, <2>4 DEF HoldInv
    <2>7. ResumeInv'
      <3>1. old.status = "Orphan" => window'[old.id] = "none" \/ old.id \in unsaved
        BY <2>1, <2>3, <1>b DEF OrphanHasNoWindow
      <3>2. \A t \in Threads : pc'[t] \in Resuming => t = c
        BY <2>4 DEF Resuming
      <3>3. mu' \in Threads /\ pc'[mu'] \in Resuming
        BY <2>2, <2>5, <1>a DEF Resuming
      <3>4. QED BY <2>1, <2>2, <2>4, <2>5, <3>1, <3>2, <3>3 DEF ResumeInv
    <2>8. UniqueInv'
      BY <2>1, <2>2 DEF UniqueInv
    <2>9. SyncInv'
      BY <2>4, <1>a DEF SyncInv
    <2>10. OneRecordPerId' /\ OrphanHasNoWindow'
      BY <2>2, <2>3, <1>b DEF OneRecordPerId, OrphanHasNoWindow
    <2>11. QED BY <2>6, <2>7, <2>8, <2>9, <2>10
  <1>4. CASE ResumeRemove(c)
    <2>1. /\ pc[c] = "remove" /\ mu = c /\ RemoveFirst(arg[c]) /\ pc' = [pc EXCEPT ![c] = "launch"]
          /\ UNCHANGED <<disk, window, mu, arg, saved, listed, used, unsaved>>
      BY <1>4, <1>a DEF ResumeRemove, Goto, HoldInv
    <2>2. records' \subseteq records
      BY <2>1, RemoveFirstEffect
    <2>3. Of(arg[c])' = {} \/ arg[c] \in unsaved
      BY <2>1 DEF RemoveFirst, Of, OneRecordPerId
    <2>4. \A t \in Threads : t # c => pc'[t] \notin {"remove", "launch", "save", "restored", "sync"}
      BY <2>1, <1>d DEF TypeOK
    <2>5. pc'[c] = "launch"
      BY <2>1, <1>a DEF TypeOK
    <2>6. HoldInv' /\ SyncInv'
      BY <2>1, <2>4, <1>a DEF HoldInv, SyncInv
    <2>7. ResumeInv'
      <3>1. \A t \in Threads : pc'[t] \in Resuming => t = c
        BY <2>4 DEF Resuming
      <3>2. mu' \in Threads /\ pc'[mu'] \in Resuming /\ pc[c] \in Resuming
        BY <2>1, <2>5, <1>a DEF Resuming
      <3>3. QED BY <2>1, <2>3, <2>4, <2>5, <3>1, <3>2, <1>a DEF ResumeInv
    <2>8. UniqueInv' /\ OneRecordPerId' /\ OrphanHasNoWindow'
      BY <2>1, <2>2 DEF UniqueInv, OneRecordPerId, OrphanHasNoWindow
    <2>9. QED BY <2>6, <2>7, <2>8
  <1>5. CASE ResumeLaunch(c)
    <2>1. PICK old \in saved : Launch(c, arg[c], old.renamed)
      BY <1>5 DEF ResumeLaunch
    <2>2. pc[c] = "launch" /\ mu = c
      BY <1>5, <1>a DEF ResumeLaunch, HoldInv
    <2>3. \A s \in saved : s.id = arg[c]
      BY <2>2, <1>a DEF ResumeInv, Resuming
    <2>4. old.renamed \in BOOLEAN /\ old.id \in used /\ arg[c] = old.id /\ (Of(arg[c]) = {} \/ arg[c] \in unsaved)
      BY <2>1, <2>2, <2>3, <1>a, RecordTypes DEF ResumeInv, UniqueInv, TypeOK
    <2>5. QED BY <1>5, <1>a, <1>b, <2>1, <2>2, <2>3, <2>4, LaunchKeeps DEF ResumeLaunch
  <1>6. CASE ResumeLaunchFails(c)
    <2>1. /\ pc[c] = "launch" /\ mu = c /\ records' = records \cup saved /\ pc' = [pc EXCEPT ![c] = "restored"]
          /\ UNCHANGED <<disk, window, mu, arg, saved, listed, used, unsaved>>
      BY <1>6, <1>a DEF ResumeLaunchFails, RestoreOld, Goto, HoldInv
    <2>2. \A s \in saved : s.id = arg[c] /\ (s.status = "Orphan" => window[s.id] = "none" \/ s.id \in unsaved)
      BY <2>1, <1>a DEF ResumeInv, Resuming
    <2>3. (\A r \in records : r.id # arg[c]) \/ arg[c] \in unsaved
      BY <2>1, <1>a DEF ResumeInv, Of
    <2>4. \A t \in Threads : t # c => pc'[t] \notin {"remove", "launch", "save", "restored", "sync"}
      BY <2>1, <1>d DEF TypeOK
    <2>5. pc'[c] = "restored"
      BY <2>1, <1>a DEF TypeOK
    <2>6. HoldInv' /\ SyncInv'
      BY <2>1, <2>4, <2>5, <1>a DEF HoldInv, SyncInv
    <2>r. ResumeInv'
      <3>1. \A t \in Threads : pc'[t] \in Resuming => t = c
        BY <2>4 DEF Resuming
      <3>2. mu' \in Threads /\ pc'[mu'] \in Resuming
        BY <2>1, <2>5, <1>a DEF Resuming
      <3>3. QED BY <2>1, <2>2, <2>4, <2>5, <3>1, <3>2 DEF ResumeInv
    <2>7. UniqueInv'
      BY <2>1 DEF UniqueInv
    <2>8. OneRecordPerId' /\ OrphanHasNoWindow'
      BY <2>1, <2>2, <2>3 DEF UniqueInv, OneRecordPerId, OrphanHasNoWindow
    <2>9. QED BY <2>6, <2>r, <2>7, <2>8
  <1>7. CASE SaveRestored(c)
    <2>1. /\ pc[c] = "restored" /\ mu = c /\ mu' = Free /\ saved' = {} /\ (disk' = Persisted \/ disk' = disk)
          /\ pc' = [pc EXCEPT ![c] = "idle"]
          /\ UNCHANGED <<records, window, arg, listed, used, unsaved>>
      BY <1>7, <1>a DEF SaveRestored, Return, Goto, HoldInv
    <2>2. \A t \in Threads : pc'[t] \notin {"remove", "launch", "save", "restored", "sync"}
      BY <2>1, <1>d DEF TypeOK
    <2>3. UniqueInv'
      BY <2>1, PersistedUnique DEF UniqueInv
    <2>4. HoldInv' /\ SyncInv' /\ ResumeInv'
      BY <2>1, <2>2, <1>a DEF HoldInv, SyncInv, ResumeInv, Resuming
    <2>5. QED BY <2>1, <2>3, <2>4 DEF OneRecordPerId, OrphanHasNoWindow
  <1>8. CASE Delete(c)
    <2>1. PICK id \in Ids : DeleteOf(c, id)
      BY <1>8 DEF Delete
    <2>2. QED BY <1>8, <1>a, <2>1, DeleteKeeps DEF Delete
  <1>9. CASE Rename(c)
    <2>1. PICK r \in records : records' = (records \ {r}) \cup {[r EXCEPT !.renamed = TRUE]}
      BY <1>9 DEF Rename
    <2> DEFINE new == [r EXCEPT !.renamed = TRUE]
    <2>2. new.id = r.id /\ new.status = r.status
      BY RecordTypes DEF TypeOK
    <2>3. /\ pc[c] = "idle" /\ pc' = [pc EXCEPT ![c] = "flush"]
          /\ UNCHANGED <<disk, window, mu, arg, saved, listed, used, unsaved>>
      BY <1>9 DEF Rename, Goto, Idle
    <2>4. records' = (records \ {r}) \cup {new}
      BY <2>1
    <2> HIDE DEF new
    <2>5. OneRecordPerId' /\ \A q \in records' : \E s \in records : q.id = s.id /\ q.status = s.status
      BY <2>2, <2>3, <2>4 DEF OneRecordPerId
    <2>6. \A t \in Threads : pc'[t] = pc[t] \/ {pc[t], pc'[t]} \cap {"remove", "launch", "save", "restored", "sync"} = {}
      BY <2>3 DEF TypeOK
    <2>7. QED BY <2>3, <2>5, <2>6, QuietKeeps
  <1>10. CASE Purge(c) \/ PurgeOne(c) \/ Flush(c)
    <2>1. records' \subseteq records /\ (disk' = disk \/ disk' = Persisted) /\ UNCHANGED <<window, mu, arg, saved, listed, used, unsaved>>
      BY <1>10, RemoveFirstEffect DEF Purge, PurgeOne, Flush
    <2>2. \A t \in Threads : pc'[t] = pc[t] \/ {pc[t], pc'[t]} \cap {"remove", "launch", "save", "restored", "sync"} = {}
      BY <1>10, <1>a DEF Purge, PurgeOne, Flush, Goto, Idle, TypeOK
    <2>3. OneRecordPerId'
      BY <2>1 DEF OneRecordPerId
    <2>4. QED BY <2>1, <2>2, <2>3, QuietKeeps
  <1>11. QED
    BY <1>1, <1>2, <1>3, <1>4, <1>5, <1>6, <1>7, <1>8, <1>9, <1>10 DEF ClientStep

\* So does every other step.
LEMMA NextIInv == IInv /\ [Next]_vars => IInv'
  <1> SUFFICES ASSUME IInv, [Next]_vars PROVE IInv'
    OBVIOUS
  <1>t. TypeOK'
    BY NextTypeOK DEF IInv
  <1> USE DEF IInv
  <1>a. GC \in Threads /\ GC \notin Clients
    BY ConstantsAssumption DEF Threads
  <1>b. \A t \in Threads : mu = t => \A s \in Threads : s # t => pc[s] \notin {"remove", "launch", "save", "restored", "sync"}
    BY DEF HoldInv
  <1>1. ASSUME NEW c \in Clients, ClientStep(c) PROVE IInv'
    BY <1>1, <1>t, ClientKeepsIInv
  <1>s. pc[GC] = "sync" => saved = {}
    BY <1>a, <1>b DEF ResumeInv, HoldInv, Resuming
  <1>2. ASSUME NEW t \in Threads, Save(t) \/ (SaveFails(t) /\ saved = {}) PROVE IInv'
    <2>1. /\ pc[t] = "save" /\ mu = t /\ saved' = {} /\ (disk' = Persisted \/ disk' = disk)
          /\ pc' = [pc EXCEPT ![t] = IF t = GC THEN "collect" ELSE "idle"]
          /\ UNCHANGED <<records, window, arg, listed, used, unsaved>>
      BY <1>2 DEF Save, SaveFails, Return, Goto, HoldInv
    <2>2. \A s \in Threads : pc'[s] \notin {"remove", "launch", "save", "restored", "sync"}
      BY <2>1, <1>b DEF TypeOK
    <2>3. UniqueInv'
      BY <2>1, PersistedUnique DEF UniqueInv
    <2>4. HoldInv' /\ SyncInv' /\ ResumeInv'
      BY <2>1, <2>2, <1>a DEF HoldInv, SyncInv, ResumeInv, Resuming
    <2>5. QED BY <1>t, <2>1, <2>3, <2>4 DEF OneRecordPerId, OrphanHasNoWindow
  <1>f. ASSUME NEW t \in Threads, SaveFails(t), saved # {} PROVE IInv'
    <2>1. /\ pc[t] = "save" /\ mu = t /\ SaveMayFail /\ records' = records \cup saved
          /\ pc' = [pc EXCEPT ![t] = "restored"] /\ unsaved' = unsaved \cup {arg[t]}
          /\ UNCHANGED <<disk, window, mu, arg, saved, listed, used>>
      BY <1>f DEF SaveFails, RestoreOld, Goto, HoldInv
    <2>2. \A s \in saved : s.id = arg[t]
      BY <2>1 DEF ResumeInv, Resuming
    <2>3. \A s \in Threads : s # t => pc'[s] \notin {"remove", "launch", "save", "restored", "sync"}
      BY <2>1, <1>b DEF TypeOK
    <2>4. pc'[t] = "restored"
      BY <2>1 DEF TypeOK
    <2>5. HoldInv' /\ SyncInv'
      BY <2>1, <2>3, <2>4, <1>a DEF HoldInv, SyncInv
    <2>6. ResumeInv'
      <3>1. \A s \in Threads : pc'[s] \in Resuming => s = t
        BY <2>3 DEF Resuming
      <3>2. mu' \in Threads /\ pc'[mu'] \in Resuming
        BY <2>1, <2>4 DEF Resuming
      <3>3. QED BY <2>1, <2>2, <2>3, <2>4, <3>1, <3>2 DEF ResumeInv
    <2>7. UniqueInv'
      BY <2>1 DEF UniqueInv
    <2>8. OneRecordPerId' /\ OrphanHasNoWindow'
      BY <2>1, <2>2 DEF OneRecordPerId, OrphanHasNoWindow
    <2>9. QED BY <1>t, <2>5, <2>6, <2>7, <2>8
  <1>3. CASE Collector
    <2>1. CASE SyncList
      <3>1. /\ mu = Free /\ mu' = GC /\ pc' = [pc EXCEPT ![GC] = "sync"]
            /\ listed' = {id \in Ids : window[id] # "none"}
            /\ UNCHANGED <<records, disk, window, arg, saved, used, unsaved>>
        BY <2>1 DEF SyncList, Goto
      <3>2. \A s \in Threads : s # GC => pc'[s] \notin {"remove", "launch", "save", "restored", "sync"}
        BY <3>1, ConstantsAssumption DEF TypeOK, HoldInv
      <3>3. pc'[GC] = "sync"
        BY <3>1, <1>a DEF TypeOK
      <3>4. HoldInv' /\ SyncInv' /\ ResumeInv'
        <4>1. saved' = {}
          BY <3>1, ConstantsAssumption DEF ResumeInv
        <4>2. QED BY <3>1, <3>2, <3>3, <4>1 DEF HoldInv, SyncInv, ResumeInv
      <3>5. QED BY <1>t, <3>1, <3>4 DEF UniqueInv, OneRecordPerId, OrphanHasNoWindow
    <2>2. CASE SyncApply
      <3>1. /\ pc[GC] = "sync" /\ mu' = Free /\ pc' = [pc EXCEPT ![GC] = "snapshot"]
            /\ records' = {[r EXCEPT !.status = Observed(r.id)] : r \in records}
            /\ UNCHANGED <<disk, window, arg, saved, used, unsaved>>
        BY <2>2 DEF SyncApply, Goto
      <3>2. \A s \in Threads : pc'[s] \notin {"remove", "launch", "save", "restored", "sync"}
        BY <3>1, <1>a, <1>b DEF TypeOK, HoldInv
      <3>3. \A q \in records' : \E r \in records :
              q = [r EXCEPT !.status = Observed(r.id)] /\ q.id = r.id /\ q.status = Observed(r.id) /\ r.id \in Ids
        <4>1. \A id \in Ids : Observed(id) \in Statuses
          BY DEF Observed, Statuses, Panes, TypeOK
        <4>2. ASSUME NEW r \in records
              PROVE  /\ r.id \in Ids /\ [r EXCEPT !.status = Observed(r.id)].id = r.id
                     /\ [r EXCEPT !.status = Observed(r.id)].status = Observed(r.id)
          <5>1. r \in Record /\ r.id \in Ids /\ Observed(r.id) \in Statuses
            BY <4>1, RecordTypes DEF TypeOK
          <5>2. QED BY <5>1, RecordTypes
        <4>3. QED BY <3>1, <4>2, Zenon
      <3>4. OneRecordPerId'
        BY <3>1, <3>3 DEF OneRecordPerId
      <3>5. \A id \in Ids : Observed(id) = "Orphan" => window[id] = "none"
        BY <3>1 DEF Observed, SyncInv, TypeOK, Panes
      <3>6. OrphanHasNoWindow'
        BY <3>1, <3>3, <3>5 DEF OrphanHasNoWindow
      <3>7. UniqueInv'
        BY <3>1, <3>3 DEF UniqueInv
      <3>8. HoldInv' /\ SyncInv' /\ ResumeInv'
        BY <3>1, <3>2, <1>a, <1>s DEF HoldInv, SyncInv, ResumeInv, Resuming
      <3>9. QED BY <1>t, <3>4, <3>6, <3>7, <3>8
    <2>3. CASE SyncFails
      <3>1. /\ pc[GC] = "sync" /\ mu' = Free /\ pc' = [pc EXCEPT ![GC] = "idle"]
            /\ UNCHANGED <<records, disk, window, arg, saved, used, unsaved>>
        BY <2>3 DEF SyncFails, Goto
      <3>2. \A s \in Threads : pc'[s] \notin {"remove", "launch", "save", "restored", "sync"}
        BY <3>1, <1>a, <1>b DEF TypeOK, HoldInv
      <3>3. HoldInv' /\ SyncInv' /\ ResumeInv'
        BY <3>1, <3>2, <1>a, <1>s DEF HoldInv, SyncInv, ResumeInv, Resuming
      <3>4. QED BY <1>t, <3>1, <3>3 DEF UniqueInv, OneRecordPerId, OrphanHasNoWindow
    <2>4. CASE SyncNoSession \/ Snapshot \/ CollectEnd
      <3>1. UNCHANGED <<records, disk, window, mu, arg, saved, listed, used, unsaved>>
        BY <2>4 DEF SyncNoSession, Snapshot, CollectEnd
      <3>2. \A t \in Threads : pc'[t] = pc[t] \/ {pc[t], pc'[t]} \cap {"remove", "launch", "save", "restored", "sync"} = {}
        BY <2>4, <1>a DEF SyncNoSession, Snapshot, CollectEnd, Goto, TypeOK
      <3>3. QED BY <1>t, <3>1, <3>2, QuietKeeps DEF OneRecordPerId
    <2>5. CASE Collect
      <3>1. PICK id \in todo[GC] :
              \/ DeleteOf(GC, id)
              \/ mu = Free /\ Of(id) = {} /\ UNCHANGED <<records, window, mu, pc, arg>>
        BY <2>5 DEF Collect
      <3>2. id \in Ids /\ UNCHANGED <<disk, saved, listed, used, unsaved>>
        BY <2>5, <1>a DEF Collect, TypeOK
      <3>3. CASE DeleteOf(GC, id)
        BY <1>a, <1>t, <3>2, <3>3, DeleteKeeps
      <3>4. CASE UNCHANGED <<records, window, mu, pc, arg>>
        BY <1>t, <3>2, <3>4, QuietKeeps DEF OneRecordPerId
      <3>5. QED BY <3>1, <3>3, <3>4
    <2>6. QED BY <1>3, <2>1, <2>2, <2>3, <2>4, <2>5 DEF Collector
  <1>4. CASE Environment
    <2>1. CASE PaneExits \/ WindowClosed \/ GraceElapses
      <3>1. UNCHANGED <<records, disk, mu, pc, arg, saved, listed, used, unsaved>>
        BY <2>1 DEF PaneExits, WindowClosed, GraceElapses
      <3>2. \A i \in Ids : window[i] = "none" => window'[i] = "none"
        BY <2>1 DEF PaneExits, WindowClosed, GraceElapses, TypeOK
      <3>3. QED BY <1>t, <3>1, <3>2, QuietKeeps DEF OneRecordPerId
    <2>2. CASE Restart
      <3>1. /\ records' = {Restore(d) : d \in disk} /\ saved' = {}
            /\ \A t \in Threads : pc'[t] = "idle"
            /\ UNCHANGED <<disk, window, used, unsaved>>
        BY <2>2 DEF Restart
      <3>2. \A r \in records' : \E d \in disk : r = Restore(d) /\ r.id = d.id /\ r.status = "Unknown"
        BY <3>1, RecordTypes DEF TypeOK
      <3>3. OneRecordPerId' /\ OrphanHasNoWindow' /\ UniqueInv'
        BY <3>1, <3>2 DEF OneRecordPerId, OrphanHasNoWindow, UniqueInv
      <3>4. HoldInv' /\ SyncInv' /\ ResumeInv'
        BY <3>1, <1>a DEF HoldInv, SyncInv, ResumeInv, Resuming
      <3>5. QED BY <1>t, <3>3, <3>4
    <2>3. QED BY <1>4, <2>1, <2>2 DEF Environment
  <1>5. CASE UNCHANGED vars
    BY <1>t, <1>5, QuietKeeps DEF vars, OneRecordPerId
  <1>6. QED BY <1>1, <1>2, <1>f, <1>3, <1>4, <1>5 DEF Next

LEMMA IInvCorrect == Spec => []IInv
  <1>1. Init => IInv
    BY InitIInv
  <1>2. IInv /\ [Next]_vars => IInv'
    BY NextIInv
  <1>3. QED BY <1>1, <1>2, PTL DEF Spec

\* Whatever fails, Save and kill-window included, and in every order of the
\* goroutines, an id names one session and skipping kill-window for an orphan
\* leaves no window behind, unless a resume of that very id could not save.
THEOREM RecordsStaySound == Spec => []RecordsAreSound
  <1>1. IInv => RecordsAreSound
    BY DEF IInv, RecordsAreSound
  <1>2. QED BY <1>1, IInvCorrect, PTL

-----------------------------------------------------------------------------
(* state.json                                                              *)

\* Where a call is between its change of the store and its Save.
Dirty == {"remove", "launch", "save", "restored", "flush", "purge"}

\* What was loaded is saved as it was.
LEMMA RestoredPersists ==
  ASSUME TypeOK, records' = {Restore(d) : d \in disk}
  PROVE  Persisted' = disk
  <1>1. \A d \in Stored : Store(Restore(d)) = d
    BY DEF Stored, Store, Restore
  <1>2. \A d \in disk : Store(Restore(d)) = d
    BY <1>1 DEF TypeOK
  <1>3. Persisted' = {Store(r) : r \in {Restore(d) : d \in disk}}
    BY DEF Persisted
  <1>4. QED BY <1>2, <1>3

\* Sync changes what is not persisted.
LEMMA SyncPersists ==
  ASSUME TypeOK, SyncApply
  PROVE  Persisted' = Persisted
  <1> DEFINE seen(r) == [r EXCEPT !.status = Observed(r.id)]
  <1>1. records' = {seen(r) : r \in records}
    BY DEF SyncApply
  <1>2. \A r \in records : Store(seen(r)) = Store(r)
    BY DEF TypeOK, Record, Store
  <1> HIDE DEF seen
  <1>3. ASSUME NEW d \in Persisted' PROVE d \in Persisted
    <2>1. PICK q \in records' : d = Store(q)
      BY <1>3 DEF Persisted
    <2>2. PICK r \in records : q = seen(r)
      BY <1>1, <2>1
    <2>3. QED BY <1>2, <2>1, <2>2 DEF Persisted
  <1>4. ASSUME NEW d \in Persisted PROVE d \in Persisted'
    <2>1. PICK r \in records : d = Store(r)
      BY <1>4 DEF Persisted
    <2>2. seen(r) \in records' /\ Store(seen(r)) = d
      BY <1>1, <1>2, <2>1
    <2>3. QED BY <2>2 DEF Persisted
  <1>5. QED BY <1>3, <1>4

\* A change of the store is followed by a Save of the same call.
LEMMA NextDisk ==
  ASSUME ~SaveMayFail, TypeOK, DiskMatchesMemory, [Next]_vars
  PROVE  DiskMatchesMemory'
  <1> USE DEF TypeOK
  <1>a. Clients \subseteq Threads /\ GC \in Threads
    BY DEF Threads
  <1>1. ASSUME NEW t \in Threads, NEW l \in Dirty, Goto(t, l) PROVE DiskMatchesMemory'
    BY <1>1 DEF Goto, Dirty, DiskMatchesMemory
  <1>2. ASSUME UNCHANGED <<records, disk>>, \A t \in Threads : pc[t] \in Dirty => pc'[t] \in Dirty
        PROVE  DiskMatchesMemory'
    BY <1>2 DEF DiskMatchesMemory, Dirty, Persisted
  <1>3. ASSUME disk' = Persisted, UNCHANGED records PROVE DiskMatchesMemory'
    BY <1>3 DEF DiskMatchesMemory, Persisted
  <1>4. ASSUME NEW c \in Clients, ClientStep(c) PROVE DiskMatchesMemory'
    <2>1. CASE SaveRestored(c) \/ Flush(c)
      BY <2>1, <1>3 DEF SaveRestored, Flush
    <2>2. CASE ~(SaveRestored(c) \/ Flush(c))
      <3>1. \E l \in Dirty : Goto(c, l)
        BY <1>4, <2>2 DEF ClientStep, Create, ResumeCollected, ResumeFind, ResumeRemove, ResumeLaunch, ResumeLaunchFails,
                          RestoreOld, Delete, DeleteOf, Launch, Rename, Purge, PurgeOne, Dirty
      <3>2. QED BY <1>1, <1>a, <3>1
    <2>3. QED BY <2>1, <2>2
  <1>5. ASSUME NEW t \in Threads, Save(t) \/ SaveFails(t) PROVE DiskMatchesMemory'
    BY <1>3, <1>5 DEF Save, SaveFails
  <1>6. CASE Collector
    <2>1. CASE SyncList \/ SyncNoSession \/ SyncFails \/ Snapshot \/ CollectEnd
      <3>1. UNCHANGED <<records, disk>> /\ pc[GC] \notin Dirty /\ \E l : Goto(GC, l)
        BY <2>1 DEF SyncList, SyncNoSession, SyncFails, Snapshot, CollectEnd, Dirty
      <3>2. QED BY <1>2, <3>1 DEF Goto
    <2>2. CASE SyncApply
      <3>1. disk' = disk /\ pc[GC] = "sync" /\ Goto(GC, "snapshot")
        BY <2>2 DEF SyncApply
      <3>2. \A t \in Threads : pc[t] \in Dirty => pc'[t] \in Dirty
        BY <3>1 DEF Goto, Dirty
      <3>3. QED BY <2>2, <3>1, <3>2, SyncPersists DEF DiskMatchesMemory, Dirty
    <2>3. CASE Collect
      <3>1. \/ \E id \in Ids : DeleteOf(GC, id)
            \/ UNCHANGED <<records, disk, pc>>
        BY <2>3, <1>a DEF Collect
      <3>2. ASSUME NEW id \in Ids, DeleteOf(GC, id) PROVE Goto(GC, "save")
        BY <3>2 DEF DeleteOf
      <3>3. QED BY <1>1, <1>2, <1>a, <3>1, <3>2 DEF Dirty
    <2>4. QED BY <1>6, <2>1, <2>2, <2>3 DEF Collector
  <1>7. CASE Environment
    <2>1. CASE PaneExits \/ WindowClosed \/ GraceElapses
      BY <2>1, <1>2 DEF PaneExits, WindowClosed, GraceElapses
    <2>2. CASE Restart
      BY <2>2, RestoredPersists DEF Restart, DiskMatchesMemory
    <2>3. QED BY <1>7, <2>1, <2>2 DEF Environment
  <1>8. CASE UNCHANGED vars
    BY <1>2, <1>8 DEF vars
  <1>9. QED BY <1>4, <1>5, <1>6, <1>7, <1>8 DEF Next

\* Whoever saved last and whenever the program is restarted, state.json holds
\* the sessions of the store once every call is done, if it can be written.
THEOREM DiskFollowsMemory == ASSUME ~SaveMayFail PROVE Spec => []DiskMatchesMemory
  <1>1. Init => DiskMatchesMemory
    BY DEF Init, DiskMatchesMemory, Persisted
  <1>2. TypeOK /\ DiskMatchesMemory /\ [Next]_vars => DiskMatchesMemory'
    BY NextDisk
  <1>3. QED BY <1>1, <1>2, TypeCorrect, PTL DEF Spec

-----------------------------------------------------------------------------
(* Windows and their sessions                                              *)

\* ResumeSession removes a record only when its window is closed.
OwnInv ==
  /\ WindowIsOwned
  /\ \A t \in Threads : pc[t] \in {"remove", "launch"} => window[arg[t]] = "none"
  /\ \A t \in Threads : pc[t] # "purge"

\* A step that adds windows to nothing, and takes no record away, keeps it.
LEMMA OwnFrame ==
  ASSUME TypeOK, OwnInv, crashes' = crashes,
         \A id \in Ids : window[id] = "none" => window'[id] = "none",
         \A id \in Ids : Of(id) # {} => Of(id)' # {},
         \A t \in Threads : pc'[t] \in {"remove", "launch"} => pc[t] \in {"remove", "launch"} /\ arg'[t] = arg[t],
         \A t \in Threads : pc'[t] # "purge"
  PROVE  OwnInv'
  BY DEF OwnInv, WindowIsOwned, TypeOK

\* Deleting a session closes its window, or finds that it has none.
LEMMA DeleteOwns ==
  ASSUME ~KillMayFail, ~SaveMayFail, IInv, OwnInv, NEW t \in Threads, NEW id \in Ids, DeleteOf(t, id), crashes' = crashes
  PROVE  OwnInv'
  <1> USE DEF IInv, TypeOK
  <1>1. PICK r \in Of(id) :
          /\ IF r.status = "Orphan" THEN UNCHANGED window ELSE KillWindow(id)
          /\ records' = records \ {r}
    BY DEF DeleteOf
  <1>2. r \in records /\ r.id = id
    BY DEF Of
  <1>3. window'[id] = "none" /\ \A i \in Ids : i # id => window'[i] = window[i]
    BY <1>1, <1>2 DEF KillWindow, OrphanHasNoWindow, UniqueInv
  <1>4. \A i \in Ids : i # id /\ Of(i) # {} => Of(i)' # {}
    BY <1>1, <1>2 DEF Of
  <1>5. mu = Free /\ pc' = [pc EXCEPT ![t] = "save"]
    BY DEF DeleteOf, Goto
  <1>6. \A s \in Threads : pc'[s] \notin {"remove", "launch", "purge"}
    BY <1>5, ConstantsAssumption DEF HoldInv, OwnInv
  <1>7. WindowIsOwned'
    BY <1>3, <1>4 DEF OwnInv, WindowIsOwned
  <1>8. QED BY <1>6, <1>7 DEF OwnInv

\* A launch opens the window of the record it adds.
LEMMA LaunchOwns ==
  ASSUME IInv, OwnInv, NEW t \in Threads, NEW id \in Ids, NEW renamed, Launch(t, id, renamed), mu \in {t, Free},
         crashes' = crashes
  PROVE  OwnInv'
  <1> USE DEF IInv, TypeOK
  <1> DEFINE added == [id |-> id, born |-> launches + 1, status |-> "Running", renamed |-> renamed]
  <1>a. added.id = id
    OBVIOUS
  <1>b. records' = records \cup {added}
    BY DEF Launch
  <1> HIDE DEF added
  <1>1. /\ records \subseteq records' /\ \E r \in records' : r.id = id
        /\ window' = [window EXCEPT ![id] = "alive"] /\ pc' = [pc EXCEPT ![t] = "save"]
    <2>1. records \subseteq records' /\ \E r \in records' : r.id = id
      BY <1>a, <1>b
    <2>2. window' = [window EXCEPT ![id] = "alive"] /\ pc' = [pc EXCEPT ![t] = "save"]
      BY DEF Launch, Goto
    <2>3. QED BY <2>1, <2>2
  <1>2. \A i \in Ids : Of(i) # {} \/ i = id => Of(i)' # {}
    BY <1>1 DEF Of
  <1>3. \A s \in Threads : pc'[s] \notin {"remove", "launch", "purge"}
    BY <1>1, ConstantsAssumption DEF HoldInv, OwnInv
  <1>4. WindowIsOwned'
    BY <1>1, <1>2 DEF OwnInv, WindowIsOwned
  <1>5. QED BY <1>3, <1>4 DEF OwnInv

\* Every other step leaves each window its session.
LEMMA NextOwn ==
  ASSUME ~KillMayFail, "purge" \notin Ops, ~SaveMayFail, IInv, OwnInv, [Next]_vars
  PROVE  OwnInv'
  <1> USE DEF IInv, TypeOK
  <1>a. Clients \subseteq Threads /\ GC \in Threads /\ GC \notin Clients
    BY ConstantsAssumption DEF Threads
  <1>b. \A r \in records : r.id \in Ids
    BY RecordTypes
  <1>1. ASSUME UNCHANGED <<records, window, arg, crashes>>,
               NEW t \in Threads, NEW l \in Labels \ {"remove", "launch", "purge"}, Goto(t, l)
        PROVE  OwnInv'
    BY <1>1, OwnFrame DEF Goto, Of, OwnInv
  <1>2. ASSUME NEW c \in Clients, ClientStep(c) PROVE OwnInv'
    <2>1. CASE Create(c) \/ ResumeCollected(c)
      <3>1. \E id \in Ids : Launch(c, id, FALSE)
        BY <2>1 DEF Create, ResumeCollected
      <3>2. QED BY <2>1, <3>1, <1>a, LaunchOwns DEF Create, ResumeCollected
    <2>2. CASE ResumeFind(c)
      <3>1. PICK old \in records :
              /\ arg' = [arg EXCEPT ![c] = old.id]
              /\ IF old.status = "Orphan" THEN UNCHANGED window ELSE KillWindow(old.id)
        BY <2>2 DEF ResumeFind
      <3>2. /\ mu = Free /\ pc' = [pc EXCEPT ![c] = "remove"] /\ UNCHANGED <<records, crashes>>
        BY <2>2 DEF ResumeFind, Goto
      <3>3. window'[old.id] = "none" /\ \A i \in Ids : window[i] = "none" => window'[i] = "none"
        BY <3>1, <1>b DEF KillWindow, OrphanHasNoWindow, UniqueInv
      <3>4. \A t \in Threads : t # c => pc'[t] \notin {"remove", "launch", "purge"}
        BY <3>2, ConstantsAssumption DEF HoldInv, OwnInv
      <3>5. pc'[c] = "remove" /\ arg'[c] = old.id
        BY <3>1, <3>2, <1>a
      <3>6. WindowIsOwned'
        BY <3>2, <3>3 DEF OwnInv, WindowIsOwned, Of
      <3>7. QED BY <3>3, <3>4, <3>5, <3>6 DEF OwnInv
    <2>3. CASE ResumeRemove(c)
      <3>1. /\ pc[c] = "remove" /\ RemoveFirst(arg[c]) /\ pc' = [pc EXCEPT ![c] = "launch"]
            /\ UNCHANGED <<window, arg, crashes>>
        BY <2>3 DEF ResumeRemove, Goto
      <3>2. window[arg[c]] = "none"
        BY <3>1, <1>a DEF OwnInv
      <3>3. \A i \in Ids : i # arg[c] /\ Of(i) # {} => Of(i)' # {}
        BY <3>1 DEF RemoveFirst, Of
      <3>4. WindowIsOwned'
        BY <3>1, <3>2, <3>3 DEF OwnInv, WindowIsOwned
      <3>5. QED BY <3>1, <3>2, <3>4, <1>a DEF OwnInv
    <2>4. CASE ResumeLaunch(c)
      <3>1. PICK old \in saved : Launch(c, arg[c], old.renamed)
        BY <2>4 DEF ResumeLaunch
      <3>2. mu = c /\ crashes' = crashes /\ arg[c] \in Ids
        BY <2>4, <1>a DEF ResumeLaunch, HoldInv
      <3>3. QED BY <3>1, <3>2, <1>a, LaunchOwns
    <2>5. CASE ResumeLaunchFails(c)
      <3>1. records \subseteq records' /\ pc' = [pc EXCEPT ![c] = "restored"] /\ UNCHANGED <<window, arg, crashes>>
        BY <2>5 DEF ResumeLaunchFails, RestoreOld, Goto
      <3>2. \A i \in Ids : Of(i) # {} => Of(i)' # {}
        BY <3>1 DEF Of
      <3>3. QED BY <3>1, <3>2, OwnFrame DEF OwnInv
    <2>6. CASE SaveRestored(c) \/ Flush(c)
      <3>1. UNCHANGED <<records, window, arg, crashes>> /\ Goto(c, "idle")
        BY <2>6, <1>a DEF SaveRestored, Flush, Return
      <3>2. QED BY <1>1, <1>a, <3>1 DEF Labels
    <2>7. CASE Delete(c)
      BY <2>7, <1>a, DeleteOwns DEF Delete
    <2>8. CASE Rename(c)
      <3>1. PICK r \in records : records' = (records \ {r}) \cup {[r EXCEPT !.renamed = TRUE]}
        BY <2>8 DEF Rename
      <3>2. [r EXCEPT !.renamed = TRUE].id = r.id
        BY RecordTypes
      <3>3. \A i \in Ids : Of(i) # {} => Of(i)' # {}
        BY <3>1, <3>2 DEF Of
      <3>4. pc' = [pc EXCEPT ![c] = "flush"] /\ UNCHANGED <<window, arg, crashes>>
        BY <2>8 DEF Rename, Goto
      <3>5. QED BY <3>3, <3>4, OwnFrame DEF OwnInv
    <2>9. ~Purge(c) /\ ~PurgeOne(c)
      BY <1>a DEF Purge, PurgeOne, Idle, OwnInv
    <2>10. QED BY <1>2, <2>1, <2>2, <2>3, <2>4, <2>5, <2>6, <2>7, <2>8, <2>9 DEF ClientStep
  <1>3. ASSUME NEW t \in Threads, Save(t) \/ SaveFails(t) PROVE OwnInv'
    <2>1. UNCHANGED <<records, window, arg, crashes>> /\ \E l \in {"collect", "idle"} : Goto(t, l)
      BY <1>3 DEF Save, SaveFails, Return
    <2>2. QED BY <1>1, <2>1 DEF Labels
  <1>4. CASE Collector
    <2>1. CASE SyncList \/ SyncNoSession \/ SyncFails \/ Snapshot \/ CollectEnd
      <3>1. UNCHANGED <<records, window, arg, crashes>> /\ \E l \in {"sync", "snapshot", "idle", "collect"} : Goto(GC, l)
        BY <2>1 DEF SyncList, SyncNoSession, SyncFails, Snapshot, CollectEnd
      <3>2. QED BY <1>1, <1>a, <3>1 DEF Labels
    <2>2. CASE SyncApply
      <3>1. /\ pc' = [pc EXCEPT ![GC] = "snapshot"] /\ UNCHANGED <<window, arg, crashes>>
            /\ records' = {[r EXCEPT !.status = Observed(r.id)] : r \in records}
        BY <2>2 DEF SyncApply, Goto
      <3>2. \A r \in records : [r EXCEPT !.status = Observed(r.id)].id = r.id
        BY DEF Record
      <3>3. \A i \in Ids : Of(i) # {} => Of(i)' # {}
        <4>1. \A r \in records : [r EXCEPT !.status = Observed(r.id)] \in records'
          BY <3>1
        <4>2. \A r \in records : \E q \in records' : q.id = r.id
          BY <3>2, <4>1
        <4>3. QED BY <4>2 DEF Of
      <3>4. QED BY <3>1, <3>3, OwnFrame DEF OwnInv
    <2>3. CASE Collect
      <3>1. crashes' = crashes
        BY <2>3 DEF Collect
      <3>2. \/ \E id \in Ids : DeleteOf(GC, id)
            \/ UNCHANGED <<records, window, pc, arg>>
        BY <2>3, <1>a DEF Collect
      <3>3. CASE UNCHANGED <<records, window, pc, arg>>
        BY <3>1, <3>3, OwnFrame DEF OwnInv, Of
      <3>4. QED BY <1>a, <3>1, <3>2, <3>3, DeleteOwns
    <2>4. QED BY <1>4, <2>1, <2>2, <2>3 DEF Collector
  <1>5. CASE Environment
    <2>1. CASE PaneExits \/ WindowClosed \/ GraceElapses
      <3>1. \A i \in Ids : window[i] = "none" => window'[i] = "none"
        BY <2>1 DEF PaneExits, WindowClosed, GraceElapses
      <3>2. UNCHANGED <<records, pc, arg, crashes>>
        BY <2>1 DEF PaneExits, WindowClosed, GraceElapses
      <3>3. QED BY <3>1, <3>2, OwnFrame DEF OwnInv, Of
    <2>2. CASE Restart
      <3>1. crashes' # 0 /\ \A t \in Threads : pc'[t] = "idle"
        BY <2>2 DEF Restart
      <3>2. QED BY <3>1 DEF OwnInv, WindowIsOwned
    <2>3. QED BY <1>5, <2>1, <2>2 DEF Environment
  <1>6. CASE UNCHANGED vars
    BY <1>6, OwnFrame DEF vars, OwnInv, Of
  <1>7. QED BY <1>2, <1>3, <1>4, <1>5, <1>6 DEF Next

\* As long as kill-window and Save work and nobody purges, every window
\* belongs to a session of the store until the program is restarted.
THEOREM WindowsAreOwned ==
  ASSUME ~KillMayFail, ~SaveMayFail, "purge" \notin Ops
  PROVE  Spec => []WindowIsOwned
  <1>1. Init => OwnInv
    BY DEF Init, OwnInv, WindowIsOwned
  <1>2. IInv /\ OwnInv /\ [Next]_vars => OwnInv'
    BY NextOwn
  <1>3. OwnInv => WindowIsOwned
    BY DEF OwnInv
  <1>4. QED BY <1>1, <1>2, <1>3, IInvCorrect, PTL DEF Spec

-----------------------------------------------------------------------------
(* The session that is being resumed                                       *)

\* While ResumeSession has a record to restore, it holds Manager.mu and is at
\* one of its steps; the record has the id it works on, which is in the store
\* again before anything is saved.
KeepInv ==
  /\ HoldInv
  /\ saved # {} => mu \in Clients /\ pc[mu] \in {"remove", "launch", "save", "restored"}
  /\ saved # {} => \A s \in saved : s.id = arg[mu]
  /\ saved # {} /\ pc[mu] \in {"save", "restored"} => \E r \in records : r.id = arg[mu]
  /\ \A t \in Threads : pc[t] \notin {"flush", "purge"}

\* With nothing to restore, a step only has to respect the mutex.
LEMMA KeepNothing ==
  ASSUME saved' = {}, HoldInv', \A t \in Threads : pc'[t] \notin {"flush", "purge"}
  PROVE  KeepInv'
  BY DEF KeepInv

\* A call that takes the free mutex.
LEMMA KeepTake ==
  ASSUME TypeOK, KeepInv, NEW t \in Threads, NEW l \in Labels \ {"flush", "purge"},
         mu = Free, mu' = t, Goto(t, l), saved' = saved
  PROVE  KeepInv'
  <1>1. Free \notin Clients /\ Free \notin Threads
    BY ConstantsAssumption DEF Threads
  <1>2. saved' = {}
    BY <1>1 DEF KeepInv
  <1>3. HoldInv' /\ \A u \in Threads : pc'[u] \notin {"flush", "purge"}
    BY <1>1 DEF TypeOK, KeepInv, HoldInv, Goto
  <1>4. QED BY <1>2, <1>3, KeepNothing

\* A call that leaves the mutex with nothing to restore.
LEMMA KeepLeave ==
  ASSUME TypeOK, KeepInv, NEW t \in Threads, NEW l \in Labels \ {"remove", "launch", "save", "restored", "sync", "flush", "purge"},
         mu = t, mu' = Free, Goto(t, l), saved' = {}
  PROVE  KeepInv'
  <1>1. HoldInv' /\ \A u \in Threads : pc'[u] \notin {"flush", "purge"}
    BY DEF TypeOK, KeepInv, HoldInv, Goto
  <1>2. QED BY <1>1, KeepNothing

\* A step of the collector, or of tmux, outside the mutex.
LEMMA KeepFrame ==
  ASSUME TypeOK, KeepInv, UNCHANGED <<records, mu, arg, saved>>,
         \/ UNCHANGED pc
         \/ /\ pc[GC] \in {"idle", "snapshot", "collect"}
            /\ Goto(GC, "idle") \/ Goto(GC, "snapshot") \/ Goto(GC, "collect")
  PROVE  KeepInv'
  <1>1. GC \in Threads /\ GC \notin Clients /\ Clients \subseteq Threads
    BY ConstantsAssumption DEF Threads
  <1>2. \A t \in Threads : t # GC => pc'[t] = pc[t]
    BY DEF TypeOK, Goto
  <1>3. pc'[GC] = pc[GC] \/ pc'[GC] \in {"idle", "snapshot", "collect"}
    BY <1>1 DEF TypeOK, Goto
  <1>4. HoldInv'
    BY <1>2, <1>3 DEF KeepInv, HoldInv
  <1>5. saved # {} => mu \in Clients /\ mu # GC /\ mu \in Threads /\ pc'[mu] = pc[mu]
    BY <1>1, <1>2 DEF KeepInv
  <1>6. QED BY <1>2, <1>3, <1>4, <1>5 DEF KeepInv

\* A step of the call that holds the mutex, with its record in hand.
LEMMA KeepResume ==
  ASSUME TypeOK, KeepInv, NEW c \in Clients, NEW l \in {"remove", "launch", "save", "restored"},
         mu = c, mu' = c, Goto(c, l), arg' = arg, saved' = saved,
         l \in {"save", "restored"} /\ saved # {} => \E r \in records' : r.id = arg[c]
  PROVE  KeepInv'
  <1>1. c \in Threads
    BY DEF Threads
  <1>2. pc'[c] = l /\ \A t \in Threads : t # c => pc'[t] = pc[t]
    BY <1>1 DEF TypeOK, Goto
  <1>3. HoldInv'
    BY <1>2 DEF KeepInv, HoldInv
  <1>4. \A t \in Threads : pc'[t] \notin {"flush", "purge"}
    BY <1>2 DEF KeepInv
  <1>5. QED BY <1>2, <1>3, <1>4 DEF KeepInv

\* Every step keeps it, unless somebody renames or purges: only those change
\* or save the store without Manager.mu.
LEMMA NextKeep ==
  ASSUME "rename" \notin Ops, "purge" \notin Ops, TypeOK, KeepInv, [Next]_vars
  PROVE  KeepInv'
  <1>a. Clients \subseteq Threads /\ GC \in Threads /\ GC \notin Clients /\ Free \notin Threads
    BY ConstantsAssumption DEF Threads
  <1>h. \A t \in Threads : pc[t] \in {"remove", "launch", "save", "restored", "sync"} => mu = t
    BY DEF KeepInv, HoldInv
  <1>1. ASSUME NEW c \in Clients, ClientStep(c) PROVE KeepInv'
    <2>1. CASE Create(c) \/ ResumeCollected(c) \/ Delete(c)
      <3>1. mu = Free /\ mu' = c /\ Goto(c, "save") /\ saved' = saved
        BY <2>1 DEF Create, ResumeCollected, Delete, DeleteOf, Launch
      <3>2. QED BY <1>a, <3>1, KeepTake DEF Labels
    <2>2. CASE ResumeFind(c)
      <3>1. PICK old \in records : saved' = {old} /\ arg' = [arg EXCEPT ![c] = old.id]
        BY <2>2 DEF ResumeFind
      <3>2. mu = Free /\ mu' = c /\ Goto(c, "remove")
        BY <2>2 DEF ResumeFind
      <3>3. arg'[c] = old.id
        BY <1>a, <3>1 DEF TypeOK
      <3>4. pc'[c] = "remove" /\ \A t \in Threads : t # c => pc'[t] = pc[t]
        BY <1>a, <3>2 DEF TypeOK, Goto
      <3>5. HoldInv'
        BY <1>a, <1>h, <3>2, <3>4 DEF HoldInv
      <3>6. \A t \in Threads : pc'[t] \notin {"flush", "purge"}
        BY <3>4 DEF KeepInv
      <3>7. QED BY <3>1, <3>2, <3>3, <3>4, <3>5, <3>6 DEF KeepInv
    <2>3. CASE ResumeRemove(c)
      <3>1. pc[c] = "remove" /\ mu' = mu /\ Goto(c, "launch") /\ arg' = arg /\ saved' = saved
        BY <2>3 DEF ResumeRemove
      <3>2. QED BY <1>a, <1>h, <3>1, KeepResume
    <2>4. CASE ResumeLaunch(c)
      <3>1. pc[c] = "launch" /\ arg' = arg /\ saved' = saved
        BY <2>4 DEF ResumeLaunch
      <3>2. PICK old \in saved : Launch(c, arg[c], old.renamed)
        BY <2>4 DEF ResumeLaunch
      <3>3. mu' = c /\ Goto(c, "save") /\ \E r \in records' : r.id = arg[c]
        <4> DEFINE new == [id |-> arg[c], born |-> launches + 1, status |-> "Running", renamed |-> old.renamed]
        <4>1. new \in records' /\ new.id = arg[c]
          BY <3>2 DEF Launch
        <4>2. QED BY <3>2, <4>1 DEF Launch
      <3>4. mu = c
        BY <1>a, <1>h, <3>1
      <3>5. QED BY <3>1, <3>3, <3>4, KeepResume
    <2>5. CASE ResumeLaunchFails(c)
      <3>1. pc[c] = "launch" /\ mu' = mu /\ records' = records \cup saved /\ Goto(c, "restored") /\ arg' = arg /\ saved' = saved
        BY <2>5 DEF ResumeLaunchFails, RestoreOld
      <3>2. mu = c
        BY <1>a, <1>h, <3>1
      <3>3. saved # {} => \E r \in records' : r.id = arg[c]
        BY <3>1, <3>2 DEF KeepInv
      <3>4. QED BY <3>1, <3>2, <3>3, KeepResume
    <2>6. CASE SaveRestored(c)
      <3>1. pc[c] = "restored" /\ mu' = Free /\ saved' = {} /\ Return(c)
        BY <2>6 DEF SaveRestored
      <3>2. Goto(c, "idle")
        BY <1>a, <3>1 DEF Return
      <3>3. mu = c
        BY <1>a, <1>h, <3>1
      <3>4. QED BY <1>a, <3>1, <3>2, <3>3, KeepLeave DEF Labels
    <2>7. CASE Rename(c) \/ Purge(c)
      BY <2>7 DEF Rename, Purge, Idle
    <2>8. CASE PurgeOne(c) \/ Flush(c)
      BY <1>a, <2>8 DEF PurgeOne, Flush, KeepInv
    <2>9. QED BY <1>1, <2>1, <2>2, <2>3, <2>4, <2>5, <2>6, <2>7, <2>8 DEF ClientStep
  <1>2. ASSUME NEW t \in Threads, Save(t) \/ SaveFails(t) PROVE KeepInv'
    <2>1. pc[t] = "save" /\ mu = t /\ arg' = arg
      BY <1>2, <1>h DEF Save, SaveFails
    <2>2. CASE saved' = {} /\ mu' = Free /\ Return(t)
      <3>1. PICK l \in {"idle", "collect"} : Goto(t, l)
        BY <2>2 DEF Return
      <3>2. QED BY <2>1, <2>2, <3>1, KeepLeave DEF Labels
    <2>3. CASE saved # {} /\ RestoreOld(t) /\ mu' = mu /\ saved' = saved
      <3>1. t \in Clients
        BY <2>1, <2>3 DEF KeepInv
      <3>2. records' = records \cup saved /\ Goto(t, "restored") /\ \E r \in records' : r.id = arg[t]
        BY <2>1, <2>3 DEF RestoreOld, KeepInv
      <3>3. QED BY <2>1, <2>3, <3>1, <3>2, KeepResume
    <2>4. QED BY <1>2, <2>2, <2>3 DEF Save, SaveFails
  <1>3. CASE Collector
    <2>1. CASE SyncList
      BY <1>a, <2>1, KeepTake DEF SyncList, Labels
    <2>2. CASE SyncApply \/ SyncFails
      <3>1. pc[GC] = "sync" /\ mu' = Free /\ saved' = saved /\ (Goto(GC, "snapshot") \/ Goto(GC, "idle"))
        BY <2>2 DEF SyncApply, SyncFails
      <3>2. mu = GC
        BY <1>a, <1>h, <3>1
      <3>3. saved' = {}
        BY <1>a, <3>1, <3>2 DEF KeepInv
      <3>4. QED BY <1>a, <3>1, <3>2, <3>3, KeepLeave DEF Labels
    <2>3. CASE SyncNoSession \/ Snapshot \/ CollectEnd
      BY <2>3, KeepFrame DEF SyncNoSession, Snapshot, CollectEnd
    <2>4. CASE Collect
      <3>1. saved' = saved /\ \/ \E id \in Ids : DeleteOf(GC, id)
                              \/ UNCHANGED <<records, mu, pc, arg>>
        BY <1>a, <2>4 DEF Collect, TypeOK
      <3>2. ASSUME NEW id \in Ids, DeleteOf(GC, id) PROVE mu = Free /\ mu' = GC /\ Goto(GC, "save")
        BY <3>2 DEF DeleteOf
      <3>3. QED BY <1>a, <3>1, <3>2, KeepTake, KeepFrame DEF Labels
    <2>5. QED BY <1>3, <2>1, <2>2, <2>3, <2>4 DEF Collector
  <1>4. CASE Environment
    <2>1. CASE PaneExits \/ WindowClosed \/ GraceElapses
      BY <2>1, KeepFrame DEF PaneExits, WindowClosed, GraceElapses
    <2>2. CASE Restart
      <3>1. saved' = {} /\ \A t \in Threads : pc'[t] = "idle"
        BY <2>2 DEF Restart
      <3>2. QED BY <3>1, KeepNothing DEF HoldInv
    <2>3. QED BY <1>4, <2>1, <2>2 DEF Environment
  <1>5. CASE UNCHANGED vars
    BY <1>5, KeepFrame DEF vars
  <1>6. QED BY <1>1, <1>2, <1>3, <1>4, <1>5 DEF Next

\* A step that saves while a record is to be restored saves its id as well.
LEMMA NextKeepsId ==
  ASSUME TypeOK, KeepInv, [Next]_vars, NEW c \in Clients,
         mu = c, saved # {}, \E d \in disk : d.id = arg[c]
  PROVE  \E d \in disk' : d.id = arg[c]
  <1>a. Clients \subseteq Threads /\ GC \in Threads /\ GC \notin Clients
    BY ConstantsAssumption DEF Threads
  <1>1. CASE UNCHANGED disk
    BY <1>1
  <1>2. ASSUME NEW t \in Threads, pc[t] \in {"save", "restored"}, disk' = Persisted
        PROVE  \E d \in disk' : d.id = arg[c]
    <2>1. t = c
      BY <1>2 DEF KeepInv, HoldInv
    <2>2. PICK r \in records : r.id = arg[c]
      BY <1>2, <2>1 DEF KeepInv
    <2>3. Store(r) \in disk' /\ Store(r).id = r.id
      BY <1>2 DEF Persisted, Store
    <2>4. QED BY <2>2, <2>3
  <1>3. CASE disk' # disk
    <2>1. CASE \E u \in Clients : ClientStep(u)
      <3>1. PICK u \in Clients : ClientStep(u)
        BY <2>1
      <3>2. pc[u] # "flush"
        BY <1>a DEF KeepInv
      <3>3. pc[u] = "restored" /\ disk' = Persisted
        BY <1>3, <3>1, <3>2 DEF ClientStep, Create, ResumeCollected, ResumeFind, ResumeRemove, ResumeLaunch,
                                ResumeLaunchFails, SaveRestored, Delete, Rename, Purge, PurgeOne, Flush
      <3>4. QED BY <1>2, <1>a, <3>3
    <2>2. CASE \E t \in Threads : Save(t) \/ SaveFails(t)
      BY <1>2, <1>3, <2>2 DEF Save, SaveFails
    <2>3. CASE Collector \/ Environment \/ UNCHANGED vars
      BY <1>3, <2>3 DEF Collector, Environment, SyncList, SyncNoSession, SyncApply, SyncFails, Snapshot, Collect,
                        CollectEnd, PaneExits, WindowClosed, GraceElapses, Restart, vars
    <2>4. QED BY <2>1, <2>2, <2>3 DEF Next
  <1>4. QED BY <1>1, <1>3

\* Whichever step of ResumeSession fails, a Save or a kill-window included,
\* state.json keeps the session that is being resumed, as long as nobody
\* renames or purges, which save the store without Manager.mu.
THEOREM ResumeLosesNothing ==
  ASSUME "rename" \notin Ops, "purge" \notin Ops
  PROVE  Spec => ResumedStaysOnDisk
  <1>1. Init => KeepInv
    BY DEF Init, KeepInv, HoldInv
  <1>2. TypeOK /\ KeepInv /\ [Next]_vars => KeepInv'
    BY NextKeep
  <1>3. TypeOK /\ KeepInv /\ [Next]_vars =>
          [\A c \in Clients :
             (mu = c /\ saved # {} /\ \E d \in disk : d.id = arg[c]) => \E d \in disk' : d.id = arg[c]]_vars
    BY NextKeepsId
  <1>4. QED BY <1>1, <1>2, <1>3, TypeCorrect, PTL DEF Spec, ResumedStaysOnDisk
=============================================================================
