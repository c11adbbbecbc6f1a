------------------------ MODULE JournalledRunProofs ------------------------
(***************************************************************************)
(* Proofs about the run journal and about a run that resumes from it, for  *)
(* any number of appends, runs, sub-runs and steps, with every failure of  *)
(* module Checkpointer.  The advisory lock serialises the appends of a     *)
(* run, so that the position an INSERT computes is still the next one when *)
(* it commits.  A run is one use of the journal, so that what is proved of *)
(* the journal holds of it; on top of that, what a row says is so.         *)
(***************************************************************************)
EXTENDS JournalledRun, TLAPS

-----------------------------------------------------------------------------
(* The journal: its inductive invariant. *)

\* An append that has begun has an entry, and one that is not done no answer.
Begun ==
    \A a \in Appends : /\ pc[a] # "idle" => entry[a] \in Entry
                       /\ pc[a] # "done" => answer[a].kind = "none"

\* The rows of a run that has any have a last one: MAX(seq) is one of them.
HasLast ==
    \A run \in Runs : RowsOf(table, run) # {} =>
        \E r \in RowsOf(table, run) : \A q \in RowsOf(table, run) : q.seq <= r.seq

\* What an open transaction has read of its run is still so: nobody else has
\* written the key it looks for, and its row comes right after the last one.
ReadIsCurrent ==
    \A a \in Appends :
        /\ pc[a] \in {"insert", "index", "inserted"} => \A r \in table : ~SameKey(r, entry[a])
        /\ pc[a] \in {"index", "inserted"} =>
               tuple[a] = {RowFor(entry[a], NextSeqIn(RowsOf(table, entry[a].run)))}
        /\ pc[a] = "duplicate" =>
               /\ tuple[a] # {}
               /\ \A r \in tuple[a] : r \in table /\ SameKey(r, entry[a])

\* A RunState is of some earlier moment of its run.
ViewIsOld ==
    view # NoView => /\ view.run \in Runs
                     /\ view.nextSeq \in Nat
                     /\ view.nextSeq <= NextSeqIn(RowsOf(table, view.run))

IInv ==
    /\ TypeOK
    /\ Begun
    /\ LockIsHeld
    /\ HasLast
    /\ SeqIsDense
    /\ ReadIsCurrent
    /\ NoAppendConflicts
    /\ AcknowledgedIsDurable
    /\ ViewIsOld
    /\ LoadedIsPrefix

-----------------------------------------------------------------------------
(* Positions. *)

\* COALESCE(MAX(seq), -1) + 1 is past every row, and just past the last one.
LEMMA NextSeqIsNext ==
  ASSUME NEW rows \in SUBSET Record,
         rows # {} => \E r \in rows : \A q \in rows : q.seq <= r.seq
  PROVE  /\ NextSeqIn(rows) \in Nat
         /\ \A r \in rows : r.seq < NextSeqIn(rows)
         /\ \/ rows = {} /\ NextSeqIn(rows) = 0
            \/ \E r \in rows : NextSeqIn(rows) = r.seq + 1
<1>1. CASE rows = {}
  BY <1>1 DEF NextSeqIn
<1>2. CASE rows # {}
  <2> DEFINE last == CHOOSE r \in rows : \A q \in rows : q.seq <= r.seq
  <2>1. last \in rows /\ \A q \in rows : q.seq <= last.seq
    BY <1>2
  <2>2. NextSeqIn(rows) = last.seq + 1
    BY <1>2 DEF NextSeqIn
  <2>3. \A r \in rows : r.seq \in Nat
    BY DEF Record
  <2> HIDE DEF last
  <2> QED BY <2>1, <2>2, <2>3
<1> QED BY <1>1, <1>2

\* The next position of a run, in a state of the invariant.
LEMMA NextSeqOfRun ==
  ASSUME table \subseteq Record, HasLast, NEW run \in Runs
  PROVE  /\ NextSeqIn(RowsOf(table, run)) \in Nat
         /\ \A r \in RowsOf(table, run) : r.seq < NextSeqIn(RowsOf(table, run))
         /\ \/ RowsOf(table, run) = {} /\ NextSeqIn(RowsOf(table, run)) = 0
            \/ \E r \in RowsOf(table, run) : NextSeqIn(RowsOf(table, run)) = r.seq + 1
<1>1. RowsOf(table, run) \in SUBSET Record
  BY DEF RowsOf
<1> QED BY <1>1, NextSeqIsNext DEF HasLast

\* The row an INSERT computes is a row of its run, and clashes with none.
LEMMA NewRowFits ==
  ASSUME table \subseteq Record, HasLast, NEW e \in Entry,
         \A r \in table : ~SameKey(r, e)
  PROVE  /\ RowFor(e, NextSeqIn(RowsOf(table, e.run))) \in Record
         /\ \A r \in table : ~Clash(r, RowFor(e, NextSeqIn(RowsOf(table, e.run))))
<1> DEFINE n == NextSeqIn(RowsOf(table, e.run))
<1>1. e.run \in Runs
  BY DEF Entry
<1>2. n \in Nat /\ \A r \in RowsOf(table, e.run) : r.seq < n
  BY <1>1, NextSeqOfRun
<1> HIDE DEF n
<1>3. RowFor(e, n) \in Record
  BY <1>2 DEF RowFor, Entry, Record
<1>4. ASSUME NEW r \in table, Clash(r, RowFor(e, n)) PROVE FALSE
  <2>1. ~SameKey(r, RowFor(e, n))
    BY DEF SameKey, RowFor
  <2>2. r.run = e.run /\ r.seq = n
    BY <1>4, <2>1 DEF Clash, SameSeq, RowFor
  <2>3. r \in RowsOf(table, e.run) /\ r.seq \in Nat
    BY <2>2 DEF RowsOf, Record
  <2> QED BY <1>2, <2>2, <2>3
<1> QED BY <1>3, <1>4 DEF n

\* One more row at the next position: the journal stays dense, and the new row
\* is the last of its run.
LEMMA RowAdded ==
  ASSUME table \subseteq Record, HasLast, SeqIsDense, NEW e \in Entry,
         \A r \in table : ~SameKey(r, e),
         table' = table \cup {RowFor(e, NextSeqIn(RowsOf(table, e.run)))}
  PROVE  /\ table' \subseteq Record
         /\ HasLast'
         /\ SeqIsDense'
         /\ \A run \in Runs : run # e.run => RowsOf(table', run) = RowsOf(table, run)
         /\ NextSeqIn(RowsOf(table', e.run)) \in Nat
         /\ NextSeqIn(RowsOf(table, e.run)) <= NextSeqIn(RowsOf(table', e.run))
<1> DEFINE n == NextSeqIn(RowsOf(table, e.run))
           new == RowFor(e, n)
<1>1. /\ e.run \in Runs /\ n \in Nat
      /\ \A r \in RowsOf(table, e.run) : r.seq < n
      /\ (RowsOf(table, e.run) = {} /\ n = 0) \/ \E r \in RowsOf(table, e.run) : n = r.seq + 1
  BY NextSeqOfRun DEF Entry
<1>2. new \in Record /\ \A r \in table : ~Clash(r, new)
  BY NewRowFits
<1>3. new.run = e.run /\ new.seq = n
  BY DEF RowFor
<1>4. table' = table \cup {new}
  OBVIOUS
<1> HIDE DEF n, new
<1>5. table' \subseteq Record
  BY <1>2, <1>4
<1>6. \A run \in Runs : run # e.run => RowsOf(table', run) = RowsOf(table, run)
  BY <1>3, <1>4 DEF RowsOf
<1>7. RowsOf(table', e.run) = RowsOf(table, e.run) \cup {new}
  BY <1>3, <1>4 DEF RowsOf
<1>8. \A q \in RowsOf(table', e.run) : q.seq <= new.seq
  <2> SUFFICES ASSUME NEW q \in RowsOf(table', e.run) PROVE q.seq <= new.seq
    OBVIOUS
  <2>1. CASE q = new
    BY <1>1, <1>3, <2>1
  <2>2. CASE q \in RowsOf(table, e.run)
    <3>1. q.seq \in Nat /\ q.seq < n
      BY <1>1, <2>2 DEF RowsOf, Record
    <3> QED BY <1>1, <1>3, <3>1
  <2> QED BY <1>7, <2>1, <2>2
<1>9. HasLast'
  <2> SUFFICES ASSUME NEW run \in Runs, RowsOf(table', run) # {}
               PROVE  \E r \in RowsOf(table', run) : \A q \in RowsOf(table', run) : q.seq <= r.seq
    BY DEF HasLast
  <2>1. CASE run = e.run
    BY <1>7, <1>8, <2>1
  <2>2. CASE run # e.run
    BY <1>6, <2>2 DEF HasLast
  <2> QED BY <2>1, <2>2
<1>10. SeqIsDense'
  <2>1. ASSUME NEW r \in table', NEW q \in table', Clash(r, q) PROVE r = q
    <3>1. CASE r \in table /\ q \in table
      BY <2>1, <3>1 DEF SeqIsDense
    <3>2. CASE r = new \/ q = new
      BY <1>2, <1>4, <2>1, <3>2 DEF Clash, SameKey, SameSeq
    <3> QED BY <1>4, <3>1, <3>2
  <2>2. ASSUME NEW r \in table', NEW i \in 0 .. r.seq
        PROVE  \E q \in table' : q.run = r.run /\ q.seq = i
    <3>1. CASE r \in table
      BY <1>4, <3>1 DEF SeqIsDense
    <3>2. CASE r = new /\ i = n
      BY <1>3, <1>4, <3>2
    <3>3. CASE r = new /\ i # n
      <4>1. i \in Int /\ 0 <= i /\ i < n
        BY <1>1, <1>3, <3>3
      <4>2. PICK m \in RowsOf(table, e.run) : n = m.seq + 1
        BY <1>1, <4>1
      <4>3. m \in table /\ m.run = e.run /\ m.seq \in Nat
        BY DEF RowsOf, Record
      <4>4. i \in 0 .. m.seq
        BY <4>1, <4>2, <4>3
      <4> QED BY <1>3, <1>4, <3>3, <4>3, <4>4 DEF SeqIsDense
    <3> QED BY <1>4, <3>1, <3>2, <3>3
  <2> QED BY <2>1, <2>2 DEF SeqIsDense
<1>11. /\ NextSeqIn(RowsOf(table', e.run)) \in Nat
       /\ new.seq < NextSeqIn(RowsOf(table', e.run))
  <2>1. RowsOf(table', e.run) \in SUBSET Record
    BY <1>5 DEF RowsOf
  <2>2. \E r \in RowsOf(table', e.run) : \A q \in RowsOf(table', e.run) : q.seq <= r.seq
    BY <1>7, <1>8
  <2> QED BY <1>7, <2>1, <2>2, NextSeqIsNext
<1>12. n <= NextSeqIn(RowsOf(table', e.run))
  BY <1>1, <1>3, <1>11
<1> QED BY <1>5, <1>6, <1>9, <1>10, <1>11, <1>12 DEF n

-----------------------------------------------------------------------------
(* Transactions. *)

\* Two open transactions are on different runs.
LEMMA Serialised ==
  ASSUME IInv, NEW a \in Appends, NEW b \in Appends, InTransaction(a), InTransaction(b),
         entry[a].run = entry[b].run
  PROVE  a = b
BY DEF IInv, LockIsHeld, LockFor

\* The end of a transaction leaves the locks to the others.
LEMMA UnlockKeepsLocks ==
  ASSUME IInv, NEW a \in Appends, Unlock(a), UNCHANGED entry,
         pc' = [pc EXCEPT ![a] = "done"]
  PROVE  LockIsHeld' /\ holder' \in [Locks -> Appends \cup {Nobody}]
<1>1. holder' \in [Locks -> Appends \cup {Nobody}]
  BY DEF IInv, TypeOK, Unlock
<1>2. ASSUME NEW b \in Appends, InTransaction(b)' PROVE holder'[LockFor(b)'] = b
  <2>1. b # a /\ InTransaction(b) /\ pc[b] # "idle"
    BY <1>2 DEF IInv, TypeOK, InTransaction
  <2>2. LockFor(b)' = LockFor(b) /\ LockFor(b) \in Locks
    BY <2>1 DEF IInv, Begun, LockFor, Locks, Entry
  <2>3. holder[LockFor(b)] = b
    BY <2>1 DEF IInv, LockIsHeld
  <2> QED BY <2>1, <2>2, <2>3 DEF Unlock
<1>3. ASSUME NEW l \in Locks, holder'[l] # Nobody 
      PROVE  pc'[holder'[l]] \in {"select", "insert", "index", "inserted", "duplicate"}
  <2>1. holder'[l] = holder[l] /\ holder[l] # a /\ holder[l] \in Appends
    BY <1>1, <1>3 DEF Unlock
  <2>2. InTransaction(holder[l])
    BY <1>3, <2>1 DEF IInv, LockIsHeld
  <2> QED BY <2>1, <2>2 DEF IInv, TypeOK, InTransaction
<1> QED BY <1>1, <1>2, <1>3 DEF LockIsHeld, InTransaction, LockFor

\* The row of a transaction reaches the journal: it comes last in its run, the
\* journal stays dense, and what others have read stays so.
LEMMA RowCommitted ==
  ASSUME IInv, NEW a \in Appends, pc[a] = "inserted", table' = table \cup tuple[a],
         pc' = [pc EXCEPT ![a] = "done"], UNCHANGED <<entry, tuple, view>>
  PROVE  /\ table' \subseteq Record /\ HasLast' /\ SeqIsDense' /\ ReadIsCurrent'
         /\ ViewIsOld' /\ LoadedIsPrefix'
         /\ \A new \in tuple[a] : \A old \in RowsOf(table, new.run) : old.seq < new.seq
<1> DEFINE e == entry[a]
           n == NextSeqIn(RowsOf(table, e.run))
           new == RowFor(e, n)
<1>1. e \in Entry /\ e.run \in Runs /\ InTransaction(a) /\ table \subseteq Record
  BY DEF IInv, TypeOK, Begun, InTransaction, Entry
<1>2. tuple[a] = {new} /\ \A r \in table : ~SameKey(r, e)
  BY DEF IInv, ReadIsCurrent
<1>3. /\ table' \subseteq Record /\ HasLast' /\ SeqIsDense'
      /\ \A run \in Runs : run # e.run => RowsOf(table', run) = RowsOf(table, run)
      /\ NextSeqIn(RowsOf(table', e.run)) \in Nat
      /\ n <= NextSeqIn(RowsOf(table', e.run))
  BY <1>1, <1>2, RowAdded DEF IInv
<1>4. n \in Nat /\ \A r \in RowsOf(table, e.run) : r.seq < n
  BY <1>1, NextSeqOfRun DEF IInv
<1>5. new.run = e.run /\ new.seq = n
  BY DEF RowFor
<1> HIDE DEF n, new
<1>6. ReadIsCurrent'
  <2> SUFFICES ASSUME NEW b \in Appends, pc'[b] \in {"insert", "index", "inserted", "duplicate"}
               PROVE  /\ pc'[b] \in {"insert", "index", "inserted"} =>
                             \A r \in table' : ~SameKey(r, entry[b])
                      /\ pc'[b] \in {"index", "inserted"} =>
                             tuple[b] = {RowFor(entry[b], NextSeqIn(RowsOf(table', entry[b].run)))}
                      /\ pc'[b] = "duplicate" =>
                             /\ tuple[b] # {}
                             /\ \A r \in tuple[b] : r \in table' /\ SameKey(r, entry[b])
    BY DEF ReadIsCurrent
  <2>1. b # a /\ pc[b] = pc'[b] /\ InTransaction(b)
    BY DEF IInv, TypeOK, InTransaction
  <2>2. entry[b].run \in Runs /\ entry[b].run # e.run
    BY <1>1, <2>1, Serialised DEF IInv, Begun, Entry
  <2>3. RowsOf(table', entry[b].run) = RowsOf(table, entry[b].run)
    BY <1>3, <2>2
  <2>4. ~SameKey(new, entry[b])
    BY <1>5, <2>2 DEF SameKey
  <2> QED BY <1>2, <2>1, <2>3, <2>4 DEF IInv, ReadIsCurrent
<1>7. ViewIsOld'
  <2> SUFFICES ASSUME view # NoView
               PROVE  /\ view.run \in Runs /\ view.nextSeq \in Nat
                      /\ view.nextSeq <= NextSeqIn(RowsOf(table', view.run))
    BY DEF ViewIsOld, NoView
  <2>1. /\ view.run \in Runs /\ view.nextSeq \in Nat
        /\ view.nextSeq <= NextSeqIn(RowsOf(table, view.run))
    BY DEF IInv, ViewIsOld
  <2>2. CASE view.run = e.run
    BY <1>3, <1>4, <2>1, <2>2 DEF n
  <2>3. CASE view.run # e.run
    BY <1>3, <2>1, <2>3
  <2> QED BY <2>1, <2>2, <2>3
<1>8. LoadedIsPrefix'
  <2> SUFFICES ASSUME view # NoView
               PROVE  view.known = {r \in RowsOf(table', view.run) : r.seq < view.nextSeq}
    BY DEF IInv, LoadedIsPrefix, NoView
  <2>1. /\ view.run \in Runs /\ view.nextSeq \in Nat
        /\ view.nextSeq <= NextSeqIn(RowsOf(table, view.run))
        /\ view.known = {r \in RowsOf(table, view.run) : r.seq < view.nextSeq}
    BY DEF IInv, ViewIsOld, LoadedIsPrefix
  <2>2. CASE view.run # e.run
    BY <1>3, <2>1, <2>2
  <2>3. CASE view.run = e.run
    <3>1. RowsOf(table', view.run) = RowsOf(table, view.run) \cup {new}
      BY <1>2, <1>5, <2>3 DEF RowsOf
    <3>2. ~(new.seq < view.nextSeq)
      BY <1>4, <1>5, <2>1, <2>3 DEF n
    <3> QED BY <2>1, <3>1, <3>2
  <2> QED BY <2>2, <2>3
<1> QED BY <1>2, <1>3, <1>4, <1>5, <1>6, <1>7, <1>8

-----------------------------------------------------------------------------
(* What each step does to the invariant. *)

\* A step that leaves the table alone leaves what is said of it alone.
LEMMA TableUnchanged ==
  ASSUME IInv, UNCHANGED <<table, view>>
  PROVE  HasLast' /\ SeqIsDense' /\ ViewIsOld' /\ LoadedIsPrefix'
BY DEF IInv, HasLast, SeqIsDense, ViewIsOld, LoadedIsPrefix, NoView

\* An append begins: it holds nothing and has read nothing.
LEMMA BeginPreserves ==
  ASSUME IInv, NEW a \in Appends, NEW e \in Entry, Begin(a, e)
  PROVE  IInv'
<1>1. TypeOK' /\ Begun'
  BY DEF IInv, TypeOK, Begun, Begin, Goto, Locations
<1>2. LockIsHeld'
  <2>1. \A b \in Appends : InTransaction(b)' <=> InTransaction(b)
    BY DEF IInv, TypeOK, InTransaction, Begin, Goto
  <2>2. \A b \in Appends : InTransaction(b) => LockFor(b)' = LockFor(b)
    BY DEF IInv, TypeOK, InTransaction, LockFor, Begin, Goto
  <2>3. \A l \in Locks : holder'[l] = holder[l] /\ holder[l] \in Appends \cup {Nobody}
    BY DEF IInv, TypeOK, Begin
  <2> QED BY <2>1, <2>2, <2>3 DEF IInv, LockIsHeld, Begin
<1>3. ReadIsCurrent'
  BY DEF IInv, TypeOK, ReadIsCurrent, Begin, Goto
<1>4. NoAppendConflicts' /\ AcknowledgedIsDurable'
  BY DEF IInv, TypeOK, Begun, NoAppendConflicts, AcknowledgedIsDurable, Begin, Goto
<1> QED BY <1>1, <1>2, <1>3, <1>4, TableUnchanged DEF IInv, Begin

\* The advisory lock is free and is taken.
LEMMA LockPreserves ==
  ASSUME IInv, NEW a \in Appends, Lock(a)
  PROVE  IInv'
<1>1. LockFor(a) \in Locks
  BY DEF IInv, Begun, LockFor, Locks, Entry, Lock, Goto
<1>2. TypeOK' /\ Begun'
  BY <1>1 DEF IInv, TypeOK, Begun, Lock, Goto, Locations
<1>3. LockIsHeld'
  BY <1>1, NobodyAssumption DEF IInv, TypeOK, LockIsHeld, InTransaction, LockFor, Lock, Goto
<1>4. ReadIsCurrent'
  BY DEF IInv, TypeOK, ReadIsCurrent, Lock, Goto
<1>5. NoAppendConflicts' /\ AcknowledgedIsDurable'
  BY DEF IInv, NoAppendConflicts, AcknowledgedIsDurable, Lock
<1> QED BY <1>2, <1>3, <1>4, <1>5, TableUnchanged DEF IInv, Lock

\* The transaction looks for its key.
LEMMA SelectExistingPreserves ==
  ASSUME IInv, NEW a \in Appends, SelectExisting(a)
  PROVE  IInv'
<1>1. TypeOK' /\ Begun'
  BY DEF IInv, TypeOK, Begun, SelectExisting, Goto, Locations
<1>2. LockIsHeld'
  <2>1. \A b \in Appends : (InTransaction(b)' <=> InTransaction(b)) /\ LockFor(b)' = LockFor(b)
    BY DEF IInv, TypeOK, InTransaction, LockFor, SelectExisting, Goto
  <2>2. \A l \in Locks : holder'[l] = holder[l] /\ holder[l] \in Appends \cup {Nobody}
    BY DEF IInv, TypeOK, SelectExisting
  <2> QED BY <2>1, <2>2 DEF IInv, LockIsHeld, SelectExisting
<1>3. ReadIsCurrent'
  BY DEF IInv, TypeOK, ReadIsCurrent, SelectExisting, Goto
<1>4. NoAppendConflicts' /\ AcknowledgedIsDurable'
  BY DEF IInv, NoAppendConflicts, AcknowledgedIsDurable, SelectExisting
<1> QED BY <1>1, <1>2, <1>3, <1>4, TableUnchanged DEF IInv, SelectExisting

\* The INSERT computes its row.
LEMMA InsertPreserves ==
  ASSUME IInv, NEW a \in Appends, Insert(a)
  PROVE  IInv'
<1> DEFINE new == RowFor(entry[a], NextSeqIn(RowsOf(table, entry[a].run)))
<1>1. /\ pc[a] = "insert" /\ entry[a] \in Entry
      /\ \A r \in table : ~SameKey(r, entry[a])
  BY DEF IInv, Begun, ReadIsCurrent, Insert, Goto
<1>2. new \in Record
  BY <1>1, NewRowFits DEF IInv, TypeOK
<1>3. /\ pc' = [pc EXCEPT ![a] = "index"] /\ tuple' = [tuple EXCEPT ![a] = {new}]
      /\ UNCHANGED <<table, holder, entry, answer, view>>
  BY DEF Insert, Goto
<1> HIDE DEF new
<1>4. TypeOK' /\ Begun'
  BY <1>1, <1>2, <1>3 DEF IInv, TypeOK, Begun, Locations
<1>5. LockIsHeld'
  <2>1. \A b \in Appends : (InTransaction(b)' <=> InTransaction(b)) /\ LockFor(b)' = LockFor(b)
    BY <1>1, <1>3 DEF IInv, TypeOK, InTransaction, LockFor
  <2>2. \A l \in Locks : holder'[l] = holder[l] /\ holder[l] \in Appends \cup {Nobody}
    BY <1>3 DEF IInv, TypeOK
  <2> QED BY <1>3, <2>1, <2>2 DEF IInv, LockIsHeld
<1>6. ReadIsCurrent'
  BY <1>1, <1>3 DEF IInv, TypeOK, ReadIsCurrent, new
<1>7. NoAppendConflicts' /\ AcknowledgedIsDurable'
  BY <1>3 DEF IInv, NoAppendConflicts, AcknowledgedIsDurable
<1> QED BY <1>3, <1>4, <1>5, <1>6, <1>7, TableUnchanged DEF IInv

\* The row goes into the indexes: it clashes with none of the table, for the lock has
\* kept what the statement's snapshot saw.
LEMMA IndexPreserves ==
  ASSUME IInv, NEW a \in Appends, Index(a)
  PROVE  IInv'
<1> DEFINE new == RowFor(entry[a], NextSeqIn(RowsOf(table, entry[a].run)))
<1>1. /\ pc[a] = "index" /\ entry[a] \in Entry /\ tuple[a] = {new}
      /\ \A r \in table : ~SameKey(r, entry[a])
  BY DEF IInv, Begun, ReadIsCurrent, Index, Goto
<1>2. \A r \in table : ~Clash(r, new)
  BY <1>1, NewRowFits DEF IInv, TypeOK
<1> HIDE DEF new
<1>3. pc' = [pc EXCEPT ![a] = "inserted"] /\ UNCHANGED <<table, holder, entry, tuple, answer, view>>
  BY <1>1, <1>2 DEF Index, Goto
<1>4. TypeOK' /\ Begun'
  BY <1>1, <1>3 DEF IInv, TypeOK, Begun, Locations
<1>5. LockIsHeld'
  <2>1. \A b \in Appends : (InTransaction(b)' <=> InTransaction(b)) /\ LockFor(b)' = LockFor(b)
    BY <1>1, <1>3 DEF IInv, TypeOK, InTransaction, LockFor
  <2>2. \A l \in Locks : holder'[l] = holder[l] /\ holder[l] \in Appends \cup {Nobody}
    BY <1>3 DEF IInv, TypeOK
  <2> QED BY <1>3, <2>1, <2>2 DEF IInv, LockIsHeld
<1>6. ReadIsCurrent'
  BY <1>1, <1>3 DEF IInv, TypeOK, ReadIsCurrent
<1>7. NoAppendConflicts' /\ AcknowledgedIsDurable'
  BY <1>3 DEF IInv, NoAppendConflicts, AcknowledgedIsDurable
<1> QED BY <1>3, <1>4, <1>5, <1>6, <1>7, TableUnchanged DEF IInv

\* The commit of a new row, and its answer.
LEMMA CommitPreserves ==
  ASSUME IInv, NEW a \in Appends, Commit(a)
  PROVE  IInv'
<1>1. PICK r \in tuple[a] :
          answer' = [answer EXCEPT ![a] =
              [kind |-> "ok", seq |-> r.seq, duplicate |-> FALSE, diverged |-> FALSE]]
  BY DEF Commit, Finish
<1>2. /\ pc[a] = "inserted" /\ pc' = [pc EXCEPT ![a] = "done"]
      /\ table' = table \cup tuple[a] /\ Unlock(a) /\ UNCHANGED <<entry, tuple, view>>
  BY DEF Commit, Goto
<1>3. r \in Record /\ r \in table' /\ SameKey(r, entry[a]) /\ r.payload = entry[a].payload
  BY <1>2 DEF IInv, TypeOK, ReadIsCurrent, RowFor, SameKey
<1>4. /\ table' \subseteq Record /\ HasLast' /\ SeqIsDense' /\ ReadIsCurrent'
      /\ ViewIsOld' /\ LoadedIsPrefix'
  BY <1>2, RowCommitted
<1>5. LockIsHeld' /\ holder' \in [Locks -> Appends \cup {Nobody}]
  BY <1>2, UnlockKeepsLocks
<1>6. TypeOK' /\ Begun'
  <2>1. answer' \in [Appends -> Answers]
    BY <1>1, <1>3 DEF IInv, TypeOK, Answers, Record
  <2>2. Begun'
    BY <1>1, <1>2 DEF IInv, TypeOK, Begun
  <2> QED BY <1>2, <1>4, <1>5, <2>1, <2>2 DEF IInv, TypeOK, Locations
<1>7. NoAppendConflicts'
  BY <1>1 DEF IInv, TypeOK, NoAppendConflicts
<1>8. AcknowledgedIsDurable'
  BY <1>1, <1>2, <1>3 DEF IInv, TypeOK, AcknowledgedIsDurable, SameKey
<1> QED BY <1>4, <1>5, <1>6, <1>7, <1>8 DEF IInv

\* The key was there: the first write is named and compared.
LEMMA CommitDuplicatePreserves ==
  ASSUME IInv, NEW a \in Appends, CommitDuplicate(a)
  PROVE  IInv'
<1>1. PICK r \in tuple[a] :
          answer' = [answer EXCEPT ![a] =
              [kind |-> "ok", seq |-> r.seq, duplicate |-> TRUE,
               diverged |-> r.payload # entry[a].payload]]
  BY DEF CommitDuplicate, Finish
<1>2. /\ pc[a] = "duplicate" /\ pc' = [pc EXCEPT ![a] = "done"]
      /\ Unlock(a) /\ UNCHANGED <<table, entry, tuple, view>>
  BY DEF CommitDuplicate, Goto
<1>3. r \in Record /\ r \in table /\ SameKey(r, entry[a])
  BY <1>2 DEF IInv, TypeOK, ReadIsCurrent
<1>4. LockIsHeld' /\ holder' \in [Locks -> Appends \cup {Nobody}]
  BY <1>2, UnlockKeepsLocks
<1>5. TypeOK' /\ Begun'
  <2>1. answer' \in [Appends -> Answers]
    BY <1>1, <1>3 DEF IInv, TypeOK, Answers, Record
  <2>2. Begun'
    BY <1>1, <1>2 DEF IInv, TypeOK, Begun
  <2> QED BY <1>2, <1>4, <2>1, <2>2 DEF IInv, TypeOK, Locations
<1>6. ReadIsCurrent'
  BY <1>2 DEF IInv, TypeOK, ReadIsCurrent
<1>7. NoAppendConflicts'
  BY <1>1 DEF IInv, TypeOK, NoAppendConflicts
<1>8. AcknowledgedIsDurable'
  <2> SUFFICES ASSUME NEW b \in Appends, answer'[b].kind = "ok"
               PROVE  \E q \in table : /\ SameKey(q, entry[b])
                                       /\ q.seq = answer'[b].seq
                                       /\ answer'[b].diverged <=> q.payload # entry[b].payload
    BY <1>2 DEF AcknowledgedIsDurable, SameKey
  <2>1. CASE b = a
    <3>1. /\ answer'[b].seq = r.seq
          /\ answer'[b].diverged = (r.payload # entry[b].payload)
      BY <1>1, <2>1 DEF IInv, TypeOK
    <3> QED BY <1>3, <2>1, <3>1
  <2>2. CASE b # a
    BY <1>1, <2>2 DEF IInv, TypeOK, AcknowledgedIsDurable
  <2> QED BY <2>1, <2>2
<1> QED BY <1>2, <1>4, <1>5, <1>6, <1>7, <1>8, TableUnchanged DEF IInv

\* A failure: the row is in the journal or it is not, and nobody is told.
LEMMA FailPreserves ==
  ASSUME IInv, NEW a \in Appends, Fail(a)
  PROVE  IInv'
<1>1. /\ pc[a] # "idle" /\ pc' = [pc EXCEPT ![a] = "done"]
      /\ answer' = [answer EXCEPT ![a] = Failure("error")]
      /\ Unlock(a) /\ UNCHANGED <<entry, tuple, view>>
  BY DEF Fail, Finish
<1>2. /\ table \subseteq table' /\ table' \subseteq Record
      /\ HasLast' /\ SeqIsDense' /\ ReadIsCurrent' /\ ViewIsOld' /\ LoadedIsPrefix'
  <2>1. CASE UNCHANGED table
    <3>1. ReadIsCurrent'
      BY <1>1, <2>1 DEF IInv, TypeOK, ReadIsCurrent
    <3> QED BY <1>1, <2>1, <3>1, TableUnchanged DEF IInv, TypeOK
  <2>2. CASE pc[a] = "inserted" /\ table' = table \cup tuple[a]
    BY <1>1, <2>2, RowCommitted
  <2> QED BY <2>1, <2>2 DEF Fail
<1>3. LockIsHeld' /\ holder' \in [Locks -> Appends \cup {Nobody}]
  BY <1>1, UnlockKeepsLocks
<1>4. TypeOK' /\ Begun'
  <2>1. answer' \in [Appends -> Answers]
    BY <1>1 DEF IInv, TypeOK, Answers, Failure
  <2> QED BY <1>1, <1>2, <1>3, <2>1 DEF IInv, TypeOK, Begun, Locations
<1>5. NoAppendConflicts'
  BY <1>1 DEF IInv, TypeOK, NoAppendConflicts, Failure
<1>6. AcknowledgedIsDurable'
  BY <1>1, <1>2 DEF IInv, TypeOK, AcknowledgedIsDurable, Failure
<1> QED BY <1>2, <1>3, <1>4, <1>5, <1>6 DEF IInv

\* A Load reads all of its run: its position is the next one at that moment.
LEMMA LoadPreserves ==
  ASSUME IInv, NEW run \in Runs, NEW sub \in SubRuns, Load(run, sub)
  PROVE  IInv'
<1> DEFINE rows == RowsOf(table, run)
<1>1. /\ view' = [run |-> run, sub |-> sub, records |-> {r \in rows : r.sub = sub},
                  nextSeq |-> NextSeqIn(rows), known |-> rows]
      /\ UNCHANGED <<table, holder, pc, entry, tuple, answer>>
  BY DEF Load
<1>2. NextSeqIn(rows) \in Nat /\ \A r \in rows : r.seq < NextSeqIn(rows)
  BY NextSeqOfRun DEF IInv, TypeOK
<1>3. TypeOK' /\ Begun' /\ NoAppendConflicts' /\ AcknowledgedIsDurable'
  BY <1>1 DEF IInv, TypeOK, Begun, NoAppendConflicts, AcknowledgedIsDurable
<1>4. LockIsHeld' /\ ReadIsCurrent' /\ HasLast' /\ SeqIsDense'
  BY <1>1 DEF IInv, LockIsHeld, InTransaction, LockFor, ReadIsCurrent, HasLast, SeqIsDense
<1>5. ViewIsOld'
  BY <1>1, <1>2 DEF ViewIsOld
<1>6. LoadedIsPrefix'
  <2>1. rows = {r \in rows : r.seq < NextSeqIn(rows)}
    BY <1>2
  <2> QED BY <1>1, <2>1 DEF LoadedIsPrefix
<1> QED BY <1>3, <1>4, <1>5, <1>6 DEF IInv

-----------------------------------------------------------------------------
(* The theorems. *)

\* The invariant holds in the empty journal.
LEMMA InitEstablishes == Init => IInv
<1> SUFFICES ASSUME Init PROVE IInv
  OBVIOUS
<1>1. TypeOK /\ Begun
  BY DEF Init, TypeOK, Begun, Locations, Answers, Failure
<1>2. LockIsHeld
  BY DEF Init, LockIsHeld, InTransaction
<1>3. HasLast /\ SeqIsDense
  BY DEF Init, HasLast, SeqIsDense, RowsOf
<1>4. ReadIsCurrent /\ NoAppendConflicts /\ AcknowledgedIsDurable
  BY DEF Init, ReadIsCurrent, NoAppendConflicts, AcknowledgedIsDurable, Failure
<1>5. ViewIsOld /\ LoadedIsPrefix
  BY DEF Init, ViewIsOld, LoadedIsPrefix
<1> QED BY <1>1, <1>2, <1>3, <1>4, <1>5 DEF IInv

\* Every step of the journal preserves the invariant.
LEMMA NextPreserves == IInv /\ [Next]_vars => IInv'
<1> SUFFICES ASSUME IInv, [Next]_vars PROVE IInv'
  OBVIOUS
<1>1. CASE UNCHANGED vars
  <2>1. TypeOK' /\ Begun' /\ ReadIsCurrent' /\ NoAppendConflicts' /\ AcknowledgedIsDurable'
    BY <1>1 DEF vars, IInv, TypeOK, Begun, ReadIsCurrent, NoAppendConflicts,
       AcknowledgedIsDurable
  <2>2. LockIsHeld'
    BY <1>1 DEF vars, IInv, LockIsHeld, InTransaction, LockFor
  <2> QED BY <1>1, <2>1, <2>2, TableUnchanged DEF vars, IInv
<1>2. ASSUME NEW a \in Appends, NEW e \in Entry, Begin(a, e) PROVE IInv'
  BY <1>2, BeginPreserves
<1>3. ASSUME NEW a \in Appends, Step(a) PROVE IInv'
  BY <1>3, LockPreserves, SelectExistingPreserves, InsertPreserves, IndexPreserves, CommitPreserves,
     CommitDuplicatePreserves DEF Step
<1>4. ASSUME NEW a \in Appends, Fail(a) PROVE IInv'
  BY <1>4, FailPreserves
<1>5. ASSUME NEW run \in Runs, NEW sub \in SubRuns, Load(run, sub) PROVE IInv'
  BY <1>5, LoadPreserves
<1> QED BY <1>1, <1>2, <1>3, <1>4, <1>5 DEF Next, Finished

\* IInv is an invariant of the journal (go/internal/store/checkpointer.go), for
\* any number of concurrent appends and any failures of their statements.
THEOREM Invariance == Spec => []IInv
<1>1. Init => IInv
  BY InitEstablishes
<1>2. IInv /\ [Next]_vars => IInv'
  BY NextPreserves
<1> QED BY <1>1, <1>2, PTL DEF Spec

\* Type correctness of the journal.
THEOREM TypeCorrect == Spec => []TypeOK
<1>1. IInv => TypeOK
  BY DEF IInv
<1> QED BY <1>1, Invariance, PTL

\* The advisory lock of a run is held by the one append that is past it, and is
\* never left behind (Append, the pg_advisory_xact_lock statement).
THEOREM AppendsAreSerialised == Spec => []LockIsHeld
<1>1. IInv => LockIsHeld
  BY DEF IInv
<1> QED BY <1>1, Invariance, PTL

\* No INSERT of Append loses to the table's constraints, although it reads the last
\* position in one step and claims the next one in another: the advisory lock keeps it.
THEOREM AppendsDoNotConflict == Spec => []NoAppendConflicts
<1>1. IInv => NoAppendConflicts
  BY DEF IInv
<1> QED BY <1>1, Invariance, PTL

\* A run's positions are 0, 1, ... without gaps or repetitions.
THEOREM PositionsAreDense == Spec => []SeqIsDense
<1>1. IInv => SeqIsDense
  BY DEF IInv
<1> QED BY <1>1, Invariance, PTL

\* What Append acknowledged is in the journal, under the caller's key, and
\* diverged says whether the payload is the caller's.
THEOREM AcknowledgedRowsAreDurable == Spec => []AcknowledgedIsDurable
<1>1. IInv => AcknowledgedIsDurable
  BY DEF IInv
<1> QED BY <1>1, Invariance, PTL

\* A loaded RunState stays a prefix of its run's journal.
THEOREM LoadedStatesArePrefixes == Spec => []LoadedIsPrefix
<1>1. IInv => LoadedIsPrefix
  BY DEF IInv
<1> QED BY <1>1, Invariance, PTL

\* The journal only grows, and only at its end: no Append, failed or not, changes
\* a row or puts one before a row of the same run.
THEOREM JournalIsAppendOnly == Spec => AppendOnly
<1>1. IInv /\ [Next]_vars =>
        [/\ table \subseteq table'
         /\ \A new \in table' \ table :
                \A old \in RowsOf(table, new.run) : old.seq < new.seq]_vars
  <2> SUFFICES ASSUME IInv, Next
               PROVE  /\ table \subseteq table'
                      /\ \A new \in table' \ table :
                             \A old \in RowsOf(table, new.run) : old.seq < new.seq
    OBVIOUS
  <2>1. CASE UNCHANGED table
    BY <2>1
  <2>2. ASSUME NEW a \in Appends, pc[a] = "inserted", table' = table \cup tuple[a],
               pc' = [pc EXCEPT ![a] = "done"], UNCHANGED <<entry, tuple, view>>
        PROVE  \A new \in tuple[a] : \A old \in RowsOf(table, new.run) : old.seq < new.seq
    BY <2>2, RowCommitted
  <2>3. \/ UNCHANGED table
        \/ \E a \in Appends :
               /\ pc[a] = "inserted" /\ table' = table \cup tuple[a]
               /\ pc' = [pc EXCEPT ![a] = "done"] /\ UNCHANGED <<entry, tuple, view>>
    BY DEF Next, Begin, Step, Lock, SelectExisting, Insert, Index, Commit, CommitDuplicate, Fail,
       Load, Finished, vars, Goto
  <2> QED BY <2>1, <2>2, <2>3
<1> QED BY <1>1, Invariance, PTL DEF Spec, AppendOnly

-----------------------------------------------------------------------------
(* A run on the journal: its inductive invariant. *)

\* What an entry, or a row, says of its step is so.  A refusal that the gateway
\* recorded carries the root's sub-run.
IsTrue(e) ==
    /\ e.run = Run /\ e.sub \in SubRuns /\ e.step \in Steps
    /\ \/ e.phase = "attempted" /\ e.payload = "intent"
       \/ e.phase = "completed" /\ e.payload = "result" /\ <<e.sub, e.step>> \in landed
       \/ /\ e.phase = "completed" /\ e.payload = "denied"
          /\ \E s \in refused : s[2] = e.step /\ e.sub \in {s[1], Root}

\* Every entry that is on its way to the journal, and every row of it, is true.
TellsTheTruth ==
    /\ \A a \in Appends : pc[a] # "idle" => IsTrue(entry[a])
    /\ \A r \in table : IsTrue(r)

\* Whether the intent of a step is in the journal.
IntentIsThere(s) == HasRecord(RowsOf(table, Run), s[1], s[2], "attempted")

\* Where the loop stands: it waits for its own intent; past it the intent is
\* there; and it has a result, or a refusal, to record.
KnowsWhere ==
    /\ landed \subseteq RunSteps /\ refused \subseteq RunSteps
    /\ DOMAIN loop = RunSteps /\ DOMAIN using = RunSteps
    /\ \A s \in RunSteps :
        /\ loop[s] = "intent_sent" =>
            /\ using[s] \in Appends /\ pc[using[s]] # "idle"
            /\ entry[using[s]] = EntryFor(s[1], s[2], "attempted", "intent")
        /\ loop[s] \in {"call", "result", "denied", "unrecorded", "result_sent"} => IntentIsThere(s)
        /\ loop[s] = "result" => s \in landed
        /\ loop[s] \in {"denied", "unrecorded"} => s \in refused
        /\ loop[s] = "result_sent" => s \in landed \cup refused
        /\ s \in landed => IntentIsThere(s) /\ loop[s] \notin {"intent", "intent_sent"}

\* The inductive invariant: that of the journal, the truth of what is written, and
\* what the loop knows at each of its places.
RunInv == IInv /\ TellsTheTruth /\ KnowsWhere

-----------------------------------------------------------------------------
(* The run and the journal. *)

\* The loop and the gateway append entries of their run.
LEMMA EntriesAreEntries ==
  ASSUME NEW sub \in SubRuns, NEW step \in Steps, NEW phase \in Phases, NEW payload \in Payloads
  PROVE  EntryFor(sub, step, phase, payload) \in Entry
  BY RunAssumption DEF EntryFor, Entry

\* A step of a run is a step of its journal, or none.
LEMMA StepIsJournalStep == [RunNext]_runVars => [Next]_vars
<1> SUFFICES ASSUME [RunNext]_runVars PROVE [Next]_vars
  OBVIOUS
<1>1. CASE UNCHANGED runVars
  BY <1>1 DEF runVars, vars
<1>2. ASSUME NEW s \in RunSteps, LoopStep(s) \/ LoopCrash(s) \/ Reload(s) PROVE [Next]_vars
  <2>1. s[1] \in SubRuns /\ s[2] \in Steps /\ Root \in SubRuns
    BY RunAssumption DEF RunSteps
  <2>2. ASSUME NEW a \in Appends, NEW sub \in SubRuns, NEW phase \in Phases, NEW payload \in Payloads,
               Begin(a, EntryFor(sub, s[2], phase, payload))
        PROVE  Next
    BY <2>1, <2>2, EntriesAreEntries DEF Next
  <2>3. {"attempted", "completed"} \subseteq Phases /\ {"intent", "result", "denied"} \subseteq Payloads
    BY PayloadsAssumption DEF Phases
  <2>4. CASE JournalIntent(s) \/ JournalResult(s) \/ JournalRefusal(s)
    BY <2>1, <2>2, <2>3, <2>4 DEF JournalIntent, JournalResult, JournalRefusal, Journal
  <2>5. CASE CallDenied(s)
    BY <2>1, <2>2, <2>3, <2>5 DEF CallDenied
  <2>6. CASE UNCHANGED vars
    BY <2>6
  <2>7. CASE Resume(s) \/ IntentAnswered(s) \/ CallAllowed(s) \/ DenialAnswered(s) \/ ResultAnswered(s)
             \/ LoopCrash(s) \/ Reload(s)
    BY <2>6, <2>7 DEF Resume, IntentAnswered, CallAllowed, DenialAnswered,
       ResultAnswered, Acknowledged,
       LoopCrash, Reload
  <2> QED BY <1>2, <2>4, <2>5, <2>7 DEF LoopStep
<1>3. ASSUME NEW a \in Appends, Step(a) \/ Fail(a) PROVE [Next]_vars
  BY <1>3 DEF Next
<1>4. CASE RunDone
  BY <1>4 DEF RunDone, runVars, vars
<1> QED BY <1>1, <1>2, <1>3, <1>4 DEF RunNext

\* The loop and journalDenial use Append as module Checkpointer allows: every
\* behaviour of a run is one of the journal, so that its theorems hold of the run.
THEOREM RunUsesTheJournal == RunSpec => Spec
<1>1. RunInit => Init
  BY DEF RunInit
<1> QED BY <1>1, StepIsJournalStep, PTL DEF RunSpec, Spec

\* A step of an append: what it commits is its own entry.
LEMMA StepCommitsItsEntry ==
  ASSUME IInv, NEW a \in Appends, Step(a) \/ Fail(a)
  PROVE  /\ UNCHANGED entry /\ table \subseteq table' /\ pc[a] # "idle"
         /\ \A b \in Appends : pc'[b] # "idle" => pc[b] # "idle"
         /\ \A r \in table' \ table : \E n : r = RowFor(entry[a], n)
<1> DEFINE new == RowFor(entry[a], NextSeqIn(RowsOf(table, entry[a].run)))
<1>1. pc \in [Appends -> Locations]
  BY DEF IInv, TypeOK
<1>2. UNCHANGED entry /\ pc[a] # "idle"
  BY DEF Step, Lock, SelectExisting, Insert, Index, Commit, CommitDuplicate, Fail, Goto
<1>3. \A b \in Appends : pc'[b] # "idle" => pc[b] # "idle"
  <2>1. \E to : pc' = [pc EXCEPT ![a] = to]
    BY DEF Step, Lock, SelectExisting, Insert, Index, Commit, CommitDuplicate, Fail, Goto
  <2> QED BY <1>1, <1>2, <2>1
<1>4. UNCHANGED table \/ (pc[a] = "inserted" /\ table' = table \cup tuple[a])
  BY DEF Step, Lock, SelectExisting, Insert, Index, Commit, CommitDuplicate, Fail, Goto
<1>5. pc[a] = "inserted" => tuple[a] = {new}
  BY DEF IInv, ReadIsCurrent
<1> QED BY <1>2, <1>3, <1>4, <1>5

\* A row of an entry says what the entry says.
LEMMA RowSaysTheSame ==
  ASSUME NEW e, NEW n, IsTrue(e)
  PROVE  IsTrue(RowFor(e, n))
  BY DEF IsTrue, RowFor

\* What is recorded stays recorded.
LEMMA IntentStays ==
  ASSUME table \subseteq table', NEW s, IntentIsThere(s)
  PROVE  IntentIsThere(s)'
  BY DEF IntentIsThere, HasRecord, RowsOf

-----------------------------------------------------------------------------
(* One step. *)

\* An entry is begun when what it says has happened, and nothing that has happened
\* is undone; a row is committed from an entry.
LEMMA TruthNext == RunInv /\ [RunNext]_runVars => TellsTheTruth'
<1> SUFFICES ASSUME RunInv, [RunNext]_runVars PROVE TellsTheTruth'
  OBVIOUS
<1>0. /\ IInv /\ TellsTheTruth /\ KnowsWhere /\ DOMAIN pc = Appends /\ DOMAIN entry = Appends
      /\ Run \in Runs /\ Root \in SubRuns
  BY RunAssumption DEF RunInv, IInv, TypeOK
\* What has happened stays so.
<1>1. landed \subseteq landed' /\ refused \subseteq refused'
  BY DEF runVars, vars, RunNext, LoopStep, Resume, JournalIntent, JournalResult,
     JournalRefusal, Journal,
     IntentAnswered, ResultAnswered, DenialAnswered, Acknowledged, CallAllowed, CallDenied, LoopCrash, Reload,
     RunDone
<1>2. \A e : IsTrue(e) => IsTrue(e)'
  BY <1>1 DEF IsTrue
<1>3. CASE UNCHANGED vars
  BY <1>0, <1>2, <1>3 DEF vars, TellsTheTruth, IsTrue
<1>4. ASSUME NEW a \in Appends, NEW e, Begin(a, e), IsTrue(e)' PROVE TellsTheTruth'
  <2>1. /\ UNCHANGED table /\ entry'[a] = e /\ pc[a] = "idle"
        /\ \A b \in Appends \ {a} : entry'[b] = entry[b] /\ pc'[b] = pc[b]
    BY <1>0, <1>4 DEF Begin, Goto
  <2>2. \A r \in table' : IsTrue(r)'
    BY <1>0, <1>2, <2>1 DEF TellsTheTruth
  <2>3. ASSUME NEW b \in Appends, pc'[b] # "idle" PROVE IsTrue(entry[b])'
    BY <1>0, <1>2, <1>4, <2>1, <2>3 DEF TellsTheTruth, IsTrue
  <2> QED BY <2>2, <2>3 DEF TellsTheTruth
<1>5. ASSUME NEW a \in Appends, Step(a) \/ Fail(a) PROVE TellsTheTruth'
  <2>1. /\ UNCHANGED entry /\ table \subseteq table' /\ pc[a] # "idle"
        /\ \A b \in Appends : pc'[b] # "idle" => pc[b] # "idle"
        /\ \A r \in table' \ table : \E n : r = RowFor(entry[a], n)
    BY <1>0, <1>5, StepCommitsItsEntry
  <2>2. ASSUME NEW b \in Appends, pc'[b] # "idle" PROVE IsTrue(entry[b])'
    BY <1>0, <1>2, <2>1, <2>2 DEF TellsTheTruth, IsTrue
  <2>3. ASSUME NEW r \in table' PROVE IsTrue(r)
    BY <1>0, <2>1, RowSaysTheSame DEF TellsTheTruth
  <2> QED BY <1>2, <2>2, <2>3 DEF TellsTheTruth
<1>6. ASSUME NEW s \in RunSteps, LoopStep(s) \/ LoopCrash(s) \/ Reload(s)
      PROVE  TellsTheTruth'
  <2>0. s[1] \in SubRuns /\ s[2] \in Steps /\ s = <<s[1], s[2]>>
    BY DEF RunSteps
  <2>1. CASE JournalIntent(s)
    <3>1. PICK a \in Appends : Begin(a, EntryFor(s[1], s[2], "attempted", "intent"))
      BY <2>1 DEF JournalIntent, Journal
    <3>2. IsTrue(EntryFor(s[1], s[2], "attempted", "intent"))'
      BY <2>0 DEF IsTrue, EntryFor
    <3> QED BY <1>4, <3>1, <3>2
  <2>2. CASE JournalResult(s)
    <3>1. PICK a \in Appends : Begin(a, EntryFor(s[1], s[2], "completed", "result"))
      BY <2>2 DEF JournalResult, Journal
    <3>2. s \in landed'
      BY <1>0, <1>1, <2>2 DEF JournalResult, Journal, Moves, KnowsWhere
    <3>3. IsTrue(EntryFor(s[1], s[2], "completed", "result"))'
      BY <2>0, <3>2 DEF IsTrue, EntryFor
    <3> QED BY <1>4, <3>1, <3>3
  <2>3. CASE JournalRefusal(s)
    <3>1. PICK a \in Appends : Begin(a, EntryFor(s[1], s[2], "completed", "denied"))
      BY <2>3 DEF JournalRefusal, Journal
    <3>2. s \in refused'
      BY <1>0, <1>1, <2>3 DEF JournalRefusal, Journal, Moves, KnowsWhere
    <3>3. IsTrue(EntryFor(s[1], s[2], "completed", "denied"))'
      BY <2>0, <3>2 DEF IsTrue, EntryFor
    <3> QED BY <1>4, <3>1, <3>3
  <2>4. CASE CallDenied(s)
    <3>1. PICK a \in Appends : Begin(a, EntryFor(Root, s[2], "completed", "denied"))
      BY <2>4 DEF CallDenied
    <3>2. s \in refused'
      BY <2>4 DEF CallDenied
    <3>3. IsTrue(EntryFor(Root, s[2], "completed", "denied"))'
      BY <1>0, <2>0, <3>2 DEF IsTrue, EntryFor
    <3> QED BY <1>4, <3>1, <3>3
  <2>5. CASE Resume(s) \/ IntentAnswered(s) \/ CallAllowed(s) \/ DenialAnswered(s) \/ ResultAnswered(s)
             \/ LoopCrash(s) \/ Reload(s)
    BY <1>3, <2>5 DEF Resume, IntentAnswered, CallAllowed, DenialAnswered,
       ResultAnswered, Acknowledged,
       LoopCrash, Reload
  <2> QED BY <1>6, <2>1, <2>2, <2>3, <2>4, <2>5 DEF LoopStep
<1> QED BY <1>3, <1>5, <1>6 DEF RunNext, RunDone, runVars

\* The loop goes on from an intent only when it is acknowledged or found, and an
\* acknowledged row is durable.
LEMMA KnowsNext == RunInv /\ [RunNext]_runVars => KnowsWhere'
<1> SUFFICES ASSUME RunInv, [RunNext]_runVars PROVE KnowsWhere'
  OBVIOUS
<1>0. /\ IInv /\ TellsTheTruth /\ KnowsWhere /\ DOMAIN pc = Appends /\ DOMAIN entry = Appends
      /\ DOMAIN loop = RunSteps /\ DOMAIN using = RunSteps
  BY DEF RunInv, IInv, TypeOK, KnowsWhere
\* The journal moves, the run does not.
<1>1. ASSUME NEW a \in Appends, Step(a) \/ Fail(a), UNCHANGED <<loop, using, landed, refused, policy>>
      PROVE  KnowsWhere'
  <2>1. UNCHANGED entry /\ table \subseteq table' /\ \A b \in Appends : pc[b] # "idle" => pc'[b] # "idle"
    <3>1. /\ UNCHANGED entry /\ table \subseteq table'
      BY <1>0, <1>1, StepCommitsItsEntry
    <3>2. \E to : to # "idle" /\ pc' = [pc EXCEPT ![a] = to]
      BY <1>1 DEF Step, Lock, SelectExisting, Insert, Index, Commit, CommitDuplicate, Fail, Goto
    <3> QED BY <1>0, <3>1, <3>2
  <2>2. \A s : IntentIsThere(s) => IntentIsThere(s)'
    BY <2>1, IntentStays
  <2> QED BY <1>0, <1>1, <2>1, <2>2 DEF KnowsWhere
\* One step of the run moves; the others stand where they stood.
<1>2. ASSUME NEW s \in RunSteps,
             /\ landed' \subseteq RunSteps /\ refused' \subseteq RunSteps
             /\ DOMAIN loop' = RunSteps /\ DOMAIN using' = RunSteps /\ UNCHANGED table
             /\ \A a \in Appends : pc[a] # "idle" => pc'[a] # "idle" /\ entry'[a] = entry[a]
             /\ refused \subseteq refused'
             /\ \A t \in RunSteps \ {s} : /\ loop'[t] = loop[t] /\ using'[t] = using[t]
                                          /\ t \in landed' <=> t \in landed,
             /\ loop'[s] = "intent_sent" =>
                 /\ using'[s] \in Appends /\ pc'[using'[s]] # "idle"
                 /\ entry'[using'[s]] = EntryFor(s[1], s[2], "attempted", "intent")
             /\ loop'[s] \in {"call", "result", "denied", "unrecorded", "result_sent"} => IntentIsThere(s)
             /\ loop'[s] = "result" => s \in landed'
             /\ loop'[s] \in {"denied", "unrecorded"} => s \in refused'
             /\ loop'[s] = "result_sent" => s \in landed' \cup refused'
             /\ s \in landed' => IntentIsThere(s) /\ loop'[s] \notin {"intent", "intent_sent"}
      PROVE  KnowsWhere'
  <2>1. \A t : IntentIsThere(t) => IntentIsThere(t)'
    BY <1>2, IntentStays
  <2>2. ASSUME NEW t \in RunSteps, t # s
        PROVE  /\ loop'[t] = "intent_sent" =>
                  /\ using'[t] \in Appends /\ pc'[using'[t]] # "idle"
                  /\ entry'[using'[t]] = EntryFor(t[1], t[2], "attempted", "intent")
               /\ loop'[t] \in {"call", "result", "denied", "unrecorded", "result_sent"} => IntentIsThere(t)'
               /\ loop'[t] = "result" => t \in landed'
               /\ loop'[t] \in {"denied", "unrecorded"} => t \in refused'
               /\ loop'[t] = "result_sent" => t \in landed' \cup refused'
               /\ t \in landed' => IntentIsThere(t)' /\ loop'[t] \notin {"intent", "intent_sent"}
    <3>1. loop'[t] = loop[t] /\ using'[t] = using[t] /\ (t \in landed' <=> t \in landed)
      BY <1>2, <2>2
    <3> QED BY <1>0, <1>2, <2>1, <3>1 DEF KnowsWhere
  <2> QED BY <1>2, <2>1, <2>2 DEF KnowsWhere
<1>3. ASSUME NEW s \in RunSteps, Resume(s) PROVE KnowsWhere'
  <2>1. UNCHANGED <<vars, using, landed, refused, policy>>
    BY <1>3 DEF Resume
  <2>2. \E to : to \in {"over", "call", "intent"} /\ loop' = [loop EXCEPT ![s] = to]
    BY <1>3 DEF Resume, Moves
  <2>3. loop'[s] = "call" => IntentIsThere(s)
    BY <1>0, <1>3 DEF Resume, Moves, IntentIsThere, StepAttempted, HasRecord, RowsOf
  <2>4. loop'[s] = "intent" => ~IntentIsThere(s)
    BY <1>0, <1>3 DEF Resume, Moves, IntentIsThere, StepAttempted, StepCompleted,
       HasRecord, RowsOf
  <2> QED BY <1>0, <1>2, <2>1, <2>2, <2>3, <2>4 DEF KnowsWhere, vars
<1>4. ASSUME NEW s \in RunSteps, NEW from, NEW to, NEW phase, NEW payload,
             Journal(s, from, to, phase, payload)
      PROVE  /\ \A a \in Appends : pc[a] # "idle" => pc'[a] # "idle" /\ entry'[a] = entry[a]
             /\ loop[s] = from /\ loop' = [loop EXCEPT ![s] = to]
             /\ UNCHANGED <<table, landed, refused>>
             /\ DOMAIN using' = RunSteps /\ \A t \in RunSteps \ {s} : using'[t] = using[t]
             /\ using'[s] \in Appends /\ pc'[using'[s]] # "idle"
             /\ entry'[using'[s]] = EntryFor(s[1], s[2], phase, payload)
  <2>1. PICK a \in Appends : /\ Moves(s, from, to) /\ Begin(a, EntryFor(s[1], s[2], phase, payload))
                             /\ using' = [using EXCEPT ![s] = a]
                             /\ UNCHANGED <<landed, refused, policy>>
    BY <1>4 DEF Journal
  <2> QED BY <1>0, <2>1 DEF Moves, Begin, Goto
<1>5. ASSUME NEW s \in RunSteps,
             JournalIntent(s) \/ JournalResult(s) \/ JournalRefusal(s)
      PROVE  KnowsWhere'
  <2>1. CASE JournalIntent(s)
    BY <1>0, <1>2, <1>4, <2>1 DEF JournalIntent, KnowsWhere
  <2>2. CASE JournalResult(s)
    BY <1>0, <1>2, <1>4, <2>2 DEF JournalResult, KnowsWhere
  <2>3. CASE JournalRefusal(s)
    BY <1>0, <1>2, <1>4, <2>3 DEF JournalRefusal, KnowsWhere
  <2> QED BY <1>5, <2>1, <2>2, <2>3
\* An intent that was acknowledged is in the journal.
<1>6. ASSUME NEW s \in RunSteps, IntentAnswered(s) PROVE KnowsWhere'
  <2>1. /\ loop[s] = "intent_sent" /\ UNCHANGED <<vars, using, landed, refused, policy>>
        /\ \/ loop' = [loop EXCEPT ![s] = "call"] /\ answer[using[s]].kind = "ok"
           \/ loop' = [loop EXCEPT ![s] = "down"]
    BY <1>6 DEF IntentAnswered, Acknowledged, Moves
  <2>2. answer[using[s]].kind = "ok" => IntentIsThere(s)
    <3> SUFFICES ASSUME answer[using[s]].kind = "ok" PROVE IntentIsThere(s)
      OBVIOUS
    <3>1. using[s] \in Appends /\ entry[using[s]] = EntryFor(s[1], s[2], "attempted", "intent")
      BY <1>0, <2>1 DEF KnowsWhere
    <3>2. PICK r \in table : SameKey(r, entry[using[s]])
      BY <1>0, <3>1 DEF IInv, AcknowledgedIsDurable
    <3> QED BY <3>1, <3>2 DEF SameKey, EntryFor, IntentIsThere, HasRecord, RowsOf
  <2>3. s \notin landed
    BY <1>0, <2>1 DEF KnowsWhere
  <2> QED BY <1>0, <1>2, <2>1, <2>2, <2>3 DEF KnowsWhere, vars
<1>7. ASSUME NEW s \in RunSteps, ResultAnswered(s) \/ DenialAnswered(s) \/ LoopCrash(s)
      PROVE  KnowsWhere'
  <2>1. /\ UNCHANGED <<vars, using, landed, refused, policy>>
        /\ \/ loop' = [loop EXCEPT ![s] = "over"]
           \/ loop' = [loop EXCEPT ![s] = "down"]
           \/ loop' = [loop EXCEPT ![s] = "unrecorded"] /\ loop[s] = "denied"
    BY <1>7 DEF ResultAnswered, DenialAnswered, LoopCrash, Acknowledged, Moves
  <2> QED BY <1>0, <1>2, <2>1 DEF KnowsWhere, vars
<1>8. ASSUME NEW s \in RunSteps, CallAllowed(s) PROVE KnowsWhere'
  BY <1>0, <1>2, <1>8 DEF CallAllowed, Moves, KnowsWhere, vars
<1>9. ASSUME NEW s \in RunSteps, CallDenied(s) PROVE KnowsWhere'
  <2>1. PICK a \in Appends : /\ Begin(a, EntryFor(Root, s[2], "completed", "denied"))
                             /\ using' = [using EXCEPT ![s] = a]
    BY <1>9 DEF CallDenied
  <2>2. /\ \A b \in Appends : pc[b] # "idle" => pc'[b] # "idle" /\ entry'[b] = entry[b]
        /\ UNCHANGED table
    BY <1>0, <2>1 DEF Begin, Goto
  <2>3. /\ loop[s] = "call" /\ loop' = [loop EXCEPT ![s] = "denied"]
        /\ refused' = refused \cup {s} /\ UNCHANGED landed
    BY <1>9 DEF CallDenied, Moves
  <2> QED BY <1>0, <1>2, <2>1, <2>2, <2>3 DEF KnowsWhere
<1>10. CASE UNCHANGED <<vars, loop, using, landed, refused>>
  BY <1>0, <1>10 DEF KnowsWhere, vars, IntentIsThere
<1> QED
  BY <1>1, <1>3, <1>5, <1>6, <1>7, <1>8, <1>9, <1>10 DEF RunNext, LoopStep, Reload,
     RunDone, runVars

\* A run begins with an empty journal.
LEMMA RunInit0 == RunInit => RunInv
<1> SUFFICES ASSUME RunInit PROVE IInv /\ TellsTheTruth /\ KnowsWhere
  BY DEF RunInv
<1>1. IInv
  BY InitEstablishes DEF RunInit
<1> QED BY <1>1 DEF RunInit, Init, TellsTheTruth, KnowsWhere

\* Whatever the loop, the gateway, the journal and the policy do in any order, with
\* crashes of each.
THEOREM RunInvariance == RunSpec => []RunInv
<1>1. RunInv /\ [RunNext]_runVars => RunInv'
  BY TruthNext, KnowsNext, StepIsJournalStep, NextPreserves DEF RunInv
<1> QED BY <1>1, RunInit0, PTL DEF RunSpec

\* A row that says attempted is the intent.
LEMMA IntentIsRecorded ==
  ASSUME RunInv, NEW s \in RunSteps, IntentIsThere(s)
  PROVE  Recorded(s, "attempted", "intent")
<1>1. PICK r \in table : r.run = Run /\ r.sub = s[1] /\ r.step = s[2] /\ r.phase = "attempted"
  BY DEF IntentIsThere, HasRecord, RowsOf
<1>2. r.payload = "intent"
  BY <1>1 DEF RunInv, TellsTheTruth, IsTrue
<1> QED BY <1>1, <1>2 DEF Recorded

\* checkpoint.go, "a crash during an effect is distinguishable from a crash before it":
\* a step whose effect landed has its intent in the journal and is never begun anew.
THEOREM EffectsAreNotForgotten == RunSpec => []EffectIsNeverForgotten
<1>1. RunInv => EffectIsNeverForgotten
  <2> SUFFICES ASSUME RunInv, NEW s \in landed
               PROVE  Recorded(s, "attempted", "intent") /\ loop[s] \notin {"intent", "intent_sent"}
    BY DEF EffectIsNeverForgotten
  <2>1. s \in RunSteps /\ IntentIsThere(s) /\ loop[s] \notin {"intent", "intent_sent"}
    BY DEF RunInv, KnowsWhere
  <2> QED BY <2>1, IntentIsRecorded
<1> QED BY <1>1, RunInvariance, PTL

\* StepCompleted with a result: the effect of that step of that sub-run has happened.
THEOREM ResultsMeanEffects == RunSpec => []ResultMeansEffect
<1>1. RunInv => ResultMeansEffect
  <2> SUFFICES ASSUME RunInv, NEW s \in RunSteps, Recorded(s, "completed", "result") PROVE s \in landed
    BY DEF ResultMeansEffect
  <2>1. PICK r \in table : r.sub = s[1] /\ r.step = s[2] /\ r.phase = "completed" /\ r.payload = "result"
    BY DEF Recorded
  <2>2. IsTrue(r)
    BY DEF RunInv, TellsTheTruth
  <2>3. s = <<s[1], s[2]>>
    BY DEF RunSteps
  <2> QED BY <2>1, <2>2, <2>3 DEF IsTrue
<1> QED BY <1>1, RunInvariance, PTL

\* The loop gets over a step by its own answer or by a row that says completed.
LEMMA SkippedNext ==
  RunInv /\ SkippedOnlyIfConcluded /\ [RunNext]_runVars => SkippedOnlyIfConcluded'
<1> SUFFICES ASSUME RunInv, SkippedOnlyIfConcluded, [RunNext]_runVars,
                    NEW s \in RunSteps, loop'[s] = "over"
             PROVE  s \in landed' \cup refused' \/ RefusedElsewhere(s)'
  BY DEF SkippedOnlyIfConcluded, RefusedElsewhere
<1>0. DOMAIN loop = RunSteps /\ KnowsWhere
  BY DEF RunInv, KnowsWhere
<1>1. landed \subseteq landed' /\ refused \subseteq refused'
  BY DEF runVars, vars, RunNext, LoopStep, Resume, JournalIntent, JournalResult,
     JournalRefusal, Journal,
     IntentAnswered, ResultAnswered, DenialAnswered, Acknowledged, CallAllowed, CallDenied, LoopCrash, Reload,
     RunDone
<1>2. CASE loop[s] = "over"
  BY <1>1, <1>2 DEF SkippedOnlyIfConcluded, RefusedElsewhere
<1>3. CASE loop[s] # "over" /\ (ResultAnswered(s) \/ DenialAnswered(s))
  BY <1>0, <1>1, <1>3 DEF ResultAnswered, DenialAnswered, Acknowledged, KnowsWhere
<1>4. CASE loop[s] # "over" /\ Resume(s)
  <2>1. StepCompleted({r \in RowsOf(table, Run) : r.sub = s[1]}, s[1], s[2])
    BY <1>0, <1>4 DEF Resume, Moves
  <2>2. PICK r \in table : r.sub = s[1] /\ r.step = s[2] /\ r.phase = "completed"
    BY <2>1 DEF StepCompleted, HasRecord, RowsOf
  <2>3. IsTrue(r)
    BY DEF RunInv, TellsTheTruth
  <2>4. s = <<s[1], s[2]>> /\ \A t \in refused : t = <<t[1], t[2]>>
    BY <1>0 DEF RunSteps, KnowsWhere
  <2>5. CASE r.payload = "result"
    BY <1>1, <2>2, <2>3, <2>4, <2>5 DEF IsTrue
  <2>6. CASE r.payload = "denied"
    <3>1. PICK t \in refused : t[2] = s[2] /\ s[1] \in {t[1], Root}
      BY <2>2, <2>3, <2>6 DEF IsTrue
    <3>2. t \in refused'
      BY <1>1
    <3> QED BY <2>4, <3>1, <3>2 DEF RefusedElsewhere
  <2> QED BY <2>2, <2>3, <2>5, <2>6 DEF IsTrue
<1>5. loop[s] = "over" \/ ResultAnswered(s) \/ DenialAnswered(s) \/ Resume(s)
  <2>1. CASE UNCHANGED loop
    BY <2>1
  <2>2. ASSUME NEW t \in RunSteps, LoopStep(t) \/ LoopCrash(t)
        PROVE  \/ loop[s] = "over" \/ ResultAnswered(s) \/ DenialAnswered(s) \/ Resume(s)
    <3>1. CASE t = s
      BY <1>0, <2>2, <3>1 DEF LoopStep, LoopCrash, JournalIntent, JournalResult,
         JournalRefusal, Journal,
         IntentAnswered, Acknowledged, CallAllowed, CallDenied, Moves
    <3>2. CASE t # s
      <4>1. \E to : loop' = [loop EXCEPT ![t] = to]
        BY <2>2 DEF LoopStep, LoopCrash, JournalIntent, JournalResult, JournalRefusal,
           Journal, Resume,
           IntentAnswered, ResultAnswered, DenialAnswered, Acknowledged, CallAllowed, CallDenied, Moves
      <4> QED BY <1>0, <3>2, <4>1
    <3> QED BY <3>1, <3>2
  <2> QED BY <2>1, <2>2 DEF RunNext, Reload, RunDone, runVars
<1> QED BY <1>2, <1>3, <1>4, <1>5

\* A step the loop is over with has landed or was refused, whatever crashed, with any
\* number of delegations; journalDenial's record, which names no sub-run, is the one that
\* another sub-run can take for its own, and only the root can.
THEOREM SkippedStepsAreConcluded == RunSpec => []SkippedOnlyIfConcluded
<1>1. RunInit => SkippedOnlyIfConcluded
  BY DEF RunInit, SkippedOnlyIfConcluded
<1>2. RunInv /\ SkippedOnlyIfConcluded /\ [RunNext]_runVars => SkippedOnlyIfConcluded'
  BY SkippedNext
<1> QED BY <1>1, <1>2, RunInvariance, PTL DEF RunSpec

\* In a run without delegations, where the sub-run that journalDenial leaves out is the
\* root's, a skipped step had its own effect or its own refusal.
THEOREM LoneRunsSkipTheirOwn == SubRuns = {Root} => (RunSpec => []SkippedByItsOwnRecord)
<1> SUFFICES ASSUME SubRuns = {Root} PROVE RunSpec => []SkippedByItsOwnRecord
  OBVIOUS
<1>1. RunInv /\ SkippedOnlyIfConcluded => SkippedByItsOwnRecord
  <2> SUFFICES ASSUME RunInv, SkippedOnlyIfConcluded, NEW s \in RunSteps, loop[s] = "over"
               PROVE  s \in landed \cup refused
    BY DEF SkippedByItsOwnRecord
  <2>1. s = <<Root, s[2]>> /\ \A t \in refused : t = <<Root, t[2]>>
    BY DEF RunSteps, RunInv, KnowsWhere
  <2> QED BY <2>1 DEF SkippedOnlyIfConcluded, RefusedElsewhere
<1> QED BY <1>1, RunInvariance, SkippedStepsAreConcluded, PTL

\* A result or a refusal comes after the intent of its step.
Announced ==
    /\ \A a \in Appends : pc[a] # "idle" /\ entry[a].phase = "completed" =>
        HasRecord(RowsOf(table, Run), entry[a].sub, entry[a].step, "attempted")
    /\ \A r \in table : HasRecord(RowsOf(table, Run), r.sub, r.step, "attempted")

\* Without delegations a refusal is filed under the step whose intent is there.
LEMMA AnnouncedNext ==
  ASSUME SubRuns = {Root}
  PROVE  RunInv /\ Announced /\ [RunNext]_runVars => Announced'
<1> SUFFICES ASSUME RunInv, Announced, [RunNext]_runVars PROVE Announced'
  OBVIOUS
<1>0. /\ IInv /\ TellsTheTruth /\ KnowsWhere /\ DOMAIN pc = Appends /\ DOMAIN entry = Appends
  BY DEF RunInv, IInv, TypeOK
<1> DEFINE There(sub, step) == HasRecord(RowsOf(table, Run), sub, step, "attempted")
<1>1. CASE UNCHANGED vars
  BY <1>1 DEF vars, Announced
<1>2. ASSUME NEW a \in Appends, NEW sub, NEW step, NEW phase, NEW payload,
             Begin(a, EntryFor(sub, step, phase, payload)), phase = "completed" => There(sub, step)
      PROVE  Announced'
  <2>1. /\ UNCHANGED table /\ entry'[a] = EntryFor(sub, step, phase, payload)
        /\ \A b \in Appends \ {a} : entry'[b] = entry[b] /\ pc'[b] = pc[b]
    BY <1>0, <1>2 DEF Begin, Goto
  <2>2. /\ entry'[a].phase = phase /\ entry'[a].sub = sub /\ entry'[a].step = step
    BY <2>1 DEF EntryFor
  <2> QED BY <1>2, <2>1, <2>2 DEF Announced
<1>3. ASSUME NEW a \in Appends, Step(a) \/ Fail(a) PROVE Announced'
  <2>1. /\ UNCHANGED entry /\ table \subseteq table' /\ pc[a] # "idle"
        /\ \A b \in Appends : pc'[b] # "idle" => pc[b] # "idle"
        /\ \A r \in table' \ table : \E n : r = RowFor(entry[a], n)
    BY <1>0, <1>3, StepCommitsItsEntry
  <2>2. \A sub, step : There(sub, step) => There(sub, step)'
    BY <2>1 DEF HasRecord, RowsOf
  <2>3. ASSUME NEW r \in table' PROVE There(r.sub, r.step)'
    <3>1. CASE r \in table
      BY <2>2, <3>1 DEF Announced
    <3>2. CASE r \notin table
      <4>1. PICK n : r = RowFor(entry[a], n)
        BY <2>1, <3>2
      <4>2. /\ r.sub = entry[a].sub /\ r.step = entry[a].step /\ r.phase = entry[a].phase
            /\ r.run = entry[a].run
        BY <4>1 DEF RowFor
      <4>3. entry[a].run = Run /\ entry[a].phase \in {"attempted", "completed"}
        BY <1>0, <2>1 DEF TellsTheTruth, IsTrue
      <4>4. CASE entry[a].phase = "attempted"
        BY <4>2, <4>3, <4>4 DEF HasRecord, RowsOf
      <4>5. CASE entry[a].phase = "completed"
        BY <2>1, <2>2, <4>2, <4>5 DEF Announced
      <4> QED BY <4>3, <4>4, <4>5
    <3> QED BY <3>1, <3>2
  <2>4. ASSUME NEW b \in Appends, pc'[b] # "idle", entry[b].phase = "completed"
        PROVE  There(entry[b].sub, entry[b].step)'
    <3>1. There(entry[b].sub, entry[b].step)
      BY <2>1, <2>4 DEF Announced
    <3> QED BY <2>1, <3>1 DEF HasRecord, RowsOf
  <2> QED BY <2>1, <2>3, <2>4 DEF Announced
<1>4. ASSUME NEW s \in RunSteps, LoopStep(s) \/ LoopCrash(s) \/ Reload(s) PROVE Announced'
  <2>1. CASE JournalIntent(s)
    BY <1>2, <2>1 DEF JournalIntent, Journal
  <2>2. CASE JournalResult(s)
    <3>1. There(s[1], s[2])
      BY <1>0, <2>2 DEF JournalResult, Journal, Moves, KnowsWhere, IntentIsThere
    <3> QED BY <1>2, <2>2, <3>1 DEF JournalResult, Journal
  <2>3. CASE JournalRefusal(s)
    <3>1. There(s[1], s[2])
      BY <1>0, <2>3 DEF JournalRefusal, Journal, Moves, KnowsWhere, IntentIsThere
    <3> QED BY <1>2, <2>3, <3>1 DEF JournalRefusal, Journal
  <2>4. CASE CallDenied(s)
    <3>1. There(s[1], s[2]) /\ s[1] = Root
      BY <1>0, <2>4 DEF CallDenied, Moves, KnowsWhere, IntentIsThere, RunSteps
    <3> QED BY <1>2, <2>4, <3>1 DEF CallDenied
  <2>5. CASE Resume(s) \/ IntentAnswered(s) \/ CallAllowed(s) \/ DenialAnswered(s) \/ ResultAnswered(s)
             \/ LoopCrash(s) \/ Reload(s)
    BY <1>1, <2>5 DEF Resume, IntentAnswered, CallAllowed, DenialAnswered,
       ResultAnswered, Acknowledged,
       LoopCrash, Reload
  <2> QED BY <1>4, <2>1, <2>2, <2>3, <2>4, <2>5 DEF LoopStep
<1> QED BY <1>1, <1>3, <1>4 DEF RunNext, RunDone, runVars

\* DurabilityLevel of a run without delegations: at every moment the journal reports
\* per_step, so that of any step that crashed one can tell whether it may have landed.
THEOREM CrashesAreTold == SubRuns = {Root} => (RunSpec => []ReportedPerStep)
<1> SUFFICES ASSUME SubRuns = {Root} PROVE RunSpec => []ReportedPerStep
  OBVIOUS
<1>1. RunInit => Announced
  BY DEF RunInit, Init, Announced
<1>2. RunInv /\ Announced /\ [RunNext]_runVars => Announced'
  BY AnnouncedNext
<1>3. Announced => ReportedPerStep
  <2> SUFFICES ASSUME Announced PROVE ReportedPerStep
    OBVIOUS
  <2> DEFINE records == RowsOf(table, Run)
             steps == {<<r.sub, r.step>> : r \in records}
             intent == {<<r.sub, r.step>> : r \in {q \in records : q.phase = "attempted"}}
  <2>1. \A r \in records : \E q \in records : q.phase = "attempted" /\ q.sub = r.sub /\ q.step = r.step
    BY DEF Announced, HasRecord, RowsOf
  <2>2. intent = steps
    <3> HIDE DEF records
    <3> QED BY <2>1
  <2>3. DurabilityLevel(records) \in {"unknown", "per_step"}
    <3>1. CASE steps = {}
      BY <3>1 DEF DurabilityLevel
    <3>2. CASE steps # {}
      BY <2>2, <3>2 DEF DurabilityLevel
    <3> QED BY <3>1, <3>2
  <2> QED BY <2>3 DEF ReportedPerStep
<1> QED BY <1>1, <1>2, <1>3, RunInvariance, PTL DEF RunSpec
=============================================================================
