-------------------------- MODULE IcebergSinkProofs --------------------------
(***************************************************************************)
(* Machine-checked facts about IcebergSink, for every set of records and   *)
(* every value of the sink's options, retries, faults and rivals.  In this *)
(* order: types and recorded commits; the books, rollbacks, and the places *)
(* of accepted records; what commit() promises with manifests; that        *)
(* nothing is appended twice; what commit() promises by hand; and that the *)
(* sink implements the RecordStore.  Each part has an invariant of its own *)
(* that builds on the one before.                                          *)
(***************************************************************************)
EXTENDS IcebergSink, FiniteSetTheorems, SequenceTheorems, TLAPS

-----------------------------------------------------------------------------
(* Types, and commits with a manifest.                                     *)

Preparing == {"reload", "upload", "record"}

\* A record is in one place of the sink's front end only: not written yet, in
\* the memory of the loop, or in the batch that is being prepared; and a
\* commit being prepared is not empty.
FrontEnd ==
  /\ fresh \cap (buffer \cup staged) = {}
  /\ pc \in Preparing => /\ buffer = {} /\ staged = {}
                         /\ batch # {} /\ batch \cap fresh = {}
  /\ pc = "reserve" => batch # {}

\* No commit with a manifest shares a record with what is still to be prepared.
RecordedApart ==
  \A c \in recorded :
    /\ c \cap (fresh \cup buffer \cup staged) = {}
    /\ pc \in Preparing => c \cap batch = {}

\* A transaction reports success only when its files are in the table, or
\* when its conflict was swallowed.
OkMeansApplied ==
  \A c \in Commits : run[c] = "ok" => applied[c] > 0 \/ c \in swallowed

IInv ==
  TypeOK /\ FrontEnd /\ RecordedApart /\ OkMeansApplied /\ RecordedNotLost

\* The size of a set of records is a number.
LEMMA RecordsCardinality ==
  ASSUME NEW R \in SUBSET Records
  PROVE  Cardinality(R) \in Nat
<1>1. IsFiniteSet(R)
  BY RecordsFinite, FS_Subset
<1> QED
  BY <1>1, FS_CardinalityType

\* A freshly started sink satisfies the invariant.
LEMMA InitIInv == Init => IInv
<1> SUFFICES ASSUME Init PROVE IInv
  OBVIOUS
<1>1. TypeOK
  <2>1. MemoryType /\ LoopType
    BY DEF Init, MemoryType, LoopType, Steps, NothingSaved
  <2>2. TxnType /\ DiskType
    BY ConstantsAssumption DEF Init, TxnType, DiskType
  <2>3. HistoryType
    BY ConstantsAssumption DEF Init, HistoryType
  <2>4. FaultsType
    BY ConstantsAssumption, EmptySeq DEF Init, FaultsType
  <2> QED
    BY <2>1, <2>2, <2>3, <2>4 DEF TypeOK
<1>2. FrontEnd /\ RecordedApart
  BY DEF Init, FrontEnd, RecordedApart, Preparing
<1>3. OkMeansApplied /\ RecordedNotLost
  BY DEF Init, OkMeansApplied, RecordedNotLost
<1> QED
  BY <1>1, <1>2, <1>3 DEF IInv

\* A handler's end leaves the loop at a step and a handler of their sets.
LEMMA ReturnType ==
  ASSUME TypeOK, ReturnOk \/ ReturnErr
  PROVE  /\ pc' \in Steps
         /\ op' \in {"none", "write", "roll", "commit", "final"}
         /\ promised' \subseteq Records
<1>1. pc' \in {"drain", "dying", "idle"}
  BY DEF ReturnOk, ReturnErr
<1> QED
  BY <1>1 DEF ReturnOk, ReturnErr, EndHandler, Steps, TypeOK, HistoryType

\* Putting a failed commit back keeps the types of the memory.
LEMMA RestoreType ==
  ASSUME TypeOK, Restore
  PROVE  MemoryType' /\ batch' \subseteq Records
                     /\ saved' \in [rows : Nat, created : BOOLEAN]
<1>1. saved.rows \in Nat /\ saved.created \in BOOLEAN
  BY DEF TypeOK, LoopType
<1> QED
  BY <1>1 DEF Restore, NothingSaved, TypeOK, MemoryType, LoopType

\* The end of a process leaves empty memory and no transaction.
LEMMA LoseProcessType ==
  ASSUME LoseProcess
  PROVE  MemoryType' /\ TxnType' /\ owed' \subseteq Records
         /\ op' = "none" /\ batch' \subseteq Records
         /\ saved' \in [rows : Nat, created : BOOLEAN]
<1>1. MemoryType' /\ saved' \in [rows : Nat, created : BOOLEAN]
  BY DEF LoseProcess, ClearMemory, NothingSaved, MemoryType
<1>2. TxnType'
  BY ConstantsAssumption DEF LoseProcess, TxnType
<1> QED
  BY <1>1, <1>2 DEF LoseProcess

\* A record_files that was cut short changes the manifests of commits inside
\* the batch only, and takes no other commit's manifest away.
LEMMA PartlyWrittenMakes ==
  ASSUME TypeOK, batch \in Commits, PartlyWritten(batch)
  PROVE  /\ mfile' \in [Commits -> {"none", "empty", "torn", "full"}]
         /\ \A c \in Commits :
              \/ mfile'[c] = mfile[c]
              \/ c \subseteq batch /\ (c = batch \/ mfile'[c] = "full")
<1>1. \A d : d \in (SUBSET batch) \ {{}} => d \in Commits /\ d \subseteq batch
  BY DEF Commits
<1>2. mfile \in [Commits -> {"none", "empty", "torn", "full"}]
  BY DEF TypeOK, DiskType
<1>3. CASE \E m \in {"none", "empty", "torn"} : mfile' = [mfile EXCEPT ![batch] = m]
  BY <1>2, <1>3
<1>4. CASE \E d \in (SUBSET batch) \ {{}} : mfile' = [mfile EXCEPT ![d] = "full"]
  BY <1>1, <1>2, <1>4
<1> QED
  BY <1>3, <1>4 DEF PartlyWritten

\* A sink is built once.
LEMMA BuilderStays == [Next]_vars => builder' = builder
  BY DEF outside, Next, vars, Write, Roll, Commit, Rollback, Shutdown,
         Prepares, Prepare, Reload, Upload, RecordManifest, Enqueue, Drained,
         Complete, Recovers, RecoverBegin, RecoverEnd, Txn, TxnApply, TxnRebase,
         TxnConflict, TxnFail, TxnPanic, TxnUnchanged, Rival, Crash, Die,
         Restart, BootDone

\* A step meets one fault, or none.
LEMMA OneFault == [Next]_vars => NoFault \/ \E k \in FaultKinds : Fault(k)
  BY DEF NoFault, Fault, Next, vars, Write, Roll, Commit, Rollback, Shutdown,
         Prepares, Prepare, Reload, Upload, RecordManifest, Enqueue, Drained,
         Complete, DeleteManifest, Recovers, RecoverBegin, RecoverEnd, Txn,
         TxnApply, TxnRebase, TxnConflict, TxnFail, TxnPanic, TxnUnchanged,
         Rival, Crash, Die, Restart, BootDone

\* The faults keep their kinds and their bound.
LEMMA FaultsStep == TypeOK /\ [Next]_vars => FaultsType'
<1> SUFFICES ASSUME TypeOK, [Next]_vars PROVE FaultsType'
  OBVIOUS
<1>1. NoFault \/ \E k \in FaultKinds : Fault(k)
  BY OneFault
<1>2. CASE NoFault
  BY <1>2 DEF NoFault, TypeOK, FaultsType
<1>3. ASSUME NEW k \in FaultKinds, Fault(k) PROVE FaultsType'
  <2>1. Append(faults, k) \in Seq(FaultKinds)
        /\ Len(Append(faults, k)) = Len(faults) + 1 /\ Len(faults) \in Nat
    BY AppendProperties DEF TypeOK, FaultsType
  <2> QED
    BY <1>3, <2>1, ConstantsAssumption DEF Fault, FaultsType
<1> QED
  BY <1>1, <1>2, <1>3

\* The invariant makes every step keep the types.
LEMMA TypeStep == TypeOK /\ FrontEnd /\ [Next]_vars => TypeOK'
<1> SUFFICES ASSUME TypeOK, FrontEnd, [Next]_vars PROVE TypeOK'
  OBVIOUS
<1> USE ConstantsAssumption
    DEF TypeOK, MemoryType, LoopType, TxnType, DiskType, HistoryType, Steps,
        memory, loop, txns, disk, history, outside
<1>0. FaultsType'
  BY FaultsStep
<1>1. CASE \E R \in SUBSET fresh : Write(R)
  BY <1>0, <1>1, RecordsCardinality DEF Write
<1>2. CASE Roll
  BY <1>0, <1>2 DEF Roll
<1>3. CASE Commit
  BY <1>0, <1>3 DEF Commit
<1>4. CASE Rollback
  BY <1>0, <1>4 DEF Rollback, ClearMemory
<1>5. CASE Shutdown
  BY <1>0, <1>5 DEF Shutdown
<1>6. CASE Prepare
  <2>1. CASE buffer \cap Poison # {} /\ ReturnErr
             /\ UNCHANGED <<memory, batch, saved>>
    BY <1>0, <1>6, <2>1, ReturnType DEF Prepare
  <2>2. CASE buffer \cup staged = {} /\ ReturnOk
             /\ UNCHANGED <<memory, batch, saved>>
    BY <1>0, <1>6, <2>2, ReturnType DEF Prepare
  <2>3. CASE /\ batch' = buffer \cup staged
             /\ saved' = [rows    |-> rowCount + Cardinality(buffer),
                          created |-> createdAt]
             /\ ClearMemory
             /\ pc' = "reload" /\ UNCHANGED <<op, promised>>
    <3>1. saved' \in [rows : Nat, created : BOOLEAN]
      BY <2>3, RecordsCardinality
    <3>2. UNCHANGED <<scan, txns, disk, recorded, fresh, owed, rolled,
                      swallowed, abandoned, faults, outside>>
      BY <1>6 DEF Prepare
    <3> QED
      BY <1>0, <2>3, <3>1, <3>2 DEF ClearMemory
  <2> QED
    BY <1>6, <2>1, <2>2, <2>3 DEF Prepare
<1>7. CASE Reload
  <2>1. CASE Restore /\ ReturnErr
    <3>1. MemoryType' /\ LoopType' /\ promised' \subseteq Records
      <4>1. /\ MemoryType' /\ batch' \subseteq Records
            /\ saved' \in [rows : Nat, created : BOOLEAN]
        BY <2>1, RestoreType
      <4>2. /\ pc' \in Steps /\ promised' \subseteq Records
            /\ op' \in {"none", "write", "roll", "commit", "final"}
        BY <2>1, ReturnType
      <4>3. UNCHANGED scan
        BY <1>7 DEF Reload
      <4> QED
        BY <4>1, <4>2, <4>3
    <3> QED
      BY <1>0, <1>7, <3>1 DEF Reload
  <2>2. CASE pc' = "upload" /\ UNCHANGED <<memory, op, batch, saved, promised>>
    BY <1>0, <1>7, <2>2 DEF Reload
  <2> QED
    BY <1>7, <2>1, <2>2 DEF Reload
<1>8. CASE Upload
  <2>1. CASE Restore /\ ReturnErr
    <3>1. MemoryType' /\ LoopType' /\ promised' \subseteq Records
      <4>1. /\ MemoryType' /\ batch' \subseteq Records
            /\ saved' \in [rows : Nat, created : BOOLEAN]
        BY <2>1, RestoreType
      <4>2. /\ pc' \in Steps /\ promised' \subseteq Records
            /\ op' \in {"none", "write", "roll", "commit", "final"}
        BY <2>1, ReturnType
      <4>3. UNCHANGED scan
        BY <1>8 DEF Upload
      <4> QED
        BY <4>1, <4>2, <4>3
    <3> QED
      BY <1>0, <1>8, <3>1 DEF Upload
  <2>2. CASE pc' = "record" /\ UNCHANGED <<memory, op, batch, saved, promised>>
    BY <1>0, <1>8, <2>2 DEF Upload
  <2> QED
    BY <1>8, <2>1, <2>2 DEF Upload
<1>9. CASE RecordManifest
  <2>1. batch \in Commits
    BY <1>9 DEF RecordManifest, Preparing, FrontEnd, Commits
  <2>2. mfile' \in [Commits -> {"none", "empty", "torn", "full"}]
    BY <1>9, <2>1, PartlyWrittenMakes DEF RecordManifest
  <2> QED
    BY <1>0, <1>9, <2>1, <2>2 DEF RecordManifest
<1>10. CASE Enqueue
  BY <1>0, <1>10 DEF Enqueue, OpenTxn, ReturnOk, EndHandler, NothingSaved, FrontEnd, Commits
<1>11. CASE Drained
  BY <1>0, <1>11 DEF Drained, ReturnOk, EndHandler
<1>12. CASE \E c \in Commits : Complete(c)
  BY <1>0, <1>12 DEF Complete, CloseTxn, DeleteManifest
<1>13. CASE \E c \in Commits : RecoverBegin(c)
  BY <1>0, <1>13 DEF RecoverBegin, OpenTxn, DeleteManifest, InPipeline
<1>14. CASE \E c \in Commits : RecoverEnd(c)
  BY <1>0, <1>14 DEF RecoverEnd, CloseTxn, DeleteManifest
<1>15. CASE \E c \in Commits : TxnApply(c)
  BY <1>0, <1>15 DEF TxnApply, NewSnapshot, OpenTxns, TxnUnchanged
<1>16. CASE \E c \in Commits : TxnRebase(c)
  BY <1>0, <1>16 DEF TxnRebase, RetriesLeft, TxnUnchanged
<1>17. CASE \E c \in Commits : TxnConflict(c)
  BY <1>0, <1>17 DEF TxnConflict, TxnUnchanged
<1>18. CASE \E c \in Commits : TxnFail(c)
  BY <1>0, <1>18 DEF TxnFail, TxnUnchanged
<1>19. CASE \E c \in Commits : TxnPanic(c)
  BY <1>0, <1>19 DEF TxnPanic, TxnUnchanged
<1>20. CASE Rival
  BY <1>0, <1>20 DEF Rival, OpenTxns
<1>21. CASE Crash
  <2>1. mfile' \in [Commits -> {"none", "empty", "torn", "full"}]
    BY <1>21, PartlyWrittenMakes DEF Crash, Preparing, FrontEnd, Commits
  <2> QED
    BY <1>0, <1>21, <2>1, LoseProcessType DEF Crash
<1>22. CASE Die
  BY <1>0, <1>22, LoseProcessType DEF Die
<1>23. CASE Restart
  BY <1>0, <1>23, LoseProcessType DEF Restart, PendingManifests
<1>24. CASE BootDone
  BY <1>0, <1>24 DEF BootDone
<1>25. CASE UNCHANGED vars
  BY <1>0, <1>25 DEF vars
<1> QED
  BY <1>0, <1>1, <1>2, <1>3, <1>4, <1>5, <1>6, <1>7, <1>8, <1>9,
     <1>10, <1>11, <1>12, <1>13, <1>14, <1>15, <1>16, <1>17,
     <1>18, <1>19, <1>20, <1>21, <1>22, <1>23, <1>24, <1>25
     DEF Next, Prepares, Recovers, Txn
\* Records move through the front end without being in two places.
LEMMA FrontEndStep ==
  ASSUME TypeOK, FrontEnd, [Next]_vars
  PROVE  FrontEnd'
<1> USE DEF FrontEnd, Preparing, vars, memory, loop, history, TypeOK, MemoryType, LoopType
<1>1. CASE \E R \in SUBSET fresh : Write(R)
  BY <1>1 DEF Write
<1>2. CASE Roll
  BY <1>2 DEF Roll
<1>3. CASE Commit
  BY <1>3 DEF Commit
<1>4. CASE Rollback
  BY <1>4 DEF Rollback, ClearMemory
<1>5. CASE Shutdown
  BY <1>5 DEF Shutdown
<1>6. CASE Prepare
  BY <1>6 DEF Prepare, ReturnOk, ReturnErr, EndHandler, ClearMemory
<1>7. CASE Reload
  BY <1>7 DEF Reload, Restore, ReturnErr
<1>8. CASE Upload
  BY <1>8 DEF Upload, Restore, ReturnErr
<1>9. CASE RecordManifest
  BY <1>9 DEF RecordManifest
<1>10. CASE Enqueue
  BY <1>10 DEF Enqueue, OpenTxn, ReturnOk
<1>11. CASE Drained
  BY <1>11 DEF Drained, ReturnOk
<1>12. CASE \E c \in Commits : Complete(c)
  BY <1>12 DEF Complete, CloseTxn, DeleteManifest, Succeeded
<1>13. CASE \E c \in Commits : RecoverBegin(c)
  BY <1>13 DEF RecoverBegin, OpenTxn, DeleteManifest
<1>14. CASE \E c \in Commits : RecoverEnd(c)
  BY <1>14 DEF RecoverEnd, CloseTxn, DeleteManifest, Succeeded
<1>15. CASE \E c \in Commits : TxnApply(c)
  BY <1>15 DEF TxnApply, NewSnapshot, TxnUnchanged
<1>16. CASE \E c \in Commits : TxnRebase(c)
  BY <1>16 DEF TxnRebase, TxnUnchanged
<1>17. CASE \E c \in Commits : TxnConflict(c)
  BY <1>17 DEF TxnConflict, TxnUnchanged
<1>18. CASE \E c \in Commits : TxnFail(c)
  BY <1>18 DEF TxnFail, TxnUnchanged
<1>19. CASE \E c \in Commits : TxnPanic(c)
  BY <1>19 DEF TxnPanic, TxnUnchanged
<1>20. CASE Rival
  BY <1>20 DEF Rival
<1>21. CASE Crash
  BY <1>21 DEF Crash, LoseProcess, ClearMemory
<1>22. CASE Die
  BY <1>22 DEF Die, LoseProcess, ClearMemory
<1>23. CASE Restart
  BY <1>23 DEF Restart, LoseProcess, ClearMemory
<1>24. CASE BootDone
  BY <1>24 DEF BootDone
<1>25. CASE UNCHANGED vars
  BY <1>25 DEF vars
<1> QED
  BY <1>1, <1>2, <1>3, <1>4, <1>5, <1>6, <1>7, <1>8, <1>9,
     <1>10, <1>11, <1>12, <1>13, <1>14, <1>15, <1>16, <1>17,
     <1>18, <1>19, <1>20, <1>21, <1>22, <1>23, <1>24, <1>25
     DEF Next, Prepares, Recovers, Txn

\* Only a commit that nothing overlaps gets a manifest.
LEMMA RecordedApartStep ==
  ASSUME TypeOK, FrontEnd, RecordedApart, [Next]_vars
  PROVE  RecordedApart'
<1> USE DEF RecordedApart, FrontEnd, Preparing, memory, loop, history
<1>1. CASE \E R \in SUBSET fresh : Write(R)
  BY <1>1 DEF Write
<1>2. CASE Roll
  BY <1>2 DEF Roll
<1>3. CASE Commit
  BY <1>3 DEF Commit
<1>4. CASE Rollback
  BY <1>4 DEF Rollback, ClearMemory
<1>5. CASE Shutdown
  BY <1>5 DEF Shutdown
<1>6. CASE Prepare
  BY <1>6 DEF Prepare, ReturnOk, ReturnErr, EndHandler, ClearMemory
<1>7. CASE Reload
  BY <1>7 DEF Reload, Restore, ReturnErr
<1>8. CASE Upload
  BY <1>8 DEF Upload, Restore, ReturnErr
<1>9. CASE RecordManifest
  BY <1>9 DEF RecordManifest
<1>10. CASE Enqueue
  BY <1>10 DEF Enqueue, OpenTxn, ReturnOk
<1>11. CASE Drained
  BY <1>11 DEF Drained, ReturnOk
<1>12. CASE \E c \in Commits : Complete(c)
  BY <1>12 DEF Complete, CloseTxn, DeleteManifest, Succeeded
<1>13. CASE \E c \in Commits : RecoverBegin(c)
  BY <1>13 DEF RecoverBegin, OpenTxn, DeleteManifest
<1>14. CASE \E c \in Commits : RecoverEnd(c)
  BY <1>14 DEF RecoverEnd, CloseTxn, DeleteManifest, Succeeded
<1>15. CASE \E c \in Commits : TxnApply(c)
  BY <1>15 DEF TxnApply, NewSnapshot, TxnUnchanged
<1>16. CASE \E c \in Commits : TxnRebase(c)
  BY <1>16 DEF TxnRebase, TxnUnchanged
<1>17. CASE \E c \in Commits : TxnConflict(c)
  BY <1>17 DEF TxnConflict, TxnUnchanged
<1>18. CASE \E c \in Commits : TxnFail(c)
  BY <1>18 DEF TxnFail, TxnUnchanged
<1>19. CASE \E c \in Commits : TxnPanic(c)
  BY <1>19 DEF TxnPanic, TxnUnchanged
<1>20. CASE Rival
  BY <1>20 DEF Rival
<1>21. CASE Crash
  BY <1>21 DEF Crash, LoseProcess, ClearMemory
<1>22. CASE Die
  BY <1>22 DEF Die, LoseProcess, ClearMemory
<1>23. CASE Restart
  BY <1>23 DEF Restart, LoseProcess, ClearMemory
<1>24. CASE BootDone
  BY <1>24 DEF BootDone
<1>25. CASE UNCHANGED vars
  BY <1>25 DEF vars
<1> QED
  BY <1>1, <1>2, <1>3, <1>4, <1>5, <1>6, <1>7, <1>8, <1>9,
     <1>10, <1>11, <1>12, <1>13, <1>14, <1>15, <1>16, <1>17,
     <1>18, <1>19, <1>20, <1>21, <1>22, <1>23, <1>24, <1>25
     DEF Next, Prepares, Recovers, Txn

\* Success is reported after the append, or for a swallowed conflict.
LEMMA OkMeansAppliedStep ==
  ASSUME TypeOK, OkMeansApplied, [Next]_vars
  PROVE  OkMeansApplied'
<1> USE DEF OkMeansApplied, txns, disk, history, TypeOK, TxnType, DiskType
<1>1. CASE \E R \in SUBSET fresh : Write(R)
  BY <1>1 DEF Write
<1>2. CASE Roll
  BY <1>2 DEF Roll
<1>3. CASE Commit
  BY <1>3 DEF Commit
<1>4. CASE Rollback
  BY <1>4 DEF Rollback, ClearMemory
<1>5. CASE Shutdown
  BY <1>5 DEF Shutdown
<1>6. CASE Prepare
  BY <1>6 DEF Prepare, ReturnOk, ReturnErr, EndHandler, ClearMemory
<1>7. CASE Reload
  BY <1>7 DEF Reload, Restore, ReturnErr
<1>8. CASE Upload
  BY <1>8 DEF Upload, Restore, ReturnErr
<1>9. CASE RecordManifest
  BY <1>9 DEF RecordManifest
<1>10. CASE Enqueue
  BY <1>10 DEF Enqueue, OpenTxn, ReturnOk
<1>11. CASE Drained
  BY <1>11 DEF Drained, ReturnOk
<1>12. CASE \E c \in Commits : Complete(c)
  BY <1>12 DEF Complete, CloseTxn, DeleteManifest, Succeeded
<1>13. CASE \E c \in Commits : RecoverBegin(c)
  BY <1>13 DEF RecoverBegin, OpenTxn, DeleteManifest
<1>14. CASE \E c \in Commits : RecoverEnd(c)
  BY <1>14 DEF RecoverEnd, CloseTxn, DeleteManifest, Succeeded
<1>15. CASE \E c \in Commits : TxnApply(c)
  BY <1>15 DEF TxnApply, NewSnapshot, TxnUnchanged
<1>16. CASE \E c \in Commits : TxnRebase(c)
  BY <1>16 DEF TxnRebase, TxnUnchanged
<1>17. CASE \E c \in Commits : TxnConflict(c)
  BY <1>17 DEF TxnConflict, TxnUnchanged
<1>18. CASE \E c \in Commits : TxnFail(c)
  BY <1>18 DEF TxnFail, TxnUnchanged
<1>19. CASE \E c \in Commits : TxnPanic(c)
  BY <1>19 DEF TxnPanic, TxnUnchanged
<1>20. CASE Rival
  BY <1>20 DEF Rival
<1>21. CASE Crash
  BY <1>21 DEF Crash, LoseProcess, ClearMemory
<1>22. CASE Die
  BY <1>22 DEF Die, LoseProcess, ClearMemory
<1>23. CASE Restart
  BY <1>23 DEF Restart, LoseProcess, ClearMemory
<1>24. CASE BootDone
  BY <1>24 DEF BootDone
<1>25. CASE UNCHANGED vars
  BY <1>25 DEF vars
<1> QED
  BY <1>1, <1>2, <1>3, <1>4, <1>5, <1>6, <1>7, <1>8, <1>9,
     <1>10, <1>11, <1>12, <1>13, <1>14, <1>15, <1>16, <1>17,
     <1>18, <1>19, <1>20, <1>21, <1>22, <1>23, <1>24, <1>25
     DEF Next, Prepares, Recovers, Txn

\* The manifest a prepare is writing belongs to no recorded commit, and lists
\* no part of one.
LEMMA BatchNotRecorded ==
  ASSUME IInv, pc = "record"
  PROVE  batch \in Commits /\ \A d \in recorded : ~ (d \subseteq batch)
  BY DEF IInv, TypeOK, LoopType, HistoryType, FrontEnd, RecordedApart, Preparing, Commits

\* A manifest is written once and deleted only after a success.
LEMMA RecordedNotLostStep ==
  ASSUME IInv, [Next]_vars
  PROVE  RecordedNotLost'
<1> USE DEF RecordedNotLost, OkMeansApplied, txns, disk, history, IInv, TypeOK, TxnType, DiskType
<1>1. CASE \E R \in SUBSET fresh : Write(R)
  BY <1>1 DEF Write
<1>2. CASE Roll
  BY <1>2 DEF Roll
<1>3. CASE Commit
  BY <1>3 DEF Commit
<1>4. CASE Rollback
  BY <1>4 DEF Rollback, ClearMemory
<1>5. CASE Shutdown
  BY <1>5 DEF Shutdown
<1>6. CASE Prepare
  BY <1>6 DEF Prepare, ReturnOk, ReturnErr, EndHandler, ClearMemory
<1>7. CASE Reload
  BY <1>7 DEF Reload, Restore, ReturnErr
<1>8. CASE Upload
  BY <1>8 DEF Upload, Restore, ReturnErr
<1>9. CASE RecordManifest
  <2>1. batch \in Commits /\ \A d \in recorded : ~ (d \subseteq batch)
    BY <1>9, BatchNotRecorded DEF RecordManifest
  <2>2. \A d \in recorded : mfile'[d] = mfile[d]
    BY <1>9, <2>1, PartlyWrittenMakes DEF RecordManifest, HistoryType
  <2>3. recorded' = recorded \/ (recorded' = recorded \cup {batch}
                                  /\ mfile'[batch] = "full")
    BY <1>9, <2>1 DEF RecordManifest
  <2> QED
    BY <1>9, <2>2, <2>3 DEF RecordManifest
<1>10. CASE Enqueue
  BY <1>10 DEF Enqueue, OpenTxn, ReturnOk
<1>11. CASE Drained
  BY <1>11 DEF Drained, ReturnOk
<1>12. CASE \E c \in Commits : Complete(c)
  <2>1. PICK c \in Commits : Complete(c)
    BY <1>12
  <2>2. \A d \in Commits :
          mfile'[d] = mfile[d] \/ (d = c /\ run[c] = "ok")
    BY <2>1 DEF Complete, DeleteManifest, Succeeded
  <2>3. recorded \subseteq Commits /\ UNCHANGED <<recorded, applied, swallowed>>
    BY <2>1 DEF Complete, HistoryType
  <2> QED
    BY <2>2, <2>3
<1>13. CASE \E c \in Commits : RecoverBegin(c)
  <2>1. PICK c \in Commits : RecoverBegin(c)
    BY <1>13
  <2>2. \A d \in Commits :
          mfile'[d] = mfile[d] \/ (d = c /\ mfile[c] # "full")
    BY <2>1 DEF RecoverBegin, DeleteManifest
  <2>3. recorded \subseteq Commits /\ UNCHANGED <<recorded, applied, swallowed>>
    BY <2>1 DEF RecoverBegin, HistoryType
  <2> QED
    BY <2>2, <2>3
<1>14. CASE \E c \in Commits : RecoverEnd(c)
  <2>1. PICK c \in Commits : RecoverEnd(c)
    BY <1>14
  <2>2. \A d \in Commits :
          mfile'[d] = mfile[d] \/ (d = c /\ run[c] = "ok")
    BY <2>1 DEF RecoverEnd, DeleteManifest, Succeeded
  <2>3. recorded \subseteq Commits /\ UNCHANGED <<recorded, applied, swallowed>>
    BY <2>1 DEF RecoverEnd, HistoryType
  <2> QED
    BY <2>2, <2>3
<1>15. CASE \E c \in Commits : TxnApply(c)
  BY <1>15 DEF TxnApply, NewSnapshot, TxnUnchanged
<1>16. CASE \E c \in Commits : TxnRebase(c)
  BY <1>16 DEF TxnRebase, TxnUnchanged
<1>17. CASE \E c \in Commits : TxnConflict(c)
  BY <1>17 DEF TxnConflict, TxnUnchanged
<1>18. CASE \E c \in Commits : TxnFail(c)
  BY <1>18 DEF TxnFail, TxnUnchanged
<1>19. CASE \E c \in Commits : TxnPanic(c)
  BY <1>19 DEF TxnPanic, TxnUnchanged
<1>20. CASE Rival
  BY <1>20 DEF Rival
<1>21. CASE Crash
  <2>1. \A d \in recorded : mfile'[d] = mfile[d]
    BY <1>21, BatchNotRecorded, PartlyWrittenMakes DEF Crash, HistoryType
  <2> QED
    BY <1>21, <2>1 DEF Crash
<1>22. CASE Die
  BY <1>22 DEF Die, LoseProcess, ClearMemory
<1>23. CASE Restart
  BY <1>23 DEF Restart, LoseProcess, ClearMemory
<1>24. CASE BootDone
  BY <1>24 DEF BootDone
<1>25. CASE UNCHANGED vars
  BY <1>25 DEF vars
<1> QED
  BY <1>1, <1>2, <1>3, <1>4, <1>5, <1>6, <1>7, <1>8, <1>9,
     <1>10, <1>11, <1>12, <1>13, <1>14, <1>15, <1>16, <1>17,
     <1>18, <1>19, <1>20, <1>21, <1>22, <1>23, <1>24, <1>25
     DEF Next, Prepares, Recovers, Txn

\* The invariant is inductive.
LEMMA IInvStep == IInv /\ [Next]_vars => IInv'
  BY TypeStep, FrontEndStep, RecordedApartStep, OkMeansAppliedStep,
     RecordedNotLostStep DEF IInv

\* Every reachable state satisfies the invariant: no record is in two places
\* of write, stage and prepare, no manifest overlaps work still to be done,
\* and execute_commit reports success only after the append or a conflict.
THEOREM IInvHolds == Spec => []IInv
  BY InitIInv, IInvStep, PTL DEF Spec

\* Type correctness of the sink, its catalog and its disk in every state.
THEOREM TypeCorrect == Spec => []TypeOK
<1>1. IInv => TypeOK
  BY DEF IInv
<1> QED
  BY IInvHolds, <1>1, PTL

\* A commit whose manifest was written is in the table, or its manifest is
\* still on disk, or its conflict was swallowed: for any number of crashes,
\* restarts, failed deletions, rivals and retries.
THEOREM RecordedNeverLost == Spec => []RecordedNotLost
<1>1. IInv => RecordedNotLost
  BY DEF IInv
<1> QED
  BY IInvHolds, <1>1, PTL

-----------------------------------------------------------------------------
(* The books of the sink are exact, what it rolled back never reaches the  *)
(* table, and no accepted record is dropped silently.  These rest on an    *)
(* invariant about where records and commits are.                          *)

\* A batch is being prepared, or waits for a slot.
Busy == Preparing \cup {"reserve"}

\* Records are in one place of the sink's memory, a process that recovers has
\* accepted nothing yet, and what a failed prepare puts back was counted.
Placed ==
  /\ buffer \cap staged = {}
  /\ pc \in Busy => buffer = {} /\ staged = {} /\ batch \cap fresh = {}
  /\ pc \notin Busy => batch = {}
  /\ pc = "boot" => owed = {}

SavedExact == pc \in Preparing => saved.rows = Cardinality(batch) /\ saved.created

\* Commits that may still come to the table, or have.
Prepared(c) == run[c] # "none" \/ mfile[c] # "none" \/ applied[c] > 0

\* They share no record with what the sink may prepare, write or roll back.
PreparedApart ==
  \A c \in Commits : Prepared(c) =>
    /\ c \cap (fresh \cup buffer \cup staged) = {}
    /\ pc \in Preparing => c \cap batch = {}

\* A record that was rolled back is nowhere any more.
RolledApart ==
  /\ rolled \cap (fresh \cup buffer \cup staged \cup batch) = {}
  /\ \A c \in Commits : Prepared(c) => c \cap rolled = {}

SInv ==
  /\ IInv /\ Placed
  /\ SavedExact /\ CountersExact /\ PipelineBounded
  /\ PreparedApart /\ RolledApart /\ NoSilentDrop

-----------------------------------------------------------------------------
(* Kinds of steps.                                                         *)

\* The loop moves on without touching records or commits.
LoopMoves ==
  /\ pc \notin Busy /\ pc' \notin Busy \cup {"boot"}
  /\ UNCHANGED <<memory, batch, saved, txns, disk, recorded, fresh, owed, rolled,
                 swallowed, abandoned>>

\* A transaction, a rival or recovery moves on; commits keep their manifests
\* and their places in the pipeline, or get what an invariant allows.
Background == UNCHANGED <<memory, loop, fresh, owed, rolled>>

\* A handler gives its batch back.
GivesBack ==
  /\ pc \in {"reload", "upload"} /\ Restore /\ ReturnErr
  /\ UNCHANGED <<scan, txns, disk, recorded, fresh, owed, rolled, swallowed, abandoned>>

\* A handler takes everything out of memory.
Takes ==
  /\ pc = "prepare" /\ buffer \cup staged # {}
  /\ batch' = buffer \cup staged
  /\ saved' = [rows |-> rowCount + Cardinality(buffer), created |-> createdAt]
  /\ ClearMemory /\ pc' = "reload"
  /\ UNCHANGED <<scan, txns, disk, recorded, fresh, owed, rolled, swallowed, abandoned>>

\* It goes on with its batch.
GoesOn ==
  /\ pc \in {"reload", "upload"} /\ pc' \in {"upload", "record"}
  /\ UNCHANGED <<memory, batch, saved, txns, disk, recorded, fresh, owed, rolled,
                 swallowed, abandoned>>

\* The process ends or a new one begins.
Ends ==
  /\ LoseProcess /\ pc' \in {"dead", "boot"}
  /\ UNCHANGED <<applied, recorded, fresh, rolled, swallowed, abandoned>>
  /\ \/ UNCHANGED mfile
     \/ pc = "record" /\ Fault("crash") /\ PartlyWritten(batch)

\* The pipeline, recovery, and iceberg's transactions.
Commits_ ==
  \/ \E c \in Commits : Complete(c) \/ Recovers(c) \/ Txn(c) \/ TxnFail(c) \/ TxnPanic(c)
  \/ Rival \/ UNCHANGED vars

\* Every step is of one of these kinds.
LEMMA StepKinds ==
  ASSUME [Next]_vars
  PROVE  \/ \E R \in SUBSET fresh : Write(R)
         \/ Rollback \/ LoopMoves \/ Takes \/ GoesOn \/ GivesBack
         \/ RecordManifest \/ Enqueue \/ Ends \/ Commits_
<1> USE DEF Busy, Preparing
<1>1. CASE Roll \/ Commit \/ Shutdown \/ Drained \/ BootDone
  <2>1. LoopMoves
    BY <1>1 DEF Roll, Commit, Shutdown, Drained, BootDone, ReturnOk, LoopMoves, memory,
                txns, disk, history
  <2> QED
    BY <2>1
<1>2. CASE Prepare
  <2>1. LoopMoves \/ Takes
    BY <1>2 DEF Prepare, ReturnOk, ReturnErr, LoopMoves, Takes, memory, txns, disk
  <2> QED
    BY <2>1
<1>3. CASE Reload \/ Upload
  <2>1. GoesOn \/ GivesBack
    BY <1>3 DEF Reload, Upload, GoesOn, GivesBack, memory, txns, disk
  <2> QED
    BY <2>1
<1>4. CASE Crash \/ Die \/ Restart
  <2>1. Ends
    BY <1>4 DEF Crash, Die, Restart, Ends, disk
  <2> QED
    BY <2>1
<1> QED
  BY <1>1, <1>2, <1>3, <1>4 DEF Next, Prepares, Commits_

\* What the last kind may do to a commit: its memory stays, and a commit is
\* new in the pipeline only in recovery, from its manifest.
LEMMA CommitsKind ==
  ASSUME IInv, Commits_
  PROVE  /\ Background
         /\ \A c \in Commits : Prepared(c)' => Prepared(c)
         /\ \/ {c \in Commits : run'[c] # "none"} \subseteq InPipeline
            \/ InPipeline = {} /\ \E c \in Commits : {d \in Commits : run'[d] # "none"} = {c}
<1> USE DEF IInv, TypeOK, TxnType, DiskType, Prepared, InPipeline
<1>1. CASE \E c \in Commits : Complete(c)
  BY <1>1 DEF Complete, CloseTxn, DeleteManifest, Background
<1>2. CASE \E c \in Commits : RecoverBegin(c)
  <2>1. PICK c \in Commits : RecoverBegin(c)
    BY <1>2
  <2>2. Background
    BY <2>1 DEF RecoverBegin, Background, history
  <2>3. CASE mfile[c] = "full"
    BY <2>1, <2>2, <2>3 DEF RecoverBegin, OpenTxn
  <2>4. CASE mfile[c] # "full"
    BY <2>1, <2>2, <2>4 DEF RecoverBegin, DeleteManifest, txns
  <2> QED
    BY <2>3, <2>4
<1>3. CASE \E c \in Commits : RecoverEnd(c)
  BY <1>3 DEF RecoverEnd, CloseTxn, DeleteManifest, Background, history
<1>4. CASE \E c \in Commits : TxnApply(c)
  BY <1>4 DEF TxnApply, NewSnapshot, TxnUnchanged, Background
<1>5. CASE \E c \in Commits : TxnRebase(c) \/ TxnConflict(c)
  BY <1>5 DEF TxnRebase, TxnConflict, TxnUnchanged, Background
<1>6. CASE \E c \in Commits : TxnFail(c) \/ TxnPanic(c)
  BY <1>6 DEF TxnFail, TxnPanic, TxnUnchanged, Background
<1>7. CASE Rival \/ UNCHANGED vars
  BY <1>7 DEF Rival, vars, txns, disk, history, Background
<1> QED
  BY <1>1, <1>2, <1>3, <1>4, <1>5, <1>6, <1>7 DEF Commits_, Recovers, Txn

-----------------------------------------------------------------------------
(* The parts of the invariant, one by one.                                 *)

LEMMA InitSInv == Init => SInv
<1> SUFFICES ASSUME Init PROVE SInv
  OBVIOUS
<1> USE DEF Init, Busy, Preparing
<1>1. IInv /\ Placed /\ SavedExact
  BY InitIInv DEF Placed, SavedExact
<1>2. CountersExact
  BY FS_EmptySet DEF CountersExact
<1>3. PipelineBounded
  <2>1. InPipeline = {}
    BY DEF InPipeline
  <2> QED
    BY <2>1, FS_EmptySet, ConstantsAssumption DEF PipelineBounded
<1>4. PreparedApart /\ RolledApart
  BY DEF PreparedApart, RolledApart, Prepared
<1>5. NoSilentDrop
  BY DEF NoSilentDrop
<1> QED
  BY <1>1, <1>2, <1>3, <1>4, <1>5 DEF SInv

LEMMA PlacedStep ==
  ASSUME IInv, Placed, [Next]_vars
  PROVE  Placed'
<1> USE DEF Placed, Busy, Preparing, IInv, FrontEnd, memory, loop
<1>1. CASE \E R \in SUBSET fresh : Write(R)
  BY <1>1 DEF Write
<1>2. CASE Rollback
  BY <1>2 DEF Rollback, ClearMemory
<1>3. CASE LoopMoves
  BY <1>3 DEF LoopMoves
<1>4. CASE Takes
  BY <1>4 DEF Takes, ClearMemory
<1>5. CASE GoesOn
  BY <1>5 DEF GoesOn
<1>6. CASE GivesBack
  BY <1>6 DEF GivesBack, Restore, ReturnErr
<1>7. CASE RecordManifest
  BY <1>7 DEF RecordManifest
<1>8. CASE Enqueue
  BY <1>8 DEF Enqueue, ReturnOk
<1>9. CASE Ends
  BY <1>9 DEF Ends, LoseProcess, ClearMemory
<1>10. CASE Commits_
  BY <1>10, CommitsKind DEF Background
<1> QED
  BY <1>1, <1>2, <1>3, <1>4, <1>5, <1>6, <1>7, <1>8, <1>9, <1>10, StepKinds

\* Records are finitely many, and so are those of disjoint sets together.
LEMMA DisjointUnion ==
  ASSUME NEW R \in SUBSET Records, NEW S \in SUBSET Records, R \cap S = {}
  PROVE  Cardinality(R \cup S) = Cardinality(R) + Cardinality(S)
<1>1. IsFiniteSet(R) /\ IsFiniteSet(S)
  BY RecordsFinite, FS_Subset
<1>2. Cardinality(R \cup S) = Cardinality(R) + Cardinality(S) - Cardinality({})
  BY <1>1, FS_Union
<1> QED
  BY <1>2, FS_EmptySet, RecordsCardinality

LEMMA AccountsStep ==
  ASSUME IInv, Placed, SavedExact, CountersExact, [Next]_vars
  PROVE  SavedExact' /\ CountersExact'
<1> USE DEF SavedExact, CountersExact, Placed, Busy, Preparing, IInv, TypeOK, MemoryType,
            HistoryType, memory, loop
<1>1. ASSUME NEW R \in SUBSET fresh, Write(R) PROVE SavedExact' /\ CountersExact'
  <2>1. /\ (buffer \cup R) \cap staged = {} /\ (buffer \cup R) \in SUBSET Records
        /\ Cardinality(staged \cup (buffer \cup R))
             = Cardinality(staged) + Cardinality(buffer \cup R)
    BY DisjointUnion DEF FrontEnd
  <2> QED
    BY <1>1, <2>1 DEF Write
<1>2. CASE Rollback
  BY <1>2, FS_EmptySet DEF Rollback, ClearMemory
<1>3. CASE LoopMoves
  BY <1>3 DEF LoopMoves
<1>4. CASE Takes
  <2>1. Cardinality(buffer \cup staged) = rowCount + Cardinality(buffer)
    BY DisjointUnion, RecordsCardinality
  <2>2. saved'.rows = Cardinality(batch') /\ saved'.created
    BY <1>4, <2>1 DEF Takes
  <2> QED
    BY <1>4, <2>2, FS_EmptySet DEF Takes, ClearMemory
<1>5. CASE GoesOn
  BY <1>5 DEF GoesOn
<1>6. CASE GivesBack
  BY <1>6 DEF GivesBack, Restore, ReturnErr
<1>7. CASE RecordManifest
  BY <1>7 DEF RecordManifest
<1>8. CASE Enqueue
  BY <1>8 DEF Enqueue, ReturnOk
<1>9. CASE Ends
  BY <1>9, FS_EmptySet DEF Ends, LoseProcess, ClearMemory
<1>10. CASE Commits_
  BY <1>10, CommitsKind DEF Background
<1> QED
  BY <1>1, <1>2, <1>3, <1>4, <1>5, <1>6, <1>7, <1>8, <1>9, <1>10, StepKinds

\* The commits in the pipeline are finitely many.
LEMMA PipelineFinite == IsFiniteSet(InPipeline) /\ Cardinality(InPipeline) \in Nat
<1>1. IsFiniteSet(SUBSET Records) /\ InPipeline \in SUBSET (SUBSET Records)
  BY RecordsFinite, FS_SUBSET DEF InPipeline, Commits
<1> QED
  BY <1>1, FS_Subset, FS_CardinalityType

LEMMA PipelineStep ==
  ASSUME IInv, PipelineBounded, [Next]_vars
  PROVE  PipelineBounded'
<1> USE ConstantsAssumption DEF PipelineBounded, txns
<1>1. CASE InPipeline' \subseteq InPipeline
  <2>1. IsFiniteSet(InPipeline') /\ Cardinality(InPipeline') <= Cardinality(InPipeline)
    BY <1>1, PipelineFinite, FS_Subset
  <2>2. Cardinality(InPipeline') \in Nat
    BY <2>1, FS_CardinalityType
  <2> QED
    BY <2>1, <2>2, PipelineFinite
<1>2. CASE Enqueue
  <2>1. InPipeline' \subseteq InPipeline \cup {batch}
    BY <1>2 DEF Enqueue, OpenTxn, InPipeline, IInv, TypeOK, TxnType
  <2>2. /\ IsFiniteSet(InPipeline \cup {batch})
        /\ Cardinality(InPipeline \cup {batch}) \in 0 .. Cardinality(InPipeline) + 1
    BY PipelineFinite, FS_AddElement, FS_CardinalityType
  <2>3. /\ Cardinality(InPipeline') <= Cardinality(InPipeline \cup {batch})
        /\ Cardinality(InPipeline') \in Nat
    BY <2>1, <2>2, FS_Subset, FS_CardinalityType
  <2> QED
    BY <1>2, <2>2, <2>3, PipelineFinite DEF Enqueue, HasCapacity
<1>3. CASE Commits_
  <2>1. InPipeline' = {c \in Commits : run'[c] # "none"}
    BY DEF InPipeline
  <2>2. InPipeline' \subseteq InPipeline \/ \E c : InPipeline' = {c}
    BY <1>3, <2>1, CommitsKind
  <2>3. ASSUME NEW c, InPipeline' = {c} PROVE PipelineBounded'
    <3>1. Cardinality(InPipeline') = 1
      BY <2>3, FS_Singleton
    <3> QED
      BY <3>1
  <2> QED
    BY <1>1, <2>2, <2>3
<1>4. CASE \/ \E R \in SUBSET fresh : Write(R)
           \/ Rollback \/ LoopMoves \/ Takes \/ GoesOn \/ GivesBack \/ RecordManifest
  <2>1. UNCHANGED run
    BY <1>4 DEF Write, Rollback, LoopMoves, Takes, GoesOn, GivesBack, RecordManifest
  <2> QED
    BY <1>1, <2>1 DEF InPipeline
<1>5. CASE Ends
  <2>1. InPipeline' = {}
    BY <1>5 DEF Ends, LoseProcess, InPipeline
  <2> QED
    BY <1>1, <2>1
<1> QED
  BY <1>2, <1>3, <1>4, <1>5, StepKinds

LEMMA ApartStep ==
  ASSUME IInv, Placed, PreparedApart, [Next]_vars
  PROVE  PreparedApart'
<1> USE DEF PreparedApart, Prepared, Placed, Busy, Preparing, IInv, TypeOK, DiskType, TxnType,
            memory, loop, txns, disk
<1>1. CASE \E R \in SUBSET fresh : Write(R)
  BY <1>1 DEF Write
<1>2. CASE Rollback
  BY <1>2 DEF Rollback, ClearMemory
<1>3. CASE LoopMoves
  BY <1>3 DEF LoopMoves
<1>4. CASE Takes
  BY <1>4 DEF Takes, ClearMemory
<1>5. CASE GoesOn
  BY <1>5 DEF GoesOn
<1>6. CASE GivesBack
  BY <1>6 DEF GivesBack, Restore, ReturnErr
<1>7. CASE RecordManifest
  <2>1. batch \in Commits
    BY <1>7 DEF RecordManifest, FrontEnd, LoopType, Commits
  <2>2. \A c \in Commits : Prepared(c)' => Prepared(c) \/ c \subseteq batch
    BY <1>7, <2>1, PartlyWrittenMakes DEF RecordManifest
  <2> QED
    BY <1>7, <2>2 DEF RecordManifest
<1>8. CASE Enqueue
  <2>1. \A c \in Commits : Prepared(c)' => Prepared(c) \/ c = batch
    BY <1>8 DEF Enqueue, OpenTxn
  <2>2. pc' \notin Preparing
    BY <1>8 DEF Enqueue, ReturnOk
  <2> QED
    BY <1>8, <2>1, <2>2 DEF Enqueue
<1>9. CASE Ends
  <2>1. pc = "record" => batch \in Commits
    BY DEF FrontEnd, LoopType, Commits
  <2>2. \A c \in Commits : Prepared(c)' => Prepared(c) \/ (pc = "record" /\ c \subseteq batch)
    BY <1>9, <2>1, PartlyWrittenMakes DEF Ends, LoseProcess
  <2> QED
    BY <1>9, <2>2 DEF Ends, LoseProcess, ClearMemory
<1>10. CASE Commits_
  <2>1. Background /\ \A c \in Commits : Prepared(c)' => Prepared(c)
    BY <1>10, CommitsKind
  <2> QED
    BY <2>1 DEF Background
<1> QED
  BY <1>1, <1>2, <1>3, <1>4, <1>5, <1>6, <1>7, <1>8, <1>9, <1>10, StepKinds

LEMMA RolledStep ==
  ASSUME IInv, Placed, PreparedApart, RolledApart, [Next]_vars
  PROVE  RolledApart'
<1> USE DEF RolledApart, Prepared, Placed, Busy, Preparing, IInv, TypeOK, DiskType, TxnType,
            memory, loop, txns, disk
<1>1. CASE \E R \in SUBSET fresh : Write(R)
  BY <1>1 DEF Write
<1>2. CASE Rollback
  BY <1>2 DEF Rollback, ClearMemory, PreparedApart, FrontEnd
<1>3. CASE LoopMoves
  BY <1>3 DEF LoopMoves
<1>4. CASE Takes
  BY <1>4 DEF Takes, ClearMemory
<1>5. CASE GoesOn
  BY <1>5 DEF GoesOn
<1>6. CASE GivesBack
  BY <1>6 DEF GivesBack, Restore, ReturnErr
<1>7. CASE RecordManifest
  <2>1. batch \in Commits
    BY <1>7 DEF RecordManifest, FrontEnd, LoopType, Commits
  <2>2. \A c \in Commits : Prepared(c)' => Prepared(c) \/ c \subseteq batch
    BY <1>7, <2>1, PartlyWrittenMakes DEF RecordManifest
  <2> QED
    BY <1>7, <2>2 DEF RecordManifest
<1>8. CASE Enqueue
  <2>1. \A c \in Commits : Prepared(c)' => Prepared(c) \/ c = batch
    BY <1>8 DEF Enqueue, OpenTxn
  <2> QED
    BY <1>8, <2>1 DEF Enqueue
<1>9. CASE Ends
  <2>1. pc = "record" => batch \in Commits
    BY DEF FrontEnd, LoopType, Commits
  <2>2. \A c \in Commits : Prepared(c)' => Prepared(c) \/ (pc = "record" /\ c \subseteq batch)
    BY <1>9, <2>1, PartlyWrittenMakes DEF Ends, LoseProcess
  <2> QED
    BY <1>9, <2>2 DEF Ends, LoseProcess, ClearMemory
<1>10. CASE Commits_
  <2>1. Background /\ \A c \in Commits : Prepared(c)' => Prepared(c)
    BY <1>10, CommitsKind
  <2> QED
    BY <2>1 DEF Background
<1> QED
  BY <1>1, <1>2, <1>3, <1>4, <1>5, <1>6, <1>7, <1>8, <1>9, <1>10, StepKinds

\* A commit that leaves the pipeline is in the table, was swallowed, has its
\* manifest, or is noted as abandoned.
LEMMA CompletedIsKept ==
  ASSUME IInv, NEW c \in Commits, Complete(c)
  PROVE  \/ applied'[c] > 0 \/ c \in swallowed' \/ c \in abandoned'
         \/ mfile'[c] = "full"
<1>1. CASE Succeeded(c)
  BY <1>1 DEF Complete, Succeeded, IInv, OkMeansApplied
<1>2. CASE ~Succeeded(c) /\ c \in recorded
  BY <1>2 DEF Complete, IInv, RecordedNotLost
<1>3. CASE ~Succeeded(c) /\ c \notin recorded
  BY <1>3 DEF Complete
<1> QED
  BY <1>1, <1>2, <1>3

\* Where a record of a commit is accounted for.
Accounted(c) ==
  \/ run[c] # "none" \/ mfile[c] = "full" \/ applied[c] > 0
  \/ c \in swallowed \/ c \in abandoned

\* NoSilentDrop, said of one record at a time.
AllAccounted ==
  \A r \in owed : r \in InMemory \/ \E c \in Commits : r \in c /\ Accounted(c)

LEMMA AccountedFor == TypeOK => (NoSilentDrop <=> AllAccounted)
<1> SUFFICES ASSUME TypeOK PROVE NoSilentDrop <=> AllAccounted
  OBVIOUS
<1>1. swallowed \subseteq Commits /\ abandoned \subseteq Commits
  BY DEF TypeOK, HistoryType
<1>2. \A r : r \in InFlight \cup OnDisk \cup Visible \cup (UNION swallowed) \cup (UNION abandoned)
               <=> \E c \in Commits : r \in c /\ Accounted(c)
  <2> TAKE r
  <2>1. r \in InFlight <=> \E c \in Commits : r \in c /\ run[c] # "none"
    BY DEF InFlight, InPipeline
  <2>2. r \in OnDisk <=> \E c \in Commits : r \in c /\ mfile[c] = "full"
    BY DEF OnDisk
  <2>3. r \in Visible <=> \E c \in Commits : r \in c /\ applied[c] > 0
    BY DEF Visible
  <2>4. r \in UNION swallowed <=> \E c \in Commits : r \in c /\ c \in swallowed
    BY <1>1
  <2>5. r \in UNION abandoned <=> \E c \in Commits : r \in c /\ c \in abandoned
    BY <1>1
  <2>6. (\E c \in Commits : r \in c /\ Accounted(c))
          <=> \/ \E c \in Commits : r \in c /\ run[c] # "none"
              \/ \E c \in Commits : r \in c /\ mfile[c] = "full"
              \/ \E c \in Commits : r \in c /\ applied[c] > 0
              \/ \E c \in Commits : r \in c /\ c \in swallowed
              \/ \E c \in Commits : r \in c /\ c \in abandoned
    BY ZenonT(30) DEF Accounted
  <2> QED
    BY <2>1, <2>2, <2>3, <2>4, <2>5, <2>6
<1> QED
  BY <1>2 DEF NoSilentDrop, AllAccounted

\* Outside recovery no step takes a commit out of the accounts.
LEMMA AccountedStep ==
  ASSUME IInv, Commits_, pc # "boot", NEW c \in Commits, Accounted(c)
  PROVE  Accounted(c)'
<1> USE DEF IInv, TypeOK, TxnType, DiskType, HistoryType, Accounted
<1>1. ASSUME NEW d \in Commits, Complete(d) PROVE Accounted(c)'
  <2>1. CASE c = d
    BY <1>1, <2>1, CompletedIsKept
  <2>2. CASE c # d
    BY <1>1, <2>2 DEF Complete, CloseTxn, DeleteManifest
  <2> QED
    BY <2>1, <2>2
<1>2. ASSUME NEW d \in Commits, TxnApply(d) PROVE Accounted(c)'
  BY <1>2 DEF TxnApply, NewSnapshot, TxnUnchanged
<1>3. ASSUME NEW d \in Commits, TxnRebase(d) \/ TxnConflict(d) PROVE Accounted(c)'
  BY <1>3 DEF TxnRebase, TxnConflict, TxnUnchanged
<1>4. ASSUME NEW d \in Commits, TxnFail(d) \/ TxnPanic(d) PROVE Accounted(c)'
  BY <1>4 DEF TxnFail, TxnPanic, TxnUnchanged
<1>5. CASE Rival \/ UNCHANGED vars
  BY <1>5 DEF Rival, vars, txns, disk, history
<1>6. ~ \E d \in Commits : Recovers(d)
  BY DEF Recovers, RecoverBegin, RecoverEnd
<1> QED
  BY <1>1, <1>2, <1>3, <1>4, <1>5, <1>6 DEF Commits_, Txn

LEMMA NoSilentDropStep ==
  ASSUME IInv, Placed, NoSilentDrop, [Next]_vars
  PROVE  NoSilentDrop'
<1>0. TypeOK' /\ TypeOK
  BY IInvStep DEF IInv
<1>a. SUFFICES AllAccounted'
  BY <1>0, <1>a, AccountedFor, PTL
<1>1. SUFFICES ASSUME NEW r \in owed'
               PROVE  r \in InMemory' \/ \E c \in Commits : r \in c /\ Accounted(c)'
  BY DEF AllAccounted
<1>2. \A q \in owed : q \in InMemory \/ \E c \in Commits : q \in c /\ Accounted(c)
  BY <1>0, AccountedFor DEF AllAccounted
<1> USE DEF InMemory, Placed, Busy, Preparing, memory, loop, txns, disk
<1>3. CASE \E R \in SUBSET fresh : Write(R)
  BY <1>2, <1>3 DEF Write, Accounted
<1>4. CASE Rollback
  BY <1>2, <1>4 DEF Rollback, ClearMemory, Accounted
<1>5. CASE LoopMoves
  BY <1>2, <1>5 DEF LoopMoves, Accounted
<1>6. CASE Takes
  BY <1>2, <1>6 DEF Takes, ClearMemory, Accounted
<1>7. CASE GoesOn
  BY <1>2, <1>7 DEF GoesOn, Accounted
<1>8. CASE GivesBack
  BY <1>2, <1>8 DEF GivesBack, Restore, Accounted
<1>9. CASE RecordManifest
  <2>1. /\ UNCHANGED <<memory, batch, owed>>
        /\ batch \in Commits
    BY <1>0, <1>9 DEF RecordManifest, IInv, FrontEnd, TypeOK, LoopType, Commits
  <2>2. \A c \in Commits : Accounted(c) => Accounted(c)' \/ c = batch
    BY <1>0, <1>9, <2>1, PartlyWrittenMakes DEF RecordManifest, Accounted, TypeOK, DiskType
  <2> QED
    BY <1>2, <2>1, <2>2
<1>10. CASE Enqueue
  <2>1. /\ UNCHANGED <<memory, owed>> /\ batch \in Commits
        /\ \A c \in Commits : Accounted(c) \/ c = batch => Accounted(c)'
    BY <1>0, <1>10 DEF Enqueue, OpenTxn, Accounted, TypeOK, TxnType, LoopType, IInv, FrontEnd,
                       Commits
  <2> QED
    BY <1>2, <2>1
<1>11. CASE Ends
  BY <1>11 DEF Ends, LoseProcess
<1>12. CASE Commits_
  <2>1. Background
    BY <1>12, CommitsKind
  <2>2. pc # "boot"
    BY <2>1 DEF Background
  <2> QED
    BY <1>2, <1>12, <2>1, <2>2, AccountedStep DEF Background
<1> QED
  BY <1>3, <1>4, <1>5, <1>6, <1>7, <1>8, <1>9, <1>10, <1>11, <1>12, StepKinds

LEMMA SInvStep == SInv /\ [Next]_vars => SInv'
  BY IInvStep, PlacedStep, AccountsStep, PipelineStep, ApartStep, RolledStep,
     NoSilentDropStep DEF SInv

-----------------------------------------------------------------------------
\* The strengthened invariant holds.
THEOREM SInvHolds == Spec => []SInv
  BY InitSInv, SInvStep, PTL DEF Spec

\* The counters of the sink are exact and its pipeline bounded, through failed
\* prepares, rollbacks and recoveries, for every batch size, row limit and
\* number of pending commits.
THEOREM AccountsAreExact == Spec => []AccountsExact
<1>1. SInv => AccountsExact
  BY DEF SInv, AccountsExact
<1> QED
  BY <1>1, SInvHolds, PTL

\* What rollback discarded never reaches the table, whatever crashes and
\* recoveries follow.
THEOREM RolledBackNeverVisible == Spec => []RolledBackStaysOut
<1>1. SInv => RolledBackStaysOut
  BY DEF SInv, RolledApart, Prepared, RolledBackStaysOut, Visible
<1> QED
  BY <1>1, SInvHolds, PTL

\* Every record that the running sink accepted and did not roll back is in
\* its memory, in flight, in a manifest or in the table, or went one of the
\* two ways out that the code has.
THEOREM NothingDropped == Spec => []NoSilentDrop
<1>1. SInv => NoSilentDrop
  BY DEF SInv
<1> QED
  BY <1>1, SInvHolds, PTL

-----------------------------------------------------------------------------
(* commit() and recovery.                                                  *)

Promises == promised \subseteq Visible \cup OnDisk \cup UNION swallowed

\* While manifests are written, whatever is in the pipeline has one.
AllRecorded ==
  /\ \A c \in Commits : run[c] # "none" => c \in recorded \/ (pc = "boot" /\ c \in scan)
  /\ pc = "reserve" => batch \in recorded
  /\ abandoned = {}

\* commit() waits for the pipeline with nothing left in memory.
NothingLeft == pc = "drain" /\ op = "commit" => buffer = {} /\ staged = {}

RInv ==
  /\ SInv /\ NothingLeft
  /\ ManifestDir /\ "manifest" \notin Happened => AllRecorded /\ Promises

\* Faults are only ever added.
LEMMA HappenedGrows ==
  ASSUME TypeOK, [Next]_vars
  PROVE  Happened \subseteq Happened'
<1>1. NoFault \/ \E k \in FaultKinds : Fault(k)
  BY OneFault
<1>2. CASE NoFault
  BY <1>2 DEF NoFault, Happened
<1>3. ASSUME NEW k \in FaultKinds, Fault(k) PROVE Happened \subseteq Happened'
  <2>1. faults \in Seq(FaultKinds) /\ faults' = Append(faults, k)
    BY <1>3 DEF Fault, TypeOK, FaultsType
  <2>2. /\ Len(faults') = Len(faults) + 1 /\ Len(faults) \in Nat
        /\ \A i \in 1 .. Len(faults) : faults'[i] = faults[i]
    BY <2>1, AppendProperties
  <2> QED
    BY <2>2 DEF Happened
<1> QED
  BY <1>1, <1>2, <1>3

\* A fault is remembered.
LEMMA FaultHappened ==
  ASSUME TypeOK, NEW k, Fault(k)
  PROVE  k \in Happened'
<1>1. faults \in Seq(FaultKinds) /\ k \in FaultKinds /\ faults' = Append(faults, k)
  BY DEF Fault, TypeOK, FaultsType
<1>2. /\ Len(faults') = Len(faults) + 1 /\ Len(faults) \in Nat
      /\ faults'[Len(faults) + 1] = k
  BY <1>1, AppendProperties
<1>3. Len(faults) + 1 \in 1 .. Len(faults')
  BY <1>2
<1> QED
  BY <1>2, <1>3 DEF Happened

LEMMA NothingLeftStep ==
  ASSUME IInv, Placed, NothingLeft, [Next]_vars
  PROVE  NothingLeft'
<1> USE DEF NothingLeft, Placed, Busy, Preparing, memory, loop
<1>1. CASE (\E R \in SUBSET fresh : Write(R)) \/ Rollback
  BY <1>1 DEF Write, Rollback, ClearMemory
<1>2. CASE Roll \/ Commit \/ Shutdown \/ Drained \/ BootDone
  BY <1>2 DEF Roll, Commit, Shutdown, Drained, BootDone, ReturnOk, EndHandler
<1>3. CASE Prepare
  BY <1>3 DEF Prepare, ReturnOk, ReturnErr, EndHandler, ClearMemory
<1>4. CASE Reload \/ Upload \/ RecordManifest
  BY <1>4 DEF Reload, Upload, RecordManifest, Restore, ReturnErr, EndHandler
<1>5. CASE Enqueue
  BY <1>5 DEF Enqueue, ReturnOk, EndHandler
<1>6. CASE Crash \/ Die \/ Restart
  BY <1>6 DEF Crash, Die, Restart
<1>7. CASE Commits_
  BY <1>7, CommitsKind DEF Background
<1> QED
  BY <1>1, <1>2, <1>3, <1>4, <1>5, <1>6, <1>7 DEF Next, Prepares, Commits_

LEMMA AllRecordedStep ==
  ASSUME ManifestDir, IInv, AllRecorded, [Next]_vars, "manifest" \notin Happened'
  PROVE  AllRecorded'
<1> USE DEF AllRecorded, IInv, TypeOK, TxnType, memory, loop, txns, history
<1>1. CASE \E R \in SUBSET fresh : Write(R)
  BY <1>1 DEF Write
<1>2. CASE Roll \/ Commit \/ Rollback \/ Shutdown
  BY <1>2 DEF Roll, Commit, Rollback, Shutdown
<1>3. CASE Prepare \/ Drained
  BY <1>3 DEF Prepare, Drained, ReturnOk, ReturnErr
<1>4. CASE Reload \/ Upload
  BY <1>4 DEF Reload, Upload, ReturnErr
<1>5. CASE RecordManifest
  BY <1>5, FaultHappened DEF RecordManifest
<1>6. CASE Enqueue
  BY <1>6 DEF Enqueue, OpenTxn, ReturnOk
<1>7. CASE \E c \in Commits : Complete(c)
  BY <1>7 DEF Complete, CloseTxn
<1>8. CASE \E c \in Commits : RecoverBegin(c)
  BY <1>8 DEF RecoverBegin, OpenTxn, InPipeline
<1>9. CASE \E c \in Commits : RecoverEnd(c)
  BY <1>9 DEF RecoverEnd, CloseTxn
<1>10. CASE \E c \in Commits : Txn(c) \/ TxnFail(c) \/ TxnPanic(c)
  BY <1>10 DEF Txn, TxnApply, NewSnapshot, TxnRebase, TxnConflict, TxnFail, TxnPanic,
               TxnUnchanged
<1>11. CASE Rival \/ UNCHANGED vars
  BY <1>11 DEF Rival, vars
<1>12. CASE Crash \/ Die \/ Restart
  BY <1>12 DEF Crash, Die, Restart, LoseProcess
<1>13. CASE BootDone
  BY <1>13 DEF BootDone
<1> QED
  BY <1>1, <1>2, <1>3, <1>4, <1>5, <1>6, <1>7, <1>8, <1>9, <1>10, <1>11, <1>12, <1>13
     DEF Next, Prepares, Recovers

\* What commit() may promise.
LEMMA CommitPromises ==
  ASSUME SInv, AllRecorded, buffer = {}, staged = {}, batch = {}, pc # "boot"
  PROVE  owed \subseteq Visible \cup OnDisk \cup UNION swallowed
<1>1. owed \subseteq InFlight \cup OnDisk \cup Visible \cup UNION swallowed
  BY DEF SInv, NoSilentDrop, InMemory, AllRecorded
<1>2. \A c \in InPipeline : mfile[c] = "full" \/ applied[c] > 0 \/ c \in swallowed
  BY DEF SInv, IInv, RecordedNotLost, AllRecorded, InPipeline
<1> QED
  BY <1>1, <1>2 DEF InFlight, InPipeline, OnDisk, Visible

\* No step takes a commit with a manifest, or in the table, out of both.
LEMMA CommitsKept ==
  ASSUME SInv, [Next]_vars, NEW c \in Commits,
         mfile[c] = "full" \/ applied[c] > 0 \/ c \in swallowed
  PROVE  mfile'[c] = "full" \/ applied'[c] > 0 \/ c \in swallowed'
<1> USE DEF SInv, IInv, TypeOK, DiskType, disk, history
<1>0. pc = "record" => mfile[batch] = "none" /\ batch \in Commits
  BY DEF FrontEnd, PreparedApart, Prepared, Preparing, Commits, LoopType
<1>1. CASE \/ \E R \in SUBSET fresh : Write(R)
           \/ Rollback \/ LoopMoves \/ Takes \/ GoesOn \/ GivesBack \/ Enqueue
  BY <1>1 DEF Write, Rollback, LoopMoves, Takes, GoesOn, GivesBack, Enqueue
<1>2. CASE RecordManifest
  BY <1>0, <1>2, PartlyWrittenMakes DEF RecordManifest
<1>3. CASE Ends
  BY <1>0, <1>3, PartlyWrittenMakes DEF Ends
<1>4. ASSUME NEW d \in Commits, Complete(d) \/ RecoverEnd(d)
      PROVE  mfile'[c] = "full" \/ applied'[c] > 0 \/ c \in swallowed'
  BY <1>4 DEF Complete, RecoverEnd, DeleteManifest, Succeeded, OkMeansApplied
<1>5. ASSUME NEW d \in Commits, RecoverBegin(d)
      PROVE  mfile'[c] = "full" \/ applied'[c] > 0 \/ c \in swallowed'
  BY <1>5 DEF RecoverBegin, DeleteManifest
<1>6. ASSUME NEW d \in Commits, Txn(d) \/ TxnFail(d) \/ TxnPanic(d)
      PROVE  mfile'[c] = "full" \/ applied'[c] > 0 \/ c \in swallowed'
  BY <1>6 DEF Txn, TxnApply, NewSnapshot, TxnRebase, TxnConflict, TxnFail, TxnPanic,
              TxnUnchanged
<1>7. CASE Rival \/ UNCHANGED vars
  BY <1>7 DEF Rival, vars
<1> QED
  BY <1>1, <1>2, <1>3, <1>4, <1>5, <1>6, <1>7, StepKinds DEF Commits_, Recovers

LEMMA PromisesStep ==
  ASSUME SInv, AllRecorded, NothingLeft, Promises, [Next]_vars
  PROVE  Promises'
<1> DEFINE Sure == Visible \cup OnDisk \cup UNION swallowed
<1>1. Sure \subseteq Sure'
  <2>1. swallowed \subseteq Commits
    BY DEF SInv, IInv, TypeOK, HistoryType
  <2> QED
    BY <2>1, CommitsKept DEF Visible, OnDisk
<1>2. promised' \subseteq promised \/ (promised' = promised \cup owed /\ owed \subseteq Sure)
  <2> USE DEF history
  <2>1. CASE Drained
    BY <2>1, CommitPromises
       DEF Drained, ReturnOk, NothingLeft, SInv, Placed, Busy, Preparing
  <2>2. CASE Prepare
    BY <2>2, CommitPromises
       DEF Prepare, ReturnOk, ReturnErr, SInv, Placed, Busy, Preparing
  <2>3. CASE Enqueue
    BY <2>3 DEF Enqueue, ReturnOk
  <2>4. CASE \/ \E R \in SUBSET fresh : Write(R)
             \/ Roll \/ Commit \/ Rollback \/ Shutdown \/ Reload \/ Upload \/ RecordManifest
    BY <2>4 DEF Write, Roll, Commit, Rollback, Shutdown, Reload, Upload, RecordManifest,
                ReturnErr
  <2>5. CASE Commits_
    BY <2>5 DEF Commits_, Recovers, Txn, Complete, RecoverBegin, RecoverEnd, TxnApply,
                TxnRebase, TxnConflict, TxnFail, TxnPanic, TxnUnchanged, Rival, vars
  <2>6. CASE Crash \/ Die \/ Restart \/ BootDone
    BY <2>6 DEF Crash, Die, Restart, BootDone
  <2> QED
    BY <2>1, <2>2, <2>3, <2>4, <2>5, <2>6 DEF Next, Prepares, Commits_
<1> QED
  BY <1>1, <1>2 DEF Promises

LEMMA RInvStep == RInv /\ [Next]_vars => RInv'
<1> SUFFICES ASSUME RInv, [Next]_vars PROVE RInv'
  OBVIOUS
<1>1. SInv' /\ NothingLeft'
  BY SInvStep, NothingLeftStep DEF RInv, SInv
<1>2. ASSUME ManifestDir', "manifest" \notin Happened' PROVE AllRecorded' /\ Promises'
  <2>1. ManifestDir /\ "manifest" \notin Happened
    BY <1>2, HappenedGrows, BuilderStays DEF RInv, SInv, IInv, ManifestDir
  <2> QED
    BY <1>2, <2>1, AllRecordedStep, PromisesStep DEF RInv, SInv
<1> QED
  BY <1>1, <1>2 DEF RInv

\* With a manifest directory, every record that some commit() answered Ok for
\* is in the table or in a manifest that the next start commits from, through
\* any crashes, failed commits and recoveries, unless a conflict was taken for
\* "already committed" or a manifest could not be written.
THEOREM CommittedStaysRecoverable == Spec => []CommittedIsRecoverable
<1>1. Init => RInv
  BY InitSInv DEF Init, RInv, NothingLeft, AllRecorded, Promises
<1>2. RInv => CommittedIsRecoverable
  BY DEF RInv, Promises, CommittedIsRecoverable
<1> QED
  BY <1>1, <1>2, RInvStep, PTL DEF Spec

-----------------------------------------------------------------------------
(* Nothing is appended twice.                                              *)

\* No record is in two prepared commits, and the batch that waits for a slot is
\* in no transaction, in no snapshot, and apart from all other commits.
PairsApart ==
  /\ \A c, d \in Commits : Prepared(c) /\ Prepared(d) /\ c # d => c \cap d = {}
  /\ pc = "reserve" =>
       /\ run[batch] = "none" /\ applied[batch] = 0
       /\ \A c \in Commits : Prepared(c) => c = batch \/ c \cap batch = {}

\* What the loop may be doing while nothing has disturbed it.
LoopUndisturbed ==
  /\ op = "roll" => AutoCommit
  /\ pc = "stopped" => InPipeline = {}
  /\ Undisturbed => pc \notin {"dying", "dead"}

\* A commit that a transaction or a manifest may still append was not appended.
AppendedOnce(c) ==
  /\ applied[c] <= 1
  /\ run[c] \in {"open", "err", "panic"} => applied[c] = 0
  /\ mfile[c] = "full" => c \in recorded
  /\ mfile[c] = "full" /\ run[c] = "none" => applied[c] = 0

OnceInv ==
  /\ SInv /\ LoopUndisturbed
  /\ Undisturbed => PairsApart /\ \A c \in Commits : AppendedOnce(c)

\* What is undisturbed now was undisturbed before, and saw no other fault.
LEMMA StaysUndisturbed ==
  ASSUME TypeOK, [Next]_vars, Undisturbed'
  PROVE  Undisturbed /\ \A k \in AllFaults \ {"catalog", "panic", "scan"} : ~Fault(k)
<1>1. Happened \subseteq Happened'
  BY HappenedGrows
<1>2. \A k : Fault(k) => k \in Happened'
  BY FaultHappened
<1> QED
  BY <1>1, <1>2, BuilderStays DEF Undisturbed, AutoCommit

\* A step outside the loop's handlers prepares nothing, and appends only what a
\* transaction has open; recovery alone opens one.
LEMMA CommitsApart ==
  ASSUME IInv, Commits_, pc # "boot", NEW c \in Commits
  PROVE  /\ Prepared(c)' => Prepared(c)
         /\ run[c] = "none" => run'[c] = "none" /\ applied'[c] = applied[c]
<1> USE DEF IInv, TypeOK, TxnType, DiskType
<1>1. Prepared(c)' => Prepared(c)
  BY CommitsKind
<1>2. ASSUME NEW d \in Commits, Complete(d)
      PROVE  run[c] = "none" => run'[c] = "none" /\ applied'[c] = applied[c]
  BY <1>2 DEF Complete, CloseTxn
<1>3. ASSUME NEW d \in Commits, Txn(d) \/ TxnFail(d) \/ TxnPanic(d)
      PROVE  run[c] = "none" => run'[c] = "none" /\ applied'[c] = applied[c]
  BY <1>3 DEF Txn, TxnApply, NewSnapshot, TxnRebase, TxnConflict, TxnFail, TxnPanic,
              TxnUnchanged
<1>4. ASSUME Rival \/ UNCHANGED vars
      PROVE  run[c] = "none" => run'[c] = "none" /\ applied'[c] = applied[c]
  BY <1>4 DEF Rival, vars, txns, disk
<1>5. ~ \E d \in Commits : Recovers(d)
  BY DEF Recovers, RecoverBegin, RecoverEnd
<1>6. run[c] = "none" => run'[c] = "none" /\ applied'[c] = applied[c]
  BY <1>2, <1>3, <1>4, <1>5 DEF Commits_
<1> QED
  BY <1>1, <1>6

LEMMA PairsApartStep ==
  ASSUME IInv, Placed, PreparedApart, PairsApart, [Next]_vars, Undisturbed'
  PROVE  PairsApart'
<1>0. ~Fault("manifest") /\ ~Fault("crash")
  BY StaysUndisturbed DEF IInv, AllFaults
<1> USE DEF PairsApart, Prepared, Placed, Busy, Preparing, IInv, TypeOK, DiskType, TxnType,
            LoopType, memory, loop, txns, disk
<1>1. CASE \/ \E R \in SUBSET fresh : Write(R)
           \/ Rollback \/ LoopMoves \/ Takes \/ GoesOn \/ GivesBack
  <2>1. UNCHANGED <<run, mfile, applied>> /\ pc' # "reserve"
    BY <1>1 DEF Write, Rollback, LoopMoves, Takes, GoesOn, GivesBack, ReturnErr
  <2> QED
    BY <2>1
<1>2. CASE RecordManifest
  <2>1. batch \in Commits /\ ~Prepared(batch)
    BY <1>2 DEF RecordManifest, FrontEnd, PreparedApart, Commits
  <2>2. /\ UNCHANGED <<run, applied, batch>> /\ pc = "record"
        /\ \A c \in Commits : Prepared(c)' => Prepared(c) \/ c = batch
    BY <1>0, <1>2 DEF RecordManifest
  <2>3. \A c \in Commits : Prepared(c) => c \cap batch = {}
    BY <2>2 DEF PreparedApart
  <2>4. run[batch] = "none" /\ applied[batch] = 0
    BY <2>1
  <2>5. \A c, d \in Commits : Prepared(c)' /\ Prepared(d)' /\ c # d => c \cap d = {}
    <3> SUFFICES ASSUME NEW c \in Commits, NEW d \in Commits, Prepared(c)', Prepared(d)', c # d
                 PROVE  c \cap d = {}
      OBVIOUS
    <3>1. (Prepared(c) \/ c = batch) /\ (Prepared(d) \/ d = batch)
      BY <2>2
    <3> QED
      BY <2>3, <3>1
  <2>6. \A c \in Commits : Prepared(c)' => c = batch' \/ c \cap batch' = {}
    BY <2>2, <2>3
  <2> QED
    BY <2>2, <2>4, <2>5, <2>6
<1>3. CASE Enqueue
  <2>1. \A c \in Commits : Prepared(c)' => Prepared(c) \/ c = batch
    BY <1>3 DEF Enqueue, OpenTxn
  <2>2. pc' # "reserve" /\ pc = "reserve"
    BY <1>3 DEF Enqueue, ReturnOk
  <2> QED
    BY <2>1, <2>2
<1>4. CASE Ends
  <2>1. \A c \in Commits : Prepared(c)' => Prepared(c)
    BY <1>0, <1>4 DEF Ends, LoseProcess
  <2> QED
    BY <1>4, <2>1 DEF Ends
<1>5. CASE Commits_
  <2>1. Background /\ \A c \in Commits : Prepared(c)' => Prepared(c)
    BY <1>5, CommitsKind
  <2>2. ASSUME pc' = "reserve" PROVE run'[batch'] = "none" /\ applied'[batch'] = 0
    <3>1. batch' = batch /\ pc = "reserve" /\ batch \in Commits
      BY <2>1, <2>2 DEF Background, FrontEnd, Commits
    <3> QED
      BY <1>5, <3>1, CommitsApart
  <2> QED
    BY <2>1, <2>2 DEF Background
<1> QED
  BY <1>1, <1>2, <1>3, <1>4, <1>5, StepKinds

LEMMA LoopUndisturbedStep ==
  ASSUME IInv, LoopUndisturbed, [Next]_vars
  PROVE  LoopUndisturbed'
<1>0. Undisturbed' => Undisturbed /\ \A k \in {"crash", "reload", "upload"} : ~Fault(k)
  BY StaysUndisturbed DEF IInv, AllFaults
<1>b. AutoCommit' = AutoCommit
  BY BuilderStays DEF AutoCommit
<1> USE DEF LoopUndisturbed, IInv, memory, loop
<1>1. CASE (\E R \in SUBSET fresh : Write(R)) \/ Roll \/ Commit \/ Shutdown \/ Rollback
  BY <1>b, <1>1 DEF Write, Roll, Commit, Shutdown, Rollback
<1>2. CASE BootDone \/ RecordManifest
  BY <1>b, <1>2 DEF BootDone, RecordManifest
<1>3. CASE Prepare
  BY <1>0, <1>b, <1>3 DEF Prepare, ReturnOk, ReturnErr, EndHandler, Undisturbed
<1>4. CASE Reload \/ Upload
  BY <1>0, <1>b, <1>4 DEF Reload, Upload, ReturnErr, EndHandler
<1>5. CASE Enqueue
  BY <1>b, <1>5 DEF Enqueue, ReturnOk, EndHandler
<1>6. CASE Drained
  BY <1>b, <1>6 DEF Drained, ReturnOk, EndHandler, AllJoined, InPipeline, txns
<1>7. CASE Commits_
  <2>1. Background
    BY <1>7, CommitsKind
  <2>2. pc # "boot" => \A c \in Commits : run[c] = "none" => run'[c] = "none"
    BY <1>7, CommitsApart
  <2> QED
    BY <1>0, <1>b, <2>1, <2>2 DEF Background, InPipeline
<1>8. CASE Crash \/ Die \/ Restart
  BY <1>0, <1>b, <1>8 DEF Crash, Die, Restart, LoseProcess
<1> QED
  BY <1>1, <1>2, <1>3, <1>4, <1>5, <1>6, <1>7, <1>8 DEF Next, Prepares, Commits_

\* Without a disturbance a step keeps every commit from being appended again.
LEMMA AppendedOnceStep ==
  ASSUME OnceInv, [Next]_vars, Undisturbed', NEW c \in Commits
  PROVE  AppendedOnce(c)'
<1> USE DEF AppendedOnce, OnceInv, SInv, IInv, TypeOK, TxnType, DiskType, memory, txns, disk,
            history
<1>0. /\ \A d \in Commits : AppendedOnce(d)
      /\ ~Fault("delete") /\ ~Fault("manifest") /\ ~Fault("lost_reply") /\ ~Fault("crash")
      /\ PairsApart /\ pc \notin {"dying", "dead"}
  BY StaysUndisturbed DEF AllFaults, LoopUndisturbed
<1>1. CASE (\E R \in SUBSET fresh : Write(R)) \/ Roll \/ Commit \/ Shutdown \/ Rollback
  BY <1>0, <1>1 DEF Write, Roll, Commit, Shutdown, Rollback
<1>2. CASE BootDone \/ Prepare \/ Reload \/ Upload \/ Drained
  BY <1>0, <1>2 DEF BootDone, Prepare, Reload, Upload, Drained
<1>3. CASE RecordManifest
  <2>1. ~Prepared(batch) /\ batch \in Commits
    BY <1>3 DEF RecordManifest, FrontEnd, PreparedApart, Preparing, Commits, LoopType
  <2> QED
    BY <1>0, <1>3, <2>1 DEF RecordManifest, Prepared
<1>4. CASE Enqueue
  BY <1>0, <1>4 DEF Enqueue, OpenTxn, PairsApart
<1>5. ASSUME NEW d \in Commits, Complete(d) PROVE AppendedOnce(c)'
  BY <1>0, <1>5 DEF Complete, CloseTxn, DeleteManifest, Succeeded
<1>6. ASSUME NEW d \in Commits, RecoverBegin(d) PROVE AppendedOnce(c)'
  BY <1>0, <1>6 DEF RecoverBegin, OpenTxn, DeleteManifest, InPipeline
<1>7. ASSUME NEW d \in Commits, RecoverEnd(d) PROVE AppendedOnce(c)'
  BY <1>0, <1>7 DEF RecoverEnd, CloseTxn, DeleteManifest, Succeeded
<1>8. ASSUME NEW d \in Commits, TxnApply(d) PROVE AppendedOnce(c)'
  BY <1>0, <1>8 DEF TxnApply, NewSnapshot, TxnUnchanged
<1>9. ASSUME NEW d \in Commits, TxnRebase(d) \/ TxnConflict(d) \/ TxnFail(d) \/ TxnPanic(d)
      PROVE  AppendedOnce(c)'
  BY <1>0, <1>9 DEF TxnRebase, TxnConflict, TxnFail, TxnPanic, TxnUnchanged
<1>10. CASE Rival \/ UNCHANGED vars
  BY <1>0, <1>10 DEF Rival, vars
<1>11. CASE Crash \/ Die
  BY <1>0, <1>11 DEF Crash, Die
<1>12. CASE Restart
  <2>1. pc = "stopped" /\ \A d \in Commits : run[d] = "none"
    BY <1>0, <1>12 DEF Restart, Down, LoopUndisturbed, InPipeline
  <2> QED
    BY <1>0, <1>12, <2>1 DEF Restart, LoseProcess
<1> QED
  BY <1>1, <1>2, <1>3, <1>4, <1>5, <1>6, <1>7, <1>8, <1>9, <1>10, <1>11, <1>12
     DEF Next, Prepares, Recovers, Txn

LEMMA OnceInvStep == OnceInv /\ [Next]_vars => OnceInv'
<1> SUFFICES ASSUME OnceInv, [Next]_vars PROVE OnceInv'
  OBVIOUS
<1>1. SInv' /\ LoopUndisturbed'
  BY SInvStep, LoopUndisturbedStep DEF OnceInv, SInv
<1>2. Undisturbed' => \A c \in Commits : AppendedOnce(c)'
  BY AppendedOnceStep
<1>3. Undisturbed' => PairsApart'
  BY PairsApartStep, StaysUndisturbed DEF OnceInv, SInv, IInv
<1> QED
  BY <1>1, <1>2, <1>3 DEF OnceInv

\* However commits fail, panic and are recovered by later starts, or passed
\* over by a start that cannot scan, no data file is added to the table twice and
\* no record by two of them, unless a step failed that may leave the manifest of
\* an applied commit behind or the roll timer met a record that does not
\* serialise.
THEOREM NothingTwice == Spec => []OnceWithoutLoss
<1>1. Init => OnceInv
  BY InitSInv, ConstantsAssumption
     DEF Init, OnceInv, PairsApart, Prepared, LoopUndisturbed, AppendedOnce
<1>2. OnceInv => OnceWithoutLoss
  BY DEF OnceInv, AppendedOnce, PairsApart, Prepared, OnceWithoutLoss, AtMostOnce
<1> QED
  BY <1>1, <1>2, OnceInvStep, PTL DEF Spec

-----------------------------------------------------------------------------
(* commit() by hand: what it answers Ok for is in the table.               *)

\* Without auto-commit only commit() and the last flush prepare anything; they
\* wait for the pipeline with nothing left in memory.
ManualLoop ==
  /\ pc # "dying" /\ op \in {"none", "commit", "final"}
  /\ pc \in Busy \cup {"prepare", "drain"} => op \in {"commit", "final"}
  /\ pc = "drain" /\ (op = "commit" \/ (faults = <<>> /\ Poison = {}))
       => buffer = {} /\ staged = {}

\* One transaction at a time, which only rivals make stale.
OneTxn ==
  /\ \A c, d \in InPipeline : c = d
  /\ pc \notin {"boot", "drain"} => InPipeline = {}
  /\ pc = "boot" => InPipeline \subseteq scan
  /\ stale \subseteq OpenTxns
  /\ \A c \in OpenTxns : tries[c] <= rivals /\ (c \in stale => tries[c] < rivals)

NoFailure ==
  /\ swallowed = {} /\ abandoned = {}
  /\ \A c \in Commits : run[c] \in {"none", "open", "ok"}

\* What this process owes of a manifest's commit is in the table or on its way
\* there, even when the manifest was cut to a part of its commit.
ManifestsApplied ==
  \A c \in Commits : mfile[c] = "full" =>
    c \cap owed \subseteq Visible \cup InFlight \cup (IF pc = "reserve" THEN batch ELSE {})

KeptPromises ==
  /\ promised \subseteq Visible
  /\ pc = "stopped" /\ faults = <<>> /\ Poison = {} => owed \subseteq Visible

DInv ==
  /\ SInv
  /\ ~AutoCommit => ManualLoop /\ OneTxn
  /\ ~AutoCommit /\ Answered => NoFailure /\ ManifestsApplied /\ KeptPromises

LEMMA StaysAnswered ==
  ASSUME TypeOK, [Next]_vars, Answered'
  PROVE  Answered /\ ~Fault("catalog") /\ ~Fault("lost_reply") /\ ~Fault("panic")
  BY HappenedGrows, FaultHappened DEF Answered

\* Where no fault has happened, none had happened before.
LEMMA StaysFaultless ==
  ASSUME TypeOK, [Next]_vars, faults' = <<>>
  PROVE  faults = <<>> /\ \A k : ~Fault(k)
<1>1. \A k : ~Fault(k)
  <2>1. Happened' = {}
    BY DEF Happened
  <2> QED
    BY <2>1, FaultHappened
<1> QED
  BY <1>1, OneFault DEF NoFault

LEMMA ManualLoopStep ==
  ASSUME ~AutoCommit, IInv, Placed, ManualLoop, [Next]_vars
  PROVE  ManualLoop'
<1>0. faults' = <<>> => faults = <<>> /\ \A k : ~Fault(k)
  BY StaysFaultless DEF IInv
<1> USE DEF ManualLoop, IInv, Placed, Busy, Preparing, memory, loop
<1>1. CASE (\E R \in SUBSET fresh : Write(R)) \/ Roll \/ Commit \/ Rollback
  BY <1>0, <1>1 DEF Write, Roll, Commit, Rollback
<1>2. CASE Shutdown \/ BootDone
  BY <1>0, <1>2 DEF Shutdown, Unflushed, BootDone
<1>3. CASE Prepare
  BY <1>0, <1>3 DEF Prepare, ReturnOk, ReturnErr, EndHandler, ClearMemory
<1>4. CASE Reload \/ Upload
  BY <1>0, <1>4 DEF Reload, Upload, Restore, ReturnErr, EndHandler
<1>5. CASE RecordManifest
  BY <1>0, <1>5 DEF RecordManifest
<1>6. CASE Enqueue
  BY <1>0, <1>6 DEF Enqueue, ReturnOk, EndHandler
<1>7. CASE Drained
  BY <1>0, <1>7 DEF Drained, ReturnOk, EndHandler
<1>8. CASE Commits_
  BY <1>0, <1>8, CommitsKind DEF Background
<1>9. CASE Crash \/ Die \/ Restart
  BY <1>0, <1>9 DEF Crash, Die, Restart, LoseProcess
<1> QED
  BY <1>1, <1>2, <1>3, <1>4, <1>5, <1>6, <1>7, <1>8, <1>9 DEF Next, Prepares, Commits_

\* With retries for every rival no conflict outlasts them.
LEMMA NoConflict ==
  ASSUME MaxRivals <= CommitRetries, IInv, OneTxn, NEW c \in Commits
  PROVE  ~TxnConflict(c)
<1> USE ConstantsAssumption DEF IInv, TypeOK, TxnType, HistoryType
<1>1. SUFFICES ASSUME c \in OpenTxns, c \in stale PROVE tries[c] < CommitRetries
  BY DEF TxnConflict, RetriesLeft, OpenTxns
<1>2. tries[c] < rivals /\ tries[c] \in Nat
  BY <1>1 DEF OneTxn
<1> QED
  BY <1>2

LEMMA OneTxnStep ==
  ASSUME ~AutoCommit, MaxRivals <= CommitRetries, IInv, Placed, ManualLoop, OneTxn, [Next]_vars
  PROVE  OneTxn'
<1> USE DEF OneTxn, InPipeline, OpenTxns, IInv, TypeOK, TxnType, memory, loop, txns, outside
<1>t. rivals \in Nat /\ \A c \in Commits : tries[c] \in Nat
  BY ConstantsAssumption DEF HistoryType
<1>1. CASE (\E R \in SUBSET fresh : Write(R)) \/ Roll \/ Commit \/ Rollback
  BY <1>1 DEF Write, Roll, Commit, Rollback
<1>2. CASE Shutdown \/ BootDone
  BY <1>2 DEF Shutdown, BootDone
<1>3. CASE Prepare
  BY <1>3 DEF Prepare, ReturnOk, ReturnErr
<1>4. CASE Reload \/ Upload \/ RecordManifest
  BY <1>4 DEF Reload, Upload, ReturnErr, RecordManifest
<1>5. CASE Enqueue
  <2>1. pc' = "drain" /\ batch \in Commits
    BY <1>5 DEF Enqueue, ReturnOk, ManualLoop, Busy, FrontEnd, LoopType, Commits
  <2>2. /\ run' = [run EXCEPT ![batch] = "open"] /\ tries' = [tries EXCEPT ![batch] = 0]
        /\ UNCHANGED <<stale, rivals>> /\ InPipeline = {}
    BY <1>5 DEF Enqueue, OpenTxn, outside
  <2>3. stale = {}
    BY <2>2
  <2> QED
    BY <1>t, <2>1, <2>2, <2>3
<1>6. CASE Drained
  BY <1>6 DEF Drained, ReturnOk, AllJoined
<1>7. ASSUME NEW c \in Commits, Complete(c) PROVE OneTxn'
  BY <1>7 DEF Complete, CloseTxn
<1>8. ASSUME NEW c \in Commits, RecoverBegin(c) PROVE OneTxn'
  <2>1. CASE mfile[c] = "full"
    <3>1. /\ run' = [run EXCEPT ![c] = "open"] /\ tries' = [tries EXCEPT ![c] = 0]
          /\ UNCHANGED <<pc, stale, scan, rivals>> /\ InPipeline = {} /\ c \in scan /\ pc = "boot"
      BY <1>8, <2>1 DEF RecoverBegin, OpenTxn, outside
    <3>2. stale = {}
      BY <3>1
    <3> QED
      BY <1>t, <3>1, <3>2
  <2>2. CASE mfile[c] # "full"
    BY <1>8, <2>2 DEF RecoverBegin
  <2> QED
    BY <2>1, <2>2
<1>9. ASSUME NEW c \in Commits, RecoverEnd(c) PROVE OneTxn'
  BY <1>9 DEF RecoverEnd, CloseTxn
<1>10. ASSUME NEW c \in Commits, TxnApply(c) PROVE OneTxn'
  BY <1>10 DEF TxnApply, NewSnapshot, TxnUnchanged
<1>11. ASSUME NEW c \in Commits, TxnRebase(c) PROVE OneTxn'
  BY <1>t, <1>11 DEF TxnRebase, TxnUnchanged
<1>12. ASSUME NEW c \in Commits, TxnFail(c) \/ TxnPanic(c) PROVE OneTxn'
  BY <1>12 DEF TxnFail, TxnPanic, TxnUnchanged
<1>13. CASE Rival
  BY <1>t, <1>13 DEF Rival
<1>14. CASE UNCHANGED vars
  BY <1>14 DEF vars
<1>15. CASE Crash \/ Die \/ Restart
  BY <1>15 DEF Crash, Die, Restart, LoseProcess
<1> QED
  BY <1>1, <1>2, <1>3, <1>4, <1>5, <1>6, <1>7, <1>8, <1>9, <1>10, <1>11, <1>12, <1>13, <1>14,
     <1>15, NoConflict DEF Next, Prepares, Recovers, Txn

LEMMA NoFailureStep ==
  ASSUME ~AutoCommit, MaxRivals <= CommitRetries, IInv, OneTxn, NoFailure, [Next]_vars, Answered'
  PROVE  NoFailure'
<1> USE DEF NoFailure, IInv, TypeOK, TxnType, memory, loop, txns, history
<1>0. /\ ~Fault("catalog") /\ ~Fault("lost_reply") /\ ~Fault("panic")
      /\ \A c \in Commits : ~TxnConflict(c)
  BY StaysAnswered, NoConflict
<1>1. CASE (\E R \in SUBSET fresh : Write(R)) \/ Roll \/ Commit \/ Rollback \/ Shutdown
  BY <1>1 DEF Write, Roll, Commit, Rollback, Shutdown
<1>2. CASE BootDone \/ Prepare \/ Reload \/ Upload \/ RecordManifest \/ Drained
  BY <1>2 DEF BootDone, Prepare, Reload, Upload, RecordManifest, Drained
<1>3. CASE Enqueue
  BY <1>3 DEF Enqueue, OpenTxn
<1>4. ASSUME NEW c \in Commits, Complete(c) \/ Recovers(c) PROVE NoFailure'
  BY <1>4 DEF Complete, Recovers, RecoverBegin, RecoverEnd, OpenTxn, CloseTxn, Succeeded
<1>5. ASSUME NEW c \in Commits, Txn(c) \/ TxnFail(c) \/ TxnPanic(c) PROVE NoFailure'
  BY <1>0, <1>5 DEF Txn, TxnApply, NewSnapshot, TxnRebase, TxnFail, TxnPanic, TxnUnchanged
<1>6. CASE Rival \/ UNCHANGED vars
  BY <1>6 DEF Rival, vars
<1>7. CASE Crash \/ Die \/ Restart
  BY <1>7 DEF Crash, Die, Restart, LoseProcess
<1> QED
  BY <1>1, <1>2, <1>3, <1>4, <1>5, <1>6, <1>7 DEF Next, Prepares

\* What is in the table stays there.
LEMMA VisibleGrows ==
  ASSUME TypeOK, [Next]_vars
  PROVE  Visible \subseteq Visible'
<1> USE DEF TypeOK, DiskType, disk, history
<1>1. UNCHANGED applied \/ \E c \in Commits : applied' = [applied EXCEPT ![c] = @ + 1]
  BY StepKinds DEF Write, Rollback, LoopMoves, Takes, GoesOn, GivesBack, RecordManifest,
     Enqueue, Ends, Commits_, Complete, Recovers, RecoverBegin, RecoverEnd, Txn, TxnApply,
     NewSnapshot, TxnRebase, TxnConflict, TxnFail, TxnPanic, TxnUnchanged, Rival, vars
<1>2. \A d \in Commits : applied[d] > 0 => applied'[d] > 0
  BY <1>1
<1> QED
  BY <1>2 DEF Visible

LEMMA ManifestsAppliedStep ==
  ASSUME SInv, NoFailure, ManifestsApplied, [Next]_vars
  PROVE  ManifestsApplied'
<1> DEFINE Waiting == IF pc = "reserve" THEN batch ELSE {}
           Kept == Visible \cup InFlight \cup Waiting
<1>0. TypeOK /\ Visible \subseteq Visible'
  BY VisibleGrows DEF SInv, IInv
<1> USE DEF memory, loop, txns, disk, history
<1>1. CASE \E R \in SUBSET fresh : Write(R)
  <2>1. PICK R \in SUBSET fresh : Write(R)
    BY <1>1
  <2>2. /\ owed' = owed \cup R /\ pc # "reserve"
        /\ UNCHANGED <<mfile, run>>
    BY <2>1 DEF Write
  <2>3. \A c \in Commits : mfile[c] = "full" => c \cap R = {}
    BY <2>1 DEF SInv, PreparedApart, Prepared
  <2>4. InFlight' = InFlight
    BY <2>2 DEF InFlight, InPipeline
  <2> QED
    BY <1>0, <2>2, <2>3, <2>4 DEF ManifestsApplied
<1>2. CASE Rollback \/ LoopMoves \/ Takes \/ GoesOn \/ GivesBack
  <2>1. owed' \subseteq owed /\ pc # "reserve" /\ UNCHANGED <<mfile, run>>
    BY <1>2 DEF Rollback, LoopMoves, Takes, GoesOn, GivesBack, Busy
  <2>2. InFlight' = InFlight
    BY <2>1 DEF InFlight, InPipeline
  <2> QED
    BY <1>0, <2>1, <2>2 DEF ManifestsApplied
<1>3. CASE RecordManifest
  <2>1. /\ UNCHANGED <<owed, run, batch>> /\ pc = "record" /\ pc' = "reserve"
    BY <1>3 DEF RecordManifest
  <2>2. batch \in Commits
    BY <2>1 DEF SInv, IInv, FrontEnd, Preparing, TypeOK, LoopType, Commits
  <2>3. \A c \in Commits : mfile'[c] = mfile[c] \/ c \subseteq batch
    BY <1>0, <1>3, <2>2, PartlyWrittenMakes DEF RecordManifest, TypeOK, DiskType
  <2>4. InFlight' = InFlight
    BY <2>1 DEF InFlight, InPipeline
  <2> QED
    BY <1>0, <2>1, <2>3, <2>4 DEF ManifestsApplied
<1>4. CASE Enqueue
  <2>1. /\ pc = "reserve" /\ run' = [run EXCEPT ![batch] = "open"] /\ UNCHANGED <<mfile, owed>>
    BY <1>4 DEF Enqueue, OpenTxn
  <2>2. batch \in Commits
    BY <2>1 DEF SInv, IInv, FrontEnd, TypeOK, LoopType, Commits
  <2>3. InFlight \cup batch \subseteq InFlight'
    BY <1>0, <2>1, <2>2 DEF InFlight, InPipeline, TypeOK, TxnType
  <2> QED
    BY <1>0, <2>1, <2>3 DEF ManifestsApplied
<1>5. CASE Commits_
  <2>1. UNCHANGED <<pc, batch, owed>>
    BY <1>5, CommitsKind DEF SInv, Background
  <2>2. \A c \in Commits : mfile'[c] = "full" => mfile[c] = "full"
    BY <1>0, <1>5 DEF Commits_, Recovers, Txn, Complete, RecoverBegin, RecoverEnd, DeleteManifest,
       TxnApply, NewSnapshot, TxnRebase, TxnConflict, TxnFail, TxnPanic, TxnUnchanged, Rival,
       vars, TypeOK, DiskType
  <2>3. \A c \in Commits : run[c] # "none" => run'[c] # "none" \/ applied'[c] > 0
    <3> USE <1>0 DEF TypeOK, TxnType, DiskType
    <3>1. ASSUME NEW d \in Commits, Complete(d) \/ RecoverEnd(d)
          PROVE  \A c \in Commits : run[c] # "none" => run'[c] # "none" \/ applied'[c] > 0
      <4>1. applied[d] > 0
        BY <3>1 DEF Complete, RecoverEnd, NoFailure, SInv, IInv, OkMeansApplied
      <4> QED
        BY <3>1, <4>1 DEF Complete, RecoverEnd, CloseTxn
    <3>2. ASSUME NEW d \in Commits, RecoverBegin(d)
          PROVE  \A c \in Commits : run[c] # "none" => run'[c] # "none" \/ applied'[c] > 0
      BY <3>2 DEF RecoverBegin, InPipeline
    <3>3. ASSUME NEW d \in Commits, Txn(d) \/ TxnFail(d) \/ TxnPanic(d)
          PROVE  \A c \in Commits : run[c] # "none" => run'[c] # "none" \/ applied'[c] > 0
      BY <3>3 DEF Txn, TxnApply, NewSnapshot, TxnRebase, TxnConflict, TxnFail, TxnPanic,
                  TxnUnchanged
    <3>4. CASE Rival \/ UNCHANGED vars
      BY <3>4 DEF Rival, vars
    <3> QED
      BY <1>5, <3>1, <3>2, <3>3, <3>4 DEF Commits_, Recovers
  <2>4. InFlight \subseteq Visible' \cup InFlight'
    BY <2>3 DEF InFlight, InPipeline, Visible
  <2> QED
    BY <1>0, <2>1, <2>2, <2>4 DEF ManifestsApplied
<1>6. CASE Ends
  BY <1>6 DEF Ends, LoseProcess, ManifestsApplied
<1> QED
  BY <1>1, <1>2, <1>3, <1>4, <1>5, <1>6, StepKinds

\* With memory and pipeline empty, everything owed is in the table.
LEMMA AllVisible ==
  ASSUME SInv, NoFailure, ManifestsApplied, InPipeline = {},
         buffer = {}, staged = {}, batch = {}, pc \notin Down \cup {"boot", "reserve"}
  PROVE  owed \subseteq Visible
<1>1. OnDisk \cap owed \subseteq Visible
  BY DEF OnDisk, ManifestsApplied, InFlight
<1>2. owed \subseteq Visible \cup OnDisk
  BY DEF SInv, NoSilentDrop, InMemory, InFlight, NoFailure
<1> QED
  BY <1>1, <1>2

LEMMA KeptPromisesStep ==
  ASSUME SInv, ManualLoop, OneTxn, NoFailure, ManifestsApplied, KeptPromises, [Next]_vars
  PROVE  KeptPromises'
<1>0. /\ Visible \subseteq Visible'
      /\ faults' = <<>> => faults = <<>>
  BY VisibleGrows, StaysFaultless DEF SInv, IInv
<1> USE DEF KeptPromises, Busy, Preparing, memory, loop, history
<1>1. CASE \/ \E R \in SUBSET fresh : Write(R)
           \/ Roll \/ Commit \/ Rollback \/ Shutdown \/ BootDone
  BY <1>0, <1>1 DEF Write, Roll, Commit, Rollback, Shutdown, BootDone
<1>2. CASE Reload \/ Upload \/ RecordManifest
  BY <1>0, <1>2 DEF Reload, Upload, RecordManifest, ReturnErr
<1>3. CASE Prepare
  <2>1. pc = "prepare" /\ batch = {} /\ InPipeline = {}
    BY <1>3 DEF Prepare, SInv, Placed, OneTxn
  <2>2. buffer = {} /\ staged = {} => owed \subseteq Visible
    BY <2>1, AllVisible DEF Down
  <2> QED
    BY <1>0, <1>3, <2>2 DEF Prepare, ReturnOk, ReturnErr
<1>4. CASE Enqueue
  BY <1>0, <1>4 DEF Enqueue, ReturnOk, ManualLoop
<1>5. CASE Drained
  <2>1. pc = "drain" /\ batch = {} /\ InPipeline = {} /\ UNCHANGED owed
    BY <1>5 DEF Drained, AllJoined, SInv, Placed
  <2>2. buffer = {} /\ staged = {} => owed \subseteq Visible
    BY <2>1, AllVisible DEF Down
  <2>3. /\ promised' = promised \/ (op = "commit" /\ promised' = promised \cup owed)
        /\ pc' \in {"stopped", "idle", "drain"}
    BY <1>5 DEF Drained, ReturnOk
  <2> QED
    BY <1>0, <2>1, <2>2, <2>3 DEF ManualLoop
<1>6. CASE Commits_
  <2>1. UNCHANGED <<pc, owed>>
    BY <1>6, CommitsKind DEF SInv, Background
  <2>2. UNCHANGED promised
    BY <1>6 DEF Commits_, Complete, Recovers, RecoverBegin, RecoverEnd, Txn, TxnApply,
       TxnRebase, TxnConflict, TxnFail, TxnPanic, TxnUnchanged, Rival, vars
  <2> QED
    BY <1>0, <2>1, <2>2
<1>7. CASE Crash \/ Die \/ Restart
  BY <1>0, <1>7 DEF Crash, Die, Restart
<1> QED
  BY <1>1, <1>2, <1>3, <1>4, <1>5, <1>6, <1>7 DEF Next, Prepares, Commits_

LEMMA DInvHolds ==
  ASSUME MaxRivals <= CommitRetries
  PROVE  Spec => []DInv
<1>1. Init => DInv
  <2> SUFFICES ASSUME Init PROVE DInv
    OBVIOUS
  <2>1. SInv /\ ManualLoop /\ NoFailure /\ ManifestsApplied /\ KeptPromises
    BY InitSInv DEF Init, ManualLoop, Busy, Preparing, NoFailure, ManifestsApplied, KeptPromises
  <2>2. OneTxn
    BY DEF Init, OneTxn, InPipeline, OpenTxns
  <2> QED
    BY <2>1, <2>2 DEF DInv
<1>2. DInv /\ [Next]_vars => DInv'
  <2> SUFFICES ASSUME DInv, [Next]_vars PROVE DInv'
    OBVIOUS
  <2>0. AutoCommit' = AutoCommit
    BY BuilderStays DEF AutoCommit
  <2>1. SInv'
    BY SInvStep DEF DInv
  <2>2. ~AutoCommit => ManualLoop' /\ OneTxn'
    BY ManualLoopStep, OneTxnStep DEF DInv, SInv
  <2>3. Answered' => Answered
    BY StaysAnswered DEF DInv, SInv, IInv
  <2>4. ~AutoCommit /\ Answered' => NoFailure' /\ ManifestsApplied' /\ KeptPromises'
    BY <2>3, NoFailureStep, ManifestsAppliedStep, KeptPromisesStep DEF DInv, SInv
  <2> QED
    BY <2>0, <2>1, <2>2, <2>4 DEF DInv
<1> QED
  BY <1>1, <1>2, PTL DEF Spec

\* Where a client commits by hand, the catalog answers truly and a transaction
\* may be rebased as often as others commit, every record that some commit()
\* answered Ok for is in the table, through crashes, failed uploads, failed
\* manifests and recoveries.
THEOREM CommitsAreDurable ==
  ASSUME MaxRivals <= CommitRetries
  PROVE  Spec => []CommittedIsDurable
<1>1. DInv => CommittedIsDurable
  BY DEF DInv, KeptPromises, CommittedIsDurable
<1> QED
  BY <1>1, DInvHolds, PTL

\* Such a sink that stops without a fault leaves nothing behind: all that it
\* accepted and did not roll back is in the table, provided it serialises.
THEOREM StopLeavesNothing ==
  ASSUME MaxRivals <= CommitRetries, Poison = {}
  PROVE  Spec => []StopFlushesAll
<1>1. DInv => StopFlushesAll
  <2> SUFFICES ASSUME DInv, ~AutoCommit, pc = "stopped", faults = <<>>
               PROVE  owed \subseteq Visible
    BY DEF StopFlushesAll
  <2>1. Happened = {}
    BY DEF Happened
  <2> QED
    BY <2>1 DEF DInv, Answered, KeptPromises
<1> QED
  BY <1>1, DInvHolds, PTL

-----------------------------------------------------------------------------
(* The record store: every step of the loop, of a transaction and of       *)
(* recovery is one of the store's steps, or changes no record's status.    *)

\* What the store's status is mapped to.
Status == [r \in Records |-> StatusOf(r)]

Pending ==
  {r \in Records : /\ r \notin Visible \cup fresh \cup rolled
                   /\ r \in InMemory \cup OnDisk \cup UNION OpenTxns}

\* The four statuses exclude each other.
Classified ==
  [r \in Records |-> IF r \in Visible THEN "visible" ELSE IF r \in fresh THEN "fresh"
                     ELSE IF r \in Pending THEN "pending" ELSE "dropped"]

LEMMA StatusIs == SInv => Status = Classified
<1> SUFFICES ASSUME SInv, NEW r \in Records
             PROVE  StatusOf(r) = IF r \in Visible THEN "visible"
                                  ELSE IF r \in fresh THEN "fresh"
                                  ELSE IF r \in Pending THEN "pending"
                                  ELSE "dropped"
  BY DEF Status, Classified
<1>1. ~(r \in Visible /\ r \in fresh)
  BY DEF SInv, PreparedApart, Prepared, Visible
<1> HIDE DEF Visible
<1>2. CASE r \in Visible
  BY <1>1, <1>2 DEF StatusOf
<1>3. CASE r \in fresh
  BY <1>1, <1>3 DEF StatusOf
<1>4. CASE r \notin Visible /\ r \notin fresh /\ r \in Pending
  BY <1>4 DEF StatusOf, Pending
<1>5. CASE r \notin Visible /\ r \notin fresh /\ r \notin Pending
  BY <1>5 DEF StatusOf, Pending
<1> QED
  BY <1>1, <1>2, <1>3, <1>4, <1>5

\* The same of the state after a step.
LEMMA StatusIsNext == SInv' => Status' = Classified'
<1>1. SInv' => (Status = Classified)'
  BY StatusIs, PTL
<1> QED
  BY <1>1

\* Records stay fresh, and the table stays as it is, while some records stop
\* being pending: the store drops them.
LEMMA OnlyDrops ==
  ASSUME SInv, SInv', UNCHANGED fresh, Visible' = Visible, Pending' \subseteq Pending
  PROVE  Store!Next \/ UNCHANGED Status
<1> DEFINE R == Pending \ Pending'
<1>1. Status = Classified /\ Status' = Classified'
  BY StatusIs, StatusIsNext
<1>2. Classified' = [r \in Records |-> IF r \in Visible THEN "visible"
                                       ELSE IF r \in fresh THEN "fresh"
                                       ELSE IF r \in Pending' THEN "pending" ELSE "dropped"]
  BY DEF Classified
<1>3. R \subseteq Records /\ \A r \in R : Status[r] = "pending"
  BY <1>1 DEF Pending, Classified
<1>4. Status' = [r \in Records |-> IF r \in R THEN "dropped" ELSE Status[r]]
  BY <1>1, <1>2, <1>3 DEF Pending, Classified
<1>5. Store!Drop(R)
  BY <1>3, <1>4 DEF Store!Drop, Store!InStatus, Store!Move, Status
<1> QED
  BY <1>3, <1>5 DEF Store!Next

\* Every commit in question: the invariant's facts about one.
LEMMA PreparedFacts ==
  ASSUME SInv, NEW c \in Commits, Prepared(c)
  PROVE  c \subseteq Records /\ c \cap (fresh \cup buffer \cup staged \cup rolled) = {}
BY DEF SInv, PreparedApart, RolledApart, Commits

\* A write: fresh records become pending.
LEMMA WriteAccepts ==
  ASSUME SInv, SInv', NEW R \in SUBSET fresh, Write(R)
  PROVE  Store!Next
<1> USE DEF SInv, IInv, TypeOK, HistoryType
<1>1. /\ R \subseteq Records /\ fresh' = fresh \ R
      /\ InMemory' = InMemory \cup R
      /\ UNCHANGED <<Visible, OnDisk, rolled, OpenTxns>>
  BY DEF Write, InMemory, Visible, OnDisk, OpenTxns, txns, disk
<1>2. R \cap (Visible \cup rolled) = {}
  BY DEF PreparedApart, Prepared, Visible, RolledApart
<1>3. Pending' = Pending \cup R
  BY <1>1, <1>2 DEF Pending, PreparedApart, Prepared, InMemory, OnDisk, OpenTxns, FrontEnd,
                    Placed, Busy, Preparing
<1>4. Status = Classified /\ Status' = Classified'
  BY StatusIs, StatusIsNext
<1>5. R \subseteq Records /\ \A r \in R : Status[r] = "fresh"
  BY <1>1, <1>2, <1>4 DEF Classified
<1>6. Status' = [r \in Records |-> IF r \in R THEN "pending" ELSE Status[r]]
  BY <1>1, <1>2, <1>3, <1>4 DEF Classified
<1>7. Store!Accept(R)
  BY <1>5, <1>6 DEF Store!Accept, Store!InStatus, Store!Move, Status
<1> QED
  BY <1>5, <1>7 DEF Store!Next

\* An append that the catalog accepts: what was pending of it becomes visible.
LEMMA ApplyPublishes ==
  ASSUME SInv, SInv', NEW c \in Commits, TxnApply(c)
  PROVE  Store!Next
<1> DEFINE R == c \ Visible
<1> USE DEF SInv, IInv, TypeOK, DiskType, TxnType
<1>1. /\ UNCHANGED <<fresh, rolled, InMemory, OnDisk>> /\ c \in OpenTxns
      /\ Visible' = Visible \cup c
      /\ OpenTxns' = OpenTxns \ {c}
  BY DEF TxnApply, NewSnapshot, TxnUnchanged, InMemory, OnDisk, Visible, OpenTxns, memory, loop
<1>2. c \subseteq Records /\ c \cap (fresh \cup rolled) = {}
  BY <1>1, PreparedFacts DEF Prepared, OpenTxns
<1>3. R \subseteq Pending
  BY <1>1, <1>2 DEF Pending
<1>4. Pending' = Pending \ c
  BY <1>1, <1>2 DEF Pending
<1>5. Status = Classified /\ Status' = Classified'
  BY StatusIs, StatusIsNext
<1>6. R \subseteq Records /\ \A r \in R : Status[r] = "pending"
  BY <1>2, <1>3, <1>5 DEF Classified
<1>7. Status' = [r \in Records |-> IF r \in R THEN "visible" ELSE Status[r]]
  BY <1>1, <1>2, <1>4, <1>5 DEF Classified
<1>8. Store!Publish(R)
  BY <1>6, <1>7 DEF Store!Publish, Store!InStatus, Store!Move, Status
<1> QED
  BY <1>6, <1>8 DEF Store!Next

\* A commit step opens no transaction without a manifest and writes no manifest.
NothingNewPending ==
  /\ applied' = applied
  /\ \A c \in Commits :
       /\ mfile'[c] = "full" => mfile[c] = "full"
       /\ run'[c] = "open" => run[c] = "open" \/ mfile[c] = "full"

\* What is pending after the other steps was so before.
LEMMA OthersDrop ==
  ASSUME SInv, SInv', [Next]_vars,
         ~ \E R \in SUBSET fresh : Write(R), ~ \E c \in Commits : TxnApply(c)
  PROVE  UNCHANGED fresh /\ Visible' = Visible /\ Pending' \subseteq Pending
<1> USE DEF Visible, OnDisk, OpenTxns, InMemory, memory, loop, txns, disk, history
<1>0. TypeOK
  BY DEF SInv, IInv
<1>1. CASE Rollback
  BY <1>1 DEF Rollback, ClearMemory, Pending
<1>2. CASE LoopMoves
  BY <1>2 DEF LoopMoves, Pending
<1>3. CASE Takes
  BY <1>3 DEF Takes, ClearMemory, Pending
<1>4. CASE GoesOn
  BY <1>4 DEF GoesOn, Pending
<1>5. CASE GivesBack
  BY <1>5 DEF GivesBack, Restore, Pending
<1>6. CASE RecordManifest
  <2>0. batch \in Commits
    BY <1>0, <1>6 DEF RecordManifest, SInv, IInv, FrontEnd, Preparing, TypeOK, LoopType, Commits
  <2>1. \A c \in Commits : mfile'[c] = "full" => mfile[c] = "full" \/ c \subseteq batch
    BY <1>0, <1>6, <2>0, PartlyWrittenMakes DEF RecordManifest, TypeOK, DiskType
  <2> QED
    BY <1>6, <2>1 DEF RecordManifest, Pending
<1>7. CASE Enqueue
  <2>1. \A c \in Commits : run'[c] = "open" => run[c] = "open" \/ c = batch
    BY <1>0, <1>7 DEF Enqueue, OpenTxn, TypeOK, TxnType
  <2> QED
    BY <1>7, <2>1 DEF Enqueue, Pending
<1>8. CASE Ends
  <2>0. pc = "record" => batch \in Commits
    BY <1>0 DEF SInv, IInv, FrontEnd, Preparing, TypeOK, LoopType, Commits
  <2>1. \A c \in Commits : mfile'[c] = "full" => mfile[c] = "full" \/ c \subseteq batch
    BY <1>0, <1>8, <2>0, PartlyWrittenMakes DEF Ends, TypeOK, DiskType
  <2>2. OpenTxns' = {}
    BY <1>8 DEF Ends, LoseProcess
  <2> QED
    BY <1>8, <2>1, <2>2 DEF Ends, LoseProcess, ClearMemory, Pending
<1>9. CASE Commits_
  <2>1. Background /\ NothingNewPending
    <3> USE <1>0 DEF TypeOK, DiskType, TxnType
    <3>0. Background
      BY <1>9, CommitsKind DEF SInv
    <3>1. ASSUME NEW c \in Commits, Complete(c) \/ RecoverEnd(c) PROVE NothingNewPending
      BY <3>1 DEF NothingNewPending, Complete, RecoverEnd, CloseTxn, DeleteManifest
    <3>2. ASSUME NEW c \in Commits, RecoverBegin(c) PROVE NothingNewPending
      BY <3>2 DEF NothingNewPending, RecoverBegin, OpenTxn, DeleteManifest
    <3>3. ASSUME NEW c \in Commits, TxnRebase(c) \/ TxnConflict(c) PROVE NothingNewPending
      BY <3>3 DEF NothingNewPending, TxnRebase, TxnConflict, TxnUnchanged
    <3>4. ASSUME NEW c \in Commits, TxnFail(c) \/ TxnPanic(c) PROVE NothingNewPending
      BY <3>4 DEF NothingNewPending, TxnFail, TxnPanic, TxnUnchanged
    <3>5. CASE Rival \/ UNCHANGED vars
      BY <3>0, <3>5 DEF NothingNewPending, Rival, vars
    <3> QED
      BY <1>9, <3>0, <3>1, <3>2, <3>3, <3>4, <3>5 DEF Commits_, Recovers, Txn
  <2> QED
    BY <2>1 DEF Background, NothingNewPending, Pending
<1> QED
  BY <1>1, <1>2, <1>3, <1>4, <1>5, <1>6, <1>7, <1>8, <1>9, StepKinds

LEMMA StepImplements ==
  ASSUME SInv, SInv', [Next]_vars
  PROVE  [Store!Next]_Status
<1>1. CASE \E R \in SUBSET fresh : Write(R)
  BY <1>1, WriteAccepts
<1>2. CASE \E c \in Commits : TxnApply(c)
  BY <1>2, ApplyPublishes
<1>3. CASE (~ \E R \in SUBSET fresh : Write(R)) /\ ~ \E c \in Commits : TxnApply(c)
  BY <1>3, OthersDrop, OnlyDrops
<1> QED
  BY <1>1, <1>2, <1>3

\* The sink implements RecordStore: committed records stay in the table and
\* discarded ones never come back, for all the constants.
THEOREM SinkImplementsStore == Spec => ImplementsStore
<1>1. Init => Store!Init
  <2> SUFFICES ASSUME Init PROVE Store!Init
    OBVIOUS
  <2>1. SInv
    BY InitSInv
  <2>2. Visible = {} /\ fresh = Records
    BY DEF Init, Visible
  <2>3. Status = [r \in Records |-> "fresh"]
    BY <2>1, <2>2, StatusIs DEF Classified
  <2> QED
    BY <2>3 DEF Store!Init, Status
<1>2. SInv /\ SInv' /\ [Next]_vars => [Store!Next]_Status
  BY StepImplements
<1> QED
  BY <1>1, <1>2, SInvHolds, PTL DEF Spec, ImplementsStore, Store!Spec, Status
=============================================================================
