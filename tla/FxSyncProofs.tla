---------------------------- MODULE FxSyncProofs ----------------------------
(***************************************************************************)
(* Proofs about FxSync, and about FxSyncIrq and SdWindow, which add the    *)
(* interrupt line and the SD exchanges to it, for every ring size, chip    *)
(* and set of CPU accesses.                                                *)
(***************************************************************************)
EXTENDS FxSyncIrq, SdWindow, SequenceTheorems, TLAPS

\* What the core's operations do to an FxState leaves it an FxState.
LEMMA FxTypes ==
  ASSUME NEW f \in FxStates
  PROVE  /\ ResetFx \in FxStates
         /\ ReadSfrHigh(f) \in FxStates
         /\ Plain(f) \in FxStates
         /\ \A raise \in BOOLEAN : Stop(f, raise) \in FxStates
         /\ \A w : CpuWrite(f, w) \in FxStates
         /\ \A c : Apply(f, c) \in FxStates
<1>1. ResetFx \in FxStates
  BY Zenon DEF ResetFx, FxStates
<1>2. ReadSfrHigh(f) \in FxStates
  BY Zenon DEF ReadSfrHigh, FxStates
<1>3. Plain(f) \in FxStates
  BY Zenon DEF Plain, FxStates
<1>4. ASSUME NEW raise \in BOOLEAN PROVE Stop(f, raise) \in FxStates
  BY Zenon DEF Stop, FxStates
<1>5. ASSUME NEW w PROVE CpuWrite(f, w) \in FxStates
  BY ZenonT(60) DEF CpuWrite, FxStates
<1>6. ASSUME NEW c PROVE Apply(f, c) \in FxStates
  BY <1>1, <1>5, Zenon DEF Apply
<1>7. QED
  BY <1>1, <1>2, <1>3, <1>4, <1>5, <1>6

\* What is published of an FxState is a snapshot and an access word.
LEMMA PublishTypes ==
  ASSUME NEW f \in FxStates
  PROVE  /\ \A c \in BOOLEAN : Snapshot(f, c) \in Snapshots
         /\ AccessState(f) \in [rom : BOOLEAN, ram : BOOLEAN]
<1>1. ASSUME NEW c \in BOOLEAN PROVE Snapshot(f, c) \in Snapshots
  BY Zenon DEF Snapshot, Snapshots, FxStates
<1>2. AccessState(f) \in [rom : BOOLEAN, ram : BOOLEAN]
  BY Zenon DEF AccessState
<1>3. QED
  BY <1>1, <1>2

\* The ring index wraps inside the ring.
LEMMA SlotType == \A i \in Slots : NextSlot(i) \in Slots
  BY SizeAssumption DEF Slots, NextSlot

\* One step from well-typed variables: they stay so, and each handler keeps
\* serving an access of its own kind.
LEMMA TypeStep == TypeOK /\ OpPlaced /\ [Next]_vars => TypeOK' /\ OpPlaced'
<1> SUFFICES ASSUME TypeOK, OpPlaced, [Next]_vars PROVE TypeOK' /\ OpPlaced'
  OBVIOUS
<1> USE SizeAssumption, ChipAssumption, AccessAssumption
<1>1. TypeOK'
  <2> USE DEF TypeOK
  <2>1. ASSUME NEW op \in CpuWrites \cup CpuReads \cup RamWrites, BusAccess(op)
        PROVE  TypeOK'
    BY <2>1 DEF BusAccess, stateVars, ringVars, pubVars, core1Vars, Core0Places
  <2>2. CASE ConsoleReset
    BY <2>2 DEF ConsoleReset, stateVars, ringVars, pubVars, core1Vars,
       core0Vars
  <2>3. CASE ServiceReset
    BY <2>3 DEF ServiceReset, Go0, stateVars, ringVars, pubVars, core1Vars,
       core0Vars, Core0Places, Core0Gated, Core0Direct
  <2>4. CASE WriteLock
    BY <2>4 DEF WriteLock, Enter0, ringVars, pubVars, core1Vars, Go0,
       stateVars, core0Vars, Core0Places, Core0Gated, Core0Direct
  <2>5. CASE WriteDropped
    BY <2>5 DEF WriteDropped, Return0, ringVars, pubVars, core1Vars, Exit0,
       stateVars, core0Vars, Go0, Core0Places, Core0Gated, Core0Direct
  <2>6. CASE WriteQueue
    BY <2>6 DEF WriteQueue, OpPlaced, WritePlaces, Go0, stateVars, pubVars, core1Vars, ringVars,
       core0Vars, Command, Slots, Core0Places, Core0Gated, Core0Direct
  <2>7. CASE WritePush
    BY <2>7, SlotType DEF WritePush, Return0, pubVars, core1Vars, Exit0,
       stateVars, ringVars, core0Vars, Go0, Core0Places, Core0Gated, Core0Direct
  <2>8. CASE WriteFull
    BY <2>8 DEF WriteFull, Exit0, ringVars, pubVars, core1Vars, Go0,
       stateVars, core0Vars, Core0Places, Core0Gated, Core0Direct
  <2>9. CASE WriteDirect
    BY <2>9 DEF WriteDirect, Go0, stateVars, ringVars, pubVars, core1Vars,
       core0Vars, Core0Places, Core0Gated, Core0Direct
  <2>10. CASE WriteApply
    BY <2>10, FxTypes, PublishTypes DEF WriteApply, Return0, Publish0,
       ringVars, core1Vars, Exit0, stateVars, pubVars, core0Vars, Go0,
       Core0Places, Core0Gated, Core0Direct
  <2>11. CASE ResetLock
    BY <2>11 DEF ResetLock, Enter0, ringVars, pubVars, core1Vars, Go0,
       stateVars, core0Vars, Core0Places, Core0Gated, Core0Direct
  <2>12. CASE ResetQueue
    BY <2>12 DEF ResetQueue, Go0, stateVars, pubVars, core1Vars, ringVars,
       core0Vars, Command, Core0Places, Core0Gated, Core0Direct
  <2>13. CASE ResetPush
    BY <2>13, SlotType DEF ResetPush, Go0, stateVars, pubVars, core1Vars,
       ringVars, core0Vars, Core0Places, Core0Gated, Core0Direct
  <2>14. CASE ResetMark
    BY <2>14 DEF ResetMark, ResetAccepted, ringVars, core1Vars, stateVars,
       pubVars, core0Vars, Core0Places, Core0Gated, Core0Direct
  <2>15. CASE ResetFull
    BY <2>15 DEF ResetFull, Exit0, ringVars, pubVars, core1Vars, Go0,
       stateVars, core0Vars, Core0Places, Core0Gated, Core0Direct
  <2>16. CASE ResetDirect
    BY <2>16 DEF ResetDirect, Go0, stateVars, ringVars, pubVars, core1Vars,
       core0Vars, Core0Places, Core0Gated, Core0Direct
  <2>17. CASE ResetApply
    BY <2>17, FxTypes, PublishTypes DEF ResetApply, Publish0, ResetAccepted,
       ringVars, core1Vars, stateVars, pubVars, core0Vars, Core0Places,
       Core0Gated, Core0Direct
  <2>18. CASE ReadLock
    BY <2>18 DEF ReadLock, Enter0, ringVars, pubVars, core1Vars, Go0,
       stateVars, core0Vars, Core0Places, Core0Gated, Core0Direct
  <2>19. CASE ReadDirect
    BY <2>19 DEF ReadDirect, Go0, stateVars, ringVars, pubVars, core1Vars,
       core0Vars, Core0Places, Core0Gated, Core0Direct
  <2>20. CASE ReadApply
    BY <2>20, FxTypes, PublishTypes DEF ReadApply, Return0, Publish0,
       ringVars, core1Vars, Exit0, stateVars, pubVars, core0Vars, Go0,
       Core0Places, Core0Gated, Core0Direct
  <2>21. CASE ReadOwned
    BY <2>21 DEF ReadOwned, Exit0, ringVars, pubVars, core1Vars, Go0,
       stateVars, core0Vars, Core0Places, Core0Gated, Core0Direct
  <2>22. CASE ReadSnapshot
    BY <2>22 DEF ReadSnapshot, Go0, stateVars, ringVars, pubVars, core1Vars,
       core0Vars, None, Core0Places, Core0Gated, Core0Direct
  <2>23. CASE ReadArm
    BY <2>23 DEF ReadArm, Go0, ringVars, pubVars, core1Vars, stateVars,
       core0Vars, Core0Places, Core0Gated, Core0Direct
  <2>24. CASE ReadLine
    BY <2>24 DEF ReadLine, Go0, stateVars, ringVars, core1Vars, pubVars,
       core0Vars, Core0Places, Core0Gated, Core0Direct
  <2>25. CASE ReadDeferred
    BY <2>25 DEF ReadDeferred, Return0, ringVars, pubVars, core1Vars, Exit0,
       stateVars, core0Vars, Go0, Core0Places, Core0Gated, Core0Direct
  <2>26. CASE ReadClear
    BY <2>26, FxTypes, PublishTypes DEF ReadClear, Return0, Publish0,
       ringVars, core1Vars, Exit0, stateVars, pubVars, core0Vars, Go0,
       Core0Places, Core0Gated, Core0Direct
  <2>27. CASE RamLock
    BY <2>27 DEF RamLock, Enter0, ringVars, pubVars, core1Vars, Go0,
       stateVars, core0Vars, Core0Places, Core0Gated, Core0Direct
  <2>28. CASE RamGate
    BY <2>28 DEF RamGate, Go0, Exit0, Return0, ringVars, pubVars, core1Vars,
       stateVars, core0Vars, Core0Places, Core0Gated, Core0Direct
  <2>29. CASE RamDirect
    BY <2>29 DEF RamDirect, Return0, ringVars, pubVars, core1Vars, Exit0,
       stateVars, core0Vars, Go0, Core0Places, Core0Gated, Core0Direct
  <2>30. CASE RamSnapshot
    BY <2>30 DEF RamSnapshot, Go0, stateVars, ringVars, pubVars, core1Vars,
       core0Vars, Core0Places, Core0Gated, Core0Direct
  <2>31. CASE RamLand
    BY <2>31 DEF RamLand, Go0, stateVars, ringVars, pubVars, core1Vars,
       core0Vars, Core0Places, Core0Gated, Core0Direct
  <2>32. CASE Service
    BY <2>32 DEF Service, Go1, stateVars, ringVars, pubVars, core0Vars,
       core1Vars, Core1Places, Core1Access
  <2>33. CASE ExchangeClear
    BY <2>33, ZenonT(60) DEF ExchangeClear, Go1, ringVars, pubVars, core0Vars, stateVars,
       core1Vars, Core1Places, Core1Access
  <2>34. CASE ClearIrq
    BY <2>34, FxTypes DEF ClearIrq, Go1, ringVars, core0Vars, stateVars,
       pubVars, core1Vars, Core1Places, Core1Access
  <2>35. CASE Pop
    BY <2>35, SlotType DEF Pop, Go1, stateVars, pubVars, core0Vars, ringVars,
       core1Vars, Core1Places, Core1Access
  <2>36. CASE ApplyCommand
    BY <2>36, FxTypes DEF ApplyCommand, Go1, ringVars, core0Vars, stateVars,
       pubVars, core1Vars, Core1Places, Core1Access
  <2>37. CASE ForgetClear
    BY <2>37 DEF ForgetClear, Go1, ringVars, pubVars, core0Vars, stateVars,
       core1Vars, Core1Places, Core1Access
  <2>38. CASE Drained
    BY <2>38 DEF Drained, Go1, stateVars, ringVars, pubVars, core0Vars,
       core1Vars, Core1Places, Core1Access
  <2>39. CASE Execute
    BY <2>39, FxTypes DEF Execute, Go1, ringVars, pubVars, core0Vars,
       stateVars, core1Vars, Core1Places, Core1Access
  <2>40. CASE ExecuteStop
    BY <2>40, FxTypes DEF ExecuteStop, Go1, ringVars, core0Vars, stateVars,
       pubVars, core1Vars, Core1Places, Core1Access
  <2>41. CASE PublishAccess
    BY <2>41, PublishTypes DEF PublishAccess, Go1, stateVars, ringVars,
       core0Vars, pubVars, core1Vars, Core1Places, Core1Access
  <2>42. CASE PublishRuntime
    BY <2>42 DEF PublishRuntime, Go1, stateVars, ringVars, core0Vars, pubVars,
       core1Vars, Core1Places, Core1Access
  <2>43. CASE ReleaseLock
    BY <2>43 DEF ReleaseLock, Go1, ringVars, pubVars, core0Vars, stateVars,
       core1Vars, Core1Places, Core1Access
  <2>44. CASE ReleaseKeep
    BY <2>44 DEF ReleaseKeep, Go1, ringVars, pubVars, core0Vars, stateVars,
       core1Vars, Core1Places, Core1Access
  <2>45. CASE ReleaseDecide
    BY <2>45 DEF ReleaseDecide, Go1, stateVars, ringVars, pubVars, core0Vars,
       core1Vars, Core1Places, Core1Access
  <2>46. CASE ReleaseStore
    BY <2>46 DEF ReleaseStore, Go1, ringVars, pubVars, core0Vars, stateVars,
       core1Vars, Core1Places, Core1Access
  <2>47. CASE VideoAcquire
    BY <2>47 DEF VideoAcquire, ringVars, pubVars, core0Vars, core1Vars,
       stateVars
  <2>48. CASE VideoRelease
    BY <2>48 DEF VideoRelease, ringVars, pubVars, core0Vars, core1Vars,
       stateVars
  <2>49. CASE UNCHANGED vars
    BY <2>49 DEF vars, stateVars, ringVars, pubVars, core0Vars, core1Vars
  <2>50. QED
    BY <2>1, <2>2, <2>3, <2>4, <2>5, <2>6, <2>7, <2>8, <2>9, <2>10, <2>11,
       <2>12, <2>13, <2>14, <2>15, <2>16, <2>17, <2>18, <2>19, <2>20, <2>21,
       <2>22, <2>23, <2>24, <2>25, <2>26, <2>27, <2>28, <2>29, <2>30, <2>31,
       <2>32, <2>33, <2>34, <2>35, <2>36, <2>37, <2>38, <2>39, <2>40, <2>41,
       <2>42, <2>43, <2>44, <2>45, <2>46, <2>47, <2>48, <2>49
    DEF Next, Bus, Handler0, Service1, Video1

<1>2. OpPlaced'
  <2> USE DEF OpPlaced, WritePlaces, ResetPlaces, RamPlaces, ClearPlaces, None, Reads, RamWrites, WriteKinds
  <2>1. ASSUME NEW op \in CpuWrites \cup CpuReads \cup RamWrites, BusAccess(op)
        PROVE  OpPlaced'
    BY <2>1 DEF BusAccess, stateVars, ringVars, pubVars, core1Vars
  <2>2. CASE ConsoleReset
    BY <2>2 DEF ConsoleReset, stateVars, ringVars, pubVars, core1Vars,
       core0Vars
  <2>3. CASE ServiceReset
    BY <2>3 DEF ServiceReset, Go0, stateVars, ringVars, pubVars, core1Vars,
       core0Vars
  <2>4. CASE WriteLock
    BY <2>4 DEF WriteLock, Enter0, ringVars, pubVars, core1Vars, Go0,
       stateVars, core0Vars
  <2>5. CASE WriteDropped
    BY <2>5 DEF WriteDropped, Return0, ringVars, pubVars, core1Vars, Exit0,
       stateVars, core0Vars, Go0
  <2>6. CASE WriteQueue
    BY <2>6 DEF WriteQueue, Go0, stateVars, pubVars, core1Vars, ringVars,
       core0Vars
  <2>7. CASE WritePush
    BY <2>7 DEF WritePush, Return0, pubVars, core1Vars, Exit0, stateVars,
       ringVars, core0Vars, Go0
  <2>8. CASE WriteFull
    BY <2>8 DEF WriteFull, Exit0, ringVars, pubVars, core1Vars, Go0,
       stateVars, core0Vars
  <2>9. CASE WriteDirect
    BY <2>9 DEF WriteDirect, Go0, stateVars, ringVars, pubVars, core1Vars,
       core0Vars
  <2>10. CASE WriteApply
    BY <2>10 DEF WriteApply, Return0, Publish0, ringVars, core1Vars, Exit0,
       stateVars, pubVars, core0Vars, Go0
  <2>11. CASE ResetLock
    BY <2>11 DEF ResetLock, Enter0, ringVars, pubVars, core1Vars, Go0,
       stateVars, core0Vars
  <2>12. CASE ResetQueue
    BY <2>12 DEF ResetQueue, Go0, stateVars, pubVars, core1Vars, ringVars,
       core0Vars
  <2>13. CASE ResetPush
    BY <2>13 DEF ResetPush, Go0, stateVars, pubVars, core1Vars, ringVars,
       core0Vars
  <2>14. CASE ResetMark
    BY <2>14 DEF ResetMark, ResetAccepted, ringVars, core1Vars, stateVars,
       pubVars, core0Vars, TypeOK
  <2>15. CASE ResetFull
    BY <2>15 DEF ResetFull, Exit0, ringVars, pubVars, core1Vars, Go0,
       stateVars, core0Vars
  <2>16. CASE ResetDirect
    BY <2>16 DEF ResetDirect, Go0, stateVars, ringVars, pubVars, core1Vars,
       core0Vars
  <2>17. CASE ResetApply
    BY <2>17 DEF ResetApply, Publish0, ResetAccepted, ringVars, core1Vars,
       stateVars, pubVars, core0Vars, TypeOK
  <2>18. CASE ReadLock
    BY <2>18 DEF ReadLock, Enter0, ringVars, pubVars, core1Vars, Go0,
       stateVars, core0Vars
  <2>19. CASE ReadDirect
    BY <2>19 DEF ReadDirect, Go0, stateVars, ringVars, pubVars, core1Vars,
       core0Vars
  <2>20. CASE ReadApply
    BY <2>20 DEF ReadApply, Return0, Publish0, ringVars, core1Vars, Exit0,
       stateVars, pubVars, core0Vars, Go0
  <2>21. CASE ReadOwned
    BY <2>21 DEF ReadOwned, Exit0, ringVars, pubVars, core1Vars, Go0,
       stateVars, core0Vars
  <2>22. CASE ReadSnapshot
    BY <2>22 DEF ReadSnapshot, Go0, stateVars, ringVars, pubVars, core1Vars,
       core0Vars
  <2>23. CASE ReadArm
    BY <2>23 DEF ReadArm, Go0, ringVars, pubVars, core1Vars, stateVars,
       core0Vars
  <2>24. CASE ReadLine
    BY <2>24 DEF ReadLine, Go0, stateVars, ringVars, core1Vars, pubVars,
       core0Vars
  <2>25. CASE ReadDeferred
    BY <2>25 DEF ReadDeferred, Return0, ringVars, pubVars, core1Vars, Exit0,
       stateVars, core0Vars, Go0
  <2>26. CASE ReadClear
    BY <2>26 DEF ReadClear, Return0, Publish0, ringVars, core1Vars, Exit0,
       stateVars, pubVars, core0Vars, Go0
  <2>27. CASE RamLock
    BY <2>27 DEF RamLock, Enter0, ringVars, pubVars, core1Vars, Go0,
       stateVars, core0Vars
  <2>28. CASE RamGate
    BY <2>28 DEF RamGate, Go0, Exit0, Return0, ringVars, pubVars, core1Vars,
       stateVars, core0Vars
  <2>29. CASE RamDirect
    BY <2>29 DEF RamDirect, Return0, ringVars, pubVars, core1Vars, Exit0,
       stateVars, core0Vars, Go0
  <2>30. CASE RamSnapshot
    BY <2>30 DEF RamSnapshot, Go0, stateVars, ringVars, pubVars, core1Vars,
       core0Vars
  <2>31. CASE RamLand
    BY <2>31 DEF RamLand, Go0, stateVars, ringVars, pubVars, core1Vars,
       core0Vars
  <2>32. CASE Service
    BY <2>32 DEF Service, Go1, stateVars, ringVars, pubVars, core0Vars,
       core1Vars
  <2>33. CASE ExchangeClear
    BY <2>33 DEF ExchangeClear, Go1, ringVars, pubVars, core0Vars, stateVars,
       core1Vars
  <2>34. CASE ClearIrq
    BY <2>34 DEF ClearIrq, Go1, ringVars, core0Vars, stateVars, pubVars,
       core1Vars
  <2>35. CASE Pop
    BY <2>35 DEF Pop, Go1, stateVars, pubVars, core0Vars, ringVars, core1Vars
  <2>36. CASE ApplyCommand
    BY <2>36 DEF ApplyCommand, Go1, ringVars, core0Vars, stateVars, pubVars,
       core1Vars
  <2>37. CASE ForgetClear
    BY <2>37 DEF ForgetClear, Go1, ringVars, pubVars, core0Vars, stateVars,
       core1Vars
  <2>38. CASE Drained
    BY <2>38 DEF Drained, Go1, stateVars, ringVars, pubVars, core0Vars,
       core1Vars
  <2>39. CASE Execute
    BY <2>39 DEF Execute, Go1, ringVars, pubVars, core0Vars, stateVars,
       core1Vars
  <2>40. CASE ExecuteStop
    BY <2>40 DEF ExecuteStop, Go1, ringVars, core0Vars, stateVars, pubVars,
       core1Vars
  <2>41. CASE PublishAccess
    BY <2>41 DEF PublishAccess, Go1, stateVars, ringVars, core0Vars, pubVars,
       core1Vars
  <2>42. CASE PublishRuntime
    BY <2>42 DEF PublishRuntime, Go1, stateVars, ringVars, core0Vars, pubVars,
       core1Vars
  <2>43. CASE ReleaseLock
    BY <2>43 DEF ReleaseLock, Go1, ringVars, pubVars, core0Vars, stateVars,
       core1Vars
  <2>44. CASE ReleaseKeep
    BY <2>44 DEF ReleaseKeep, Go1, ringVars, pubVars, core0Vars, stateVars,
       core1Vars
  <2>45. CASE ReleaseDecide
    BY <2>45 DEF ReleaseDecide, Go1, stateVars, ringVars, pubVars, core0Vars,
       core1Vars
  <2>46. CASE ReleaseStore
    BY <2>46 DEF ReleaseStore, Go1, ringVars, pubVars, core0Vars, stateVars,
       core1Vars
  <2>47. CASE VideoAcquire
    BY <2>47 DEF VideoAcquire, ringVars, pubVars, core0Vars, core1Vars,
       stateVars
  <2>48. CASE VideoRelease
    BY <2>48 DEF VideoRelease, ringVars, pubVars, core0Vars, core1Vars,
       stateVars
  <2>49. CASE UNCHANGED vars
    BY <2>49 DEF vars, stateVars, ringVars, pubVars, core0Vars, core1Vars
  <2>50. QED
    BY <2>1, <2>2, <2>3, <2>4, <2>5, <2>6, <2>7, <2>8, <2>9, <2>10, <2>11,
       <2>12, <2>13, <2>14, <2>15, <2>16, <2>17, <2>18, <2>19, <2>20, <2>21,
       <2>22, <2>23, <2>24, <2>25, <2>26, <2>27, <2>28, <2>29, <2>30, <2>31,
       <2>32, <2>33, <2>34, <2>35, <2>36, <2>37, <2>38, <2>39, <2>40, <2>41,
       <2>42, <2>43, <2>44, <2>45, <2>46, <2>47, <2>48, <2>49
    DEF Next, Bus, Handler0, Service1, Video1
<1>3. QED
  BY <1>1, <1>2

\* What a step of core 0 or of core 1 does to the gate and to the owner.
LEMMA Core0Effect ==
  ASSUME TypeOK, Handler0
  PROVE  /\ pc0 # "idle" /\ UNCHANGED core1Vars /\ (owner => owner')
         /\ pc0' \in Core0Direct => ~owner /\ owner' = owner
         /\ \/ gate' = gate /\ (pc0' \in Core0Gated <=> pc0 \in Core0Gated)
            \/ gate = "free" /\ gate' = "core0" /\ pc0 \notin Core0Gated /\ pc0' \in Core0Gated
            \/ gate' = "free" /\ pc0 \in Core0Gated /\ pc0' \notin Core0Gated
<1> USE DEF stateVars, ringVars, pubVars, core1Vars, core0Vars, Core0Gated, Core0Direct,
            Go0, Enter0, Exit0, Return0, Publish0, ResetAccepted
<1>1. CASE WriteLock \/ WriteDropped \/ WriteQueue \/ WritePush \/ WriteFull
  BY <1>1 DEF WriteLock, WriteDropped, WriteQueue, WritePush, WriteFull
<1>2. CASE WriteDirect \/ WriteApply
  <2>1. owner \in BOOLEAN
    BY DEF TypeOK
  <2>2. owner => owner'
    BY <1>2, <2>1, Zenon DEF WriteDirect, WriteApply
  <2>3. QED
    BY <1>2, <2>2 DEF WriteDirect, WriteApply
<1>3. CASE ResetLock \/ ResetQueue \/ ResetPush
  BY <1>3 DEF ResetLock, ResetQueue, ResetPush
<1>9. CASE ResetFull
  BY <1>9 DEF ResetFull
<1>4. CASE ResetMark \/ ResetDirect
  BY <1>4 DEF ResetMark, ResetDirect
<1>10. CASE ResetApply
  BY <1>10 DEF ResetApply
<1>5. CASE ReadLock \/ ReadDirect \/ ReadApply \/ ReadOwned
  BY <1>5 DEF ReadLock, ReadDirect, ReadApply, ReadOwned
<1>6. CASE ReadArm \/ ReadLine \/ ReadDeferred
  BY <1>6 DEF ReadArm, ReadLine, ReadDeferred
<1>12. CASE ReadClear
  BY <1>12 DEF ReadClear
<1>11. CASE ReadSnapshot
  BY <1>11 DEF ReadSnapshot
<1>7. CASE RamLock \/ RamGate \/ RamDirect \/ RamSnapshot \/ RamLand
  BY <1>7 DEF RamLock, RamGate, RamDirect, RamSnapshot, RamLand
<1>8. QED
  BY <1>1, <1>2, <1>3, <1>4, <1>5, <1>6, <1>7, <1>9, <1>10, <1>11, <1>12 DEF Handler0

LEMMA Core1Effect ==
  ASSUME Service1 \/ Video1, pc1 # "top" => owner
  PROVE  /\ UNCHANGED core0Vars /\ (owner' => owner)
         /\ pc1' # "top" => owner'
         /\ \/ gate' = gate /\ (pc1' \in {"relgate", "relstore"} <=> pc1 \in {"relgate", "relstore"})
            \/ /\ gate = "free" /\ gate' = "core1"
               /\ pc1 \notin {"relgate", "relstore"} /\ pc1' \in {"relgate", "relstore"}
            \/ gate' = "free" /\ pc1 \in {"relgate", "relstore"} /\ pc1' \notin {"relgate", "relstore"}
<1> USE DEF stateVars, ringVars, pubVars, core1Vars, core0Vars, Go1
<1>1. CASE Service \/ ExchangeClear \/ ClearIrq \/ Pop \/ ApplyCommand \/ ForgetClear
  BY <1>1 DEF Service, ExchangeClear, ClearIrq, Pop, ApplyCommand, ForgetClear
<1>2. CASE Drained \/ Execute \/ ExecuteStop \/ PublishAccess \/ PublishRuntime
  BY <1>2 DEF Drained, Execute, ExecuteStop, PublishAccess, PublishRuntime
<1>3. CASE ReleaseLock \/ ReleaseKeep \/ ReleaseDecide \/ ReleaseStore
  BY <1>3 DEF ReleaseLock, ReleaseKeep, ReleaseDecide, ReleaseStore
<1>4. CASE VideoAcquire \/ VideoRelease
  BY <1>4 DEF VideoAcquire, VideoRelease
<1>5. QED
  BY <1>1, <1>2, <1>3, <1>4 DEF Service1, Video1

\* The gate is held exactly by the handler or the service that is inside it.
LEMMA GateStep ==
  TypeOK /\ Handover /\ GateHeld /\ [Next]_vars => GateHeld'
<1> SUFFICES ASSUME TypeOK, Handover, GateHeld, [Next]_vars PROVE GateHeld'
  OBVIOUS
<1>1. CASE Bus
  <2>1. /\ gate' = gate /\ pc1' = pc1
        /\ pc0' \in Core0Gated <=> pc0 \in Core0Gated
    BY <1>1 DEF Bus, BusAccess, ConsoleReset, ServiceReset, Go0, stateVars, core1Vars,
       Core0Gated, Core0Direct
  <2>2. QED
    BY <2>1 DEF GateHeld
<1>2. CASE Handler0
  BY <1>2, Core0Effect DEF GateHeld, core1Vars
<1>3. CASE Service1 \/ Video1
  BY <1>3, Core1Effect DEF GateHeld, Handover, core0Vars
<1>4. CASE UNCHANGED vars
  BY <1>4 DEF GateHeld, vars, stateVars, core0Vars, core1Vars
<1>5. QED
  BY <1>1, <1>2, <1>3, <1>4 DEF Next

\* What the hand-off needs of the gate, here and in the SD window, where other
\* code takes it too.
Locked == /\ pc0 \in Core0Gated => gate = "core0"
          /\ pc1 \in {"relgate", "relstore"} => gate = "core1"

\* One step from a well-typed state in which the hand-over is in order.
LEMMA HandoverStep ==
  TypeOK /\ OpPlaced /\ Locked /\ Handover /\ [Next]_vars => Handover'
<1> SUFFICES ASSUME TypeOK, OpPlaced, Locked, Handover, [Next]_vars PROVE Handover'
  OBVIOUS
<1> QED
  <2> USE SizeAssumption DEF Locked, Handover, RingEmpty, Releasing
  <2>1. ASSUME NEW op \in CpuWrites \cup CpuReads \cup RamWrites, BusAccess(op)
        PROVE  Handover'
    BY <2>1 DEF BusAccess, stateVars, ringVars, pubVars, core1Vars, Core0Gated, Core0Direct, Reads, OpPlaced
  <2>2. CASE ConsoleReset
    BY <2>2 DEF ConsoleReset, stateVars, ringVars, pubVars, core1Vars,
       core0Vars, Core0Gated, Core0Direct
  <2>3. CASE ServiceReset
    BY <2>3 DEF ServiceReset, Go0, stateVars, ringVars, pubVars, core1Vars,
       core0Vars, Core0Gated, Core0Direct
  <2>4. CASE WriteLock
    BY <2>4 DEF WriteLock, Enter0, ringVars, pubVars, core1Vars, Go0,
       stateVars, core0Vars, Core0Gated, Core0Direct
  <2>5. CASE WriteDropped
    BY <2>5 DEF WriteDropped, Return0, ringVars, pubVars, core1Vars, Exit0,
       stateVars, core0Vars, Go0, Core0Gated, Core0Direct
  <2>6. CASE WriteQueue
    BY <2>6 DEF WriteQueue, Go0, stateVars, pubVars, core1Vars, ringVars,
       core0Vars, Core0Gated, Core0Direct
  <2>7. CASE WritePush
    BY <2>7 DEF WritePush, Return0, pubVars, core1Vars, Exit0, stateVars,
       ringVars, core0Vars, Go0, Core0Gated, Core0Direct
  <2>8. CASE WriteFull
    BY <2>8 DEF WriteFull, Exit0, ringVars, pubVars, core1Vars, Go0,
       stateVars, core0Vars, Core0Gated, Core0Direct
  <2>9. CASE WriteDirect
    BY <2>9 DEF WriteDirect, Go0, stateVars, ringVars, pubVars, core1Vars,
       core0Vars, Core0Gated, Core0Direct
  <2>10. CASE WriteApply
    BY <2>10 DEF WriteApply, Return0, Publish0, ringVars, core1Vars, Exit0,
       stateVars, pubVars, core0Vars, Go0, Core0Gated, Core0Direct, TypeOK
  <2>11. CASE ResetLock
    BY <2>11 DEF ResetLock, Enter0, ringVars, pubVars, core1Vars, Go0,
       stateVars, core0Vars, Core0Gated, Core0Direct
  <2>12. CASE ResetQueue
    BY <2>12 DEF ResetQueue, Go0, stateVars, pubVars, core1Vars, ringVars,
       core0Vars, Core0Gated, Core0Direct
  <2>13. CASE ResetPush
    BY <2>13 DEF ResetPush, Go0, stateVars, pubVars, core1Vars, ringVars,
       core0Vars, Core0Gated, Core0Direct
  <2>14. CASE ResetMark
    BY <2>14 DEF ResetMark, ResetAccepted, ringVars, core1Vars, stateVars,
       pubVars, core0Vars, Core0Gated, Core0Direct
  <2>15. CASE ResetFull
    BY <2>15 DEF ResetFull, Exit0, ringVars, pubVars, core1Vars, Go0,
       stateVars, core0Vars, Core0Gated, Core0Direct
  <2>16. CASE ResetDirect
    BY <2>16 DEF ResetDirect, Go0, stateVars, ringVars, pubVars, core1Vars,
       core0Vars, Core0Gated, Core0Direct
  <2>17. CASE ResetApply
    BY <2>17 DEF ResetApply, Publish0, ResetAccepted, ringVars, core1Vars,
       stateVars, pubVars, core0Vars, Core0Gated, Core0Direct, ResetFx
  <2>18. CASE ReadLock
    BY <2>18 DEF ReadLock, Enter0, ringVars, pubVars, core1Vars, Go0,
       stateVars, core0Vars, Core0Gated, Core0Direct
  <2>19. CASE ReadDirect
    BY <2>19 DEF ReadDirect, Go0, stateVars, ringVars, pubVars, core1Vars,
       core0Vars, Core0Gated, Core0Direct, OpPlaced, Reads
  <2>20. CASE ReadApply
    BY <2>20 DEF ReadApply, Return0, Publish0, ringVars, core1Vars, Exit0,
       stateVars, pubVars, core0Vars, Go0, Core0Gated, Core0Direct, ReadSfrHigh,
       TypeOK, FxStates
  <2>21. CASE ReadOwned
    BY <2>21 DEF ReadOwned, Exit0, ringVars, pubVars, core1Vars, Go0,
       stateVars, core0Vars, Core0Gated, Core0Direct
  <2>22. CASE ReadSnapshot
    BY <2>22 DEF ReadSnapshot, Go0, stateVars, ringVars, pubVars, core1Vars,
       core0Vars, Core0Gated, Core0Direct
  <2>23. CASE ReadArm
    BY <2>23 DEF ReadArm, Go0, ringVars, pubVars, core1Vars, stateVars,
       core0Vars, Core0Gated, Core0Direct, OpPlaced, ClearPlaces
  <2>24. CASE ReadLine
    BY <2>24 DEF ReadLine, Go0, stateVars, ringVars, core1Vars, pubVars,
       core0Vars, Core0Gated, Core0Direct
  <2>25. CASE ReadDeferred
    BY <2>25 DEF ReadDeferred, Return0, ringVars, pubVars, core1Vars, Exit0,
       stateVars, core0Vars, Go0, Core0Gated, Core0Direct
  <2>26. CASE ReadClear
    BY <2>26 DEF ReadClear, Return0, Publish0, ringVars, core1Vars, Exit0,
       stateVars, pubVars, core0Vars, Go0, Core0Gated, Core0Direct, ReadSfrHigh,
       TypeOK, FxStates
  <2>27. CASE RamLock
    BY <2>27 DEF RamLock, Enter0, ringVars, pubVars, core1Vars, Go0,
       stateVars, core0Vars, Core0Gated, Core0Direct
  <2>28. CASE RamGate
    BY <2>28 DEF RamGate, Go0, Exit0, Return0, ringVars, pubVars, core1Vars,
       stateVars, core0Vars, Core0Gated, Core0Direct
  <2>29. CASE RamDirect
    BY <2>29 DEF RamDirect, Return0, ringVars, pubVars, core1Vars, Exit0,
       stateVars, core0Vars, Go0, Core0Gated, Core0Direct
  <2>30. CASE RamSnapshot
    BY <2>30 DEF RamSnapshot, Go0, stateVars, ringVars, pubVars, core1Vars,
       core0Vars, Core0Gated, Core0Direct
  <2>31. CASE RamLand
    BY <2>31 DEF RamLand, Go0, stateVars, ringVars, pubVars, core1Vars,
       core0Vars, Core0Gated, Core0Direct
  <2>32. CASE Service
    BY <2>32 DEF Service, Go1, stateVars, ringVars, pubVars, core0Vars,
       core1Vars, Core0Gated, Core0Direct
  <2>33. CASE ExchangeClear
    BY <2>33 DEF ExchangeClear, Go1, ringVars, pubVars, core0Vars, stateVars,
       core1Vars, Core0Gated, Core0Direct
  <2>34. CASE ClearIrq
    BY <2>34 DEF ClearIrq, Go1, ringVars, core0Vars, stateVars, pubVars,
       core1Vars, Core0Gated, Core0Direct, ReadSfrHigh
  <2>35. CASE Pop
    BY <2>35 DEF Pop, Go1, stateVars, pubVars, core0Vars, ringVars, core1Vars,
       Core0Gated, Core0Direct
  <2>36. CASE ApplyCommand
    BY <2>36 DEF ApplyCommand, Go1, ringVars, core0Vars, stateVars, pubVars,
       core1Vars, Core0Gated, Core0Direct
  <2>37. CASE ForgetClear
    BY <2>37 DEF ForgetClear, Go1, ringVars, pubVars, core0Vars, stateVars,
       core1Vars, Core0Gated, Core0Direct
  <2>38. CASE Drained
    BY <2>38 DEF Drained, Go1, stateVars, ringVars, pubVars, core0Vars,
       core1Vars, Core0Gated, Core0Direct
  <2>39. CASE Execute
    BY <2>39 DEF Execute, Go1, ringVars, pubVars, core0Vars, stateVars,
       core1Vars, Core0Gated, Core0Direct
  <2>40. CASE ExecuteStop
    BY <2>40 DEF ExecuteStop, Go1, ringVars, core0Vars, stateVars, pubVars,
       core1Vars, Core0Gated, Core0Direct
  <2>41. CASE PublishAccess
    BY <2>41 DEF PublishAccess, Go1, stateVars, ringVars, core0Vars, pubVars,
       core1Vars, Core0Gated, Core0Direct
  <2>42. CASE PublishRuntime
    BY <2>42 DEF PublishRuntime, Go1, stateVars, ringVars, core0Vars, pubVars,
       core1Vars, Core0Gated, Core0Direct
  <2>43. CASE ReleaseLock
    BY <2>43 DEF ReleaseLock, Go1, ringVars, pubVars, core0Vars, stateVars,
       core1Vars, Core0Gated, Core0Direct
  <2>44. CASE ReleaseKeep
    BY <2>44 DEF ReleaseKeep, Go1, ringVars, pubVars, core0Vars, stateVars,
       core1Vars, Core0Gated, Core0Direct
  <2>45. CASE ReleaseDecide
    BY <2>45 DEF ReleaseDecide, Go1, stateVars, ringVars, pubVars, core0Vars,
       core1Vars, Core0Gated, Core0Direct
  <2>46. CASE ReleaseStore
    BY <2>46 DEF ReleaseStore, Go1, ringVars, pubVars, core0Vars, stateVars,
       core1Vars, Core0Gated, Core0Direct
  <2>47. CASE VideoAcquire
    BY <2>47 DEF VideoAcquire, ringVars, pubVars, core0Vars, core1Vars,
       stateVars, Core0Gated, Core0Direct
  <2>48. CASE VideoRelease
    BY <2>48 DEF VideoRelease, ringVars, pubVars, core0Vars, core1Vars,
       stateVars, Core0Gated, Core0Direct
  <2>49. CASE UNCHANGED vars
    BY <2>49 DEF vars, stateVars, ringVars, pubVars, core0Vars, core1Vars
  <2>50. QED
    BY <2>1, <2>2, <2>3, <2>4, <2>5, <2>6, <2>7, <2>8, <2>9, <2>10, <2>11,
       <2>12, <2>13, <2>14, <2>15, <2>16, <2>17, <2>18, <2>19, <2>20, <2>21,
       <2>22, <2>23, <2>24, <2>25, <2>26, <2>27, <2>28, <2>29, <2>30, <2>31,
       <2>32, <2>33, <2>34, <2>35, <2>36, <2>37, <2>38, <2>39, <2>40, <2>41,
       <2>42, <2>43, <2>44, <2>45, <2>46, <2>47, <2>48, <2>49
    DEF Next, Bus, Handler0, Service1, Video1

\* Nothing that the snapshots depend on changes, and no clear is taken back.
LEMMA PublishedQuiet ==
  ASSUME Published, UNCHANGED <<fx, owner, runtime, access, snap1, pc1>>, irqClear => irqClear'
  PROVE  Published'
<1>1. \A s : Current(s) => s = Snapshot(fx', FALSE) \/ (irqClear' /\ s = Snapshot(fx', TRUE))
  BY DEF Current
<1>2. QED
  BY <1>1 DEF Published, Current, Releasing

\* Core 0 publishes what it does to a state that it owns.
LEMMA PublishedDirect ==
  ASSUME pc1 = "top", pc1' = pc1,
         runtime' = Snapshot(fx', FALSE), access' = AccessState(fx')
  PROVE  Published'
BY DEF Published, Releasing

\* One step keeps the promise that core 1 gives up only what it has published.
LEMMA PublishedStep ==
  TypeOK /\ OpPlaced /\ Handover /\ Published /\ [Next]_vars => Published'
<1> SUFFICES ASSUME TypeOK, OpPlaced, Handover, Published, [Next]_vars PROVE Published'
  OBVIOUS
<1> USE DEF stateVars, ringVars, pubVars, core0Vars, core1Vars, Go0, Go1, Enter0, Exit0, Return0,
            Publish0, ResetAccepted
<1>1. CASE Bus
  BY <1>1, PublishedQuiet DEF Bus, BusAccess, ConsoleReset, ServiceReset
<1>2. CASE WriteLock \/ WriteDropped \/ WriteQueue \/ WritePush \/ WriteFull \/ WriteDirect
  BY <1>2, PublishedQuiet DEF WriteLock, WriteDropped, WriteQueue, WritePush, WriteFull, WriteDirect
<1>3. CASE WriteApply
  <2>1. ~owner /\ ~irqClear /\ pc1 = "top"
    BY <1>3 DEF WriteApply, Handover, Core0Direct, TypeOK
  <2>2. runtime' = Snapshot(fx', FALSE) /\ access' = AccessState(fx') /\ pc1' = pc1
    BY <1>3, <2>1 DEF WriteApply, TypeOK
  <2>3. QED
    BY <2>1, <2>2, PublishedDirect
<1>4. CASE ResetLock \/ ResetQueue \/ ResetPush \/ ResetMark \/ ResetFull \/ ResetDirect
  BY <1>4, PublishedQuiet DEF ResetLock, ResetQueue, ResetPush, ResetMark, ResetFull, ResetDirect
<1>5. CASE ResetApply
  <2>1. ~owner /\ pc1 = "top"
    BY <1>5 DEF ResetApply, Handover, Core0Direct
  <2>2. QED
    BY <1>5, <2>1, PublishedDirect DEF ResetApply
<1>6. CASE ReadLock \/ ReadDirect \/ ReadOwned \/ ReadSnapshot \/ ReadArm \/ ReadLine \/ ReadDeferred
  BY <1>6, PublishedQuiet
  DEF ReadLock, ReadDirect, ReadOwned, ReadSnapshot, ReadArm, ReadLine, ReadDeferred
<1>7. CASE ReadApply
  <2>1. ~owner /\ ~irqClear /\ pc1 = "top"
    BY <1>7 DEF ReadApply, Handover, Core0Direct
  <2>2. runtime' = Snapshot(fx', FALSE) /\ access' = AccessState(fx') /\ pc1' = pc1
    BY <1>7, <2>1 DEF ReadApply, TypeOK
  <2>3. QED
    BY <2>1, <2>2, PublishedDirect
<1>8. CASE ReadClear
  <2>1. ~owner /\ pc1 = "top"
    BY <1>8 DEF ReadClear, Handover, Core0Direct
  <2>2. QED
    BY <1>8, <2>1, PublishedDirect DEF ReadClear
<1>9. CASE RamLock \/ RamGate \/ RamDirect \/ RamSnapshot \/ RamLand
  BY <1>9, PublishedQuiet DEF RamLock, RamGate, RamDirect, RamSnapshot, RamLand
<1>10. CASE Service \/ ExchangeClear \/ ClearIrq \/ Pop \/ ApplyCommand \/ ForgetClear
            \/ Drained \/ Execute \/ ExecuteStop
  <2>1. owner /\ owner' = owner
    BY <1>10 DEF Handover, Service, ExchangeClear, ClearIrq, Pop, ApplyCommand, ForgetClear,
       Drained, Execute, ExecuteStop
  <2>2. pc1' \notin {"store", "rel", "relgate", "relstore"}
    BY <1>10 DEF Service, ExchangeClear, ClearIrq, Pop, ApplyCommand, ForgetClear,
       Drained, Execute, ExecuteStop
  <2>3. QED
    BY <2>1, <2>2 DEF Published, Releasing
<1>11. CASE PublishAccess
  <2>1. owner' /\ pc1' = "store" /\ access' = AccessState(fx') /\ fx' = fx
        /\ irqClear' = irqClear /\ snap1' = Snapshot(fx, irqClear)
    BY <1>11 DEF PublishAccess, Handover
  <2>2. Current(snap1)'
    BY <2>1 DEF Current, TypeOK
  <2>3. QED
    BY <2>1, <2>2 DEF Published, Releasing
<1>12. CASE PublishRuntime
  <2>1. owner' /\ pc1' \in {"top", "rel"} /\ access' = AccessState(fx') /\ Current(runtime)'
    BY <1>12 DEF PublishRuntime, Handover, Published, Current
  <2>2. QED
    BY <2>1 DEF Published, Releasing
<1>13. CASE ReleaseLock \/ ReleaseKeep
  <2>1. owner' /\ pc1' \in {"top", "relgate"} /\ access' = AccessState(fx') /\ Current(runtime)'
    BY <1>13 DEF ReleaseLock, ReleaseKeep, Handover, Published, Current, Releasing
  <2>2. QED
    BY <2>1 DEF Published, Releasing
<1>14. CASE ReleaseDecide
  <2>1. owner' /\ pc1' = "relstore" /\ access' = AccessState(fx') /\ runtime' = Snapshot(fx', FALSE)
    BY <1>14 DEF ReleaseDecide, Handover, Published, Current, Releasing
  <2>2. QED
    BY <2>1 DEF Published, Releasing, Current
<1>15. CASE ReleaseStore
  <2>1. pc1' = "top" /\ access' = AccessState(fx') /\ runtime' = Snapshot(fx', FALSE)
    BY <1>15 DEF ReleaseStore, Published, Releasing
  <2>2. QED
    BY <2>1 DEF Published, Releasing
<1>16. CASE VideoAcquire \/ VideoRelease \/ UNCHANGED vars
  BY <1>16, PublishedQuiet DEF VideoAcquire, VideoRelease, vars
<1>17. QED
  BY <1>1, <1>2, <1>3, <1>4, <1>5, <1>6, <1>7, <1>8, <1>9, <1>10, <1>11, <1>12, <1>13, <1>14,
     <1>15, <1>16
  DEF Next, Handler0, Service1, Video1

\* What the ring and the bus need of the state, here and in the SD window.
Base == TypeOK /\ OpPlaced /\ Locked /\ Handover /\ ResetsOnly

LEMMA IInvBase == IInv => Base
  BY DEF IInv, Base, GateHeld, Locked

\* One step from a state in which only resets are on their way to a GSU
\* whose RAM belongs to video.
LEMMA ResetsOnlyStep == Base /\ [Next]_vars => ResetsOnly'
<1> SUFFICES ASSUME Base, [Next]_vars PROVE ResetsOnly'
  OBVIOUS
<1> QED
  <2> USE SizeAssumption DEF Base, ResetsOnly, RingFull, RingEmpty, Queued, Slots, TypeOK
  <2>1. ASSUME NEW op \in CpuWrites \cup CpuReads \cup RamWrites, BusAccess(op)
        PROVE  ResetsOnly'
    BY <2>1 DEF BusAccess, stateVars, ringVars, pubVars, core1Vars
  <2>2. CASE ConsoleReset
    BY <2>2 DEF ConsoleReset, stateVars, ringVars, pubVars, core1Vars,
       core0Vars
  <2>3. CASE ServiceReset
    BY <2>3 DEF ServiceReset, Go0, stateVars, ringVars, pubVars, core1Vars,
       core0Vars
  <2>4. CASE WriteLock
    BY <2>4 DEF WriteLock, Enter0, ringVars, pubVars, core1Vars, Go0,
       stateVars, core0Vars
  <2>5. CASE WriteDropped
    BY <2>5 DEF WriteDropped, Return0, ringVars, pubVars, core1Vars, Exit0,
       stateVars, core0Vars, Go0
  <2>6. CASE WriteQueue
    BY <2>6 DEF WriteQueue, Go0, stateVars, pubVars, core1Vars, ringVars,
       core0Vars, NextSlot
  <2>7. CASE WritePush
    BY <2>7 DEF WritePush, Return0, pubVars, core1Vars, Exit0, stateVars,
       ringVars, core0Vars, Go0, NextSlot
  <2>8. CASE WriteFull
    BY <2>8 DEF WriteFull, Exit0, ringVars, pubVars, core1Vars, Go0,
       stateVars, core0Vars
  <2>9. CASE WriteDirect
    BY <2>9 DEF WriteDirect, Go0, stateVars, ringVars, pubVars, core1Vars,
       core0Vars
  <2>10. CASE WriteApply
    BY <2>10 DEF WriteApply, Return0, Publish0, ringVars, core1Vars, Exit0,
       stateVars, pubVars, core0Vars, Go0, CpuWrite
  <2>11. CASE ResetLock
    BY <2>11 DEF ResetLock, Enter0, ringVars, pubVars, core1Vars, Go0,
       stateVars, core0Vars
  <2>12. CASE ResetQueue
    BY <2>12 DEF ResetQueue, Go0, stateVars, pubVars, core1Vars, ringVars,
       core0Vars, NextSlot
  <2>13. CASE ResetPush
    BY <2>13 DEF ResetPush, Go0, stateVars, pubVars, core1Vars, ringVars,
       core0Vars, NextSlot
  <2>14. CASE ResetMark
    BY <2>14 DEF ResetMark, ResetAccepted, ringVars, core1Vars, stateVars,
       pubVars, core0Vars
  <2>15. CASE ResetFull
    BY <2>15 DEF ResetFull, Exit0, ringVars, pubVars, core1Vars, Go0,
       stateVars, core0Vars
  <2>16. CASE ResetDirect
    BY <2>16 DEF ResetDirect, Go0, stateVars, ringVars, pubVars, core1Vars,
       core0Vars
  <2>17. CASE ResetApply
    BY <2>17 DEF ResetApply, Publish0, ResetAccepted, ringVars, core1Vars,
       stateVars, pubVars, core0Vars, ResetFx
  <2>18. CASE ReadLock
    BY <2>18 DEF ReadLock, Enter0, ringVars, pubVars, core1Vars, Go0,
       stateVars, core0Vars
  <2>19. CASE ReadDirect
    BY <2>19 DEF ReadDirect, Go0, stateVars, ringVars, pubVars, core1Vars,
       core0Vars
  <2>20. CASE ReadApply
    BY <2>20 DEF ReadApply, Return0, Publish0, ringVars, core1Vars, Exit0,
       stateVars, pubVars, core0Vars, Go0, ReadSfrHigh, FxStates
  <2>21. CASE ReadOwned
    BY <2>21 DEF ReadOwned, Exit0, ringVars, pubVars, core1Vars, Go0,
       stateVars, core0Vars
  <2>22. CASE ReadSnapshot
    BY <2>22 DEF ReadSnapshot, Go0, stateVars, ringVars, pubVars, core1Vars,
       core0Vars
  <2>23. CASE ReadArm
    BY <2>23 DEF ReadArm, Go0, ringVars, pubVars, core1Vars, stateVars,
       core0Vars
  <2>24. CASE ReadLine
    BY <2>24 DEF ReadLine, Go0, stateVars, ringVars, core1Vars, pubVars,
       core0Vars
  <2>25. CASE ReadDeferred
    BY <2>25 DEF ReadDeferred, Return0, ringVars, pubVars, core1Vars, Exit0,
       stateVars, core0Vars, Go0
  <2>26. CASE ReadClear
    BY <2>26 DEF ReadClear, Return0, Publish0, ringVars, core1Vars, Exit0,
       stateVars, pubVars, core0Vars, Go0, ReadSfrHigh, FxStates
  <2>27. CASE RamLock
    BY <2>27 DEF RamLock, Enter0, ringVars, pubVars, core1Vars, Go0,
       stateVars, core0Vars
  <2>28. CASE RamGate
    BY <2>28 DEF RamGate, Go0, Exit0, Return0, ringVars, pubVars, core1Vars,
       stateVars, core0Vars
  <2>29. CASE RamDirect
    BY <2>29 DEF RamDirect, Return0, ringVars, pubVars, core1Vars, Exit0,
       stateVars, core0Vars, Go0
  <2>30. CASE RamSnapshot
    BY <2>30 DEF RamSnapshot, Go0, stateVars, ringVars, pubVars, core1Vars,
       core0Vars
  <2>31. CASE RamLand
    BY <2>31 DEF RamLand, Go0, stateVars, ringVars, pubVars, core1Vars,
       core0Vars
  <2>32. CASE Service
    BY <2>32 DEF Service, Go1, stateVars, ringVars, pubVars, core0Vars,
       core1Vars
  <2>33. CASE ExchangeClear
    BY <2>33 DEF ExchangeClear, Go1, ringVars, pubVars, core0Vars, stateVars,
       core1Vars
  <2>34. CASE ClearIrq
    BY <2>34 DEF ClearIrq, Go1, ringVars, core0Vars, stateVars, pubVars,
       core1Vars, ReadSfrHigh, FxStates
  <2>35. CASE Pop
    BY <2>35 DEF Pop, Go1, stateVars, pubVars, core0Vars, ringVars, core1Vars,
       NextSlot
  <2>36. CASE ApplyCommand
    BY <2>36 DEF ApplyCommand, Go1, ringVars, core0Vars, stateVars, pubVars,
       core1Vars, Apply, ResetFx
  <2>37. CASE ForgetClear
    BY <2>37 DEF ForgetClear, Go1, ringVars, pubVars, core0Vars, stateVars,
       core1Vars
  <2>38. CASE Drained
    BY <2>38 DEF Drained, Go1, stateVars, ringVars, pubVars, core0Vars,
       core1Vars, Handover
  <2>39. CASE Execute
    BY <2>39 DEF Execute, Go1, ringVars, pubVars, core0Vars, stateVars,
       core1Vars, Plain, FxStates
  <2>40. CASE ExecuteStop
    BY <2>40 DEF ExecuteStop, Go1, ringVars, core0Vars, stateVars, pubVars,
       core1Vars, Stop, FxStates
  <2>41. CASE PublishAccess
    BY <2>41 DEF PublishAccess, Go1, stateVars, ringVars, core0Vars, pubVars,
       core1Vars
  <2>42. CASE PublishRuntime
    BY <2>42 DEF PublishRuntime, Go1, stateVars, ringVars, core0Vars, pubVars,
       core1Vars
  <2>43. CASE ReleaseLock
    BY <2>43 DEF ReleaseLock, Go1, ringVars, pubVars, core0Vars, stateVars,
       core1Vars
  <2>44. CASE ReleaseKeep
    BY <2>44 DEF ReleaseKeep, Go1, ringVars, pubVars, core0Vars, stateVars,
       core1Vars
  <2>45. CASE ReleaseDecide
    BY <2>45 DEF ReleaseDecide, Go1, stateVars, ringVars, pubVars, core0Vars,
       core1Vars
  <2>46. CASE ReleaseStore
    BY <2>46 DEF ReleaseStore, Go1, ringVars, pubVars, core0Vars, stateVars,
       core1Vars
  <2>47. CASE VideoAcquire
    BY <2>47 DEF VideoAcquire, ringVars, pubVars, core0Vars, core1Vars,
       stateVars, Handover, Locked, Core0Gated, Core0Direct
  <2>48. CASE VideoRelease
    BY <2>48 DEF VideoRelease, ringVars, pubVars, core0Vars, core1Vars,
       stateVars
  <2>49. CASE UNCHANGED vars
    BY <2>49 DEF vars, stateVars, ringVars, pubVars, core0Vars, core1Vars
  <2>50. QED
    BY <2>1, <2>2, <2>3, <2>4, <2>5, <2>6, <2>7, <2>8, <2>9, <2>10, <2>11,
       <2>12, <2>13, <2>14, <2>15, <2>16, <2>17, <2>18, <2>19, <2>20, <2>21,
       <2>22, <2>23, <2>24, <2>25, <2>26, <2>27, <2>28, <2>29, <2>30, <2>31,
       <2>32, <2>33, <2>34, <2>35, <2>36, <2>37, <2>38, <2>39, <2>40, <2>41,
       <2>42, <2>43, <2>44, <2>45, <2>46, <2>47, <2>48, <2>49
    DEF Next, Bus, Handler0, Service1, Video1

LEMMA InitIInv == Init => IInv
<1> SUFFICES ASSUME Init PROVE IInv
  OBVIOUS
<1>1. 0 \in Slots
  BY SizeAssumption DEF Slots
<1>2. ResetFx \in FxStates
  BY Zenon DEF ResetFx, FxStates
<1>3. /\ Snapshot(ResetFx, FALSE) \in Snapshots
      /\ AccessState(ResetFx) \in [rom : BOOLEAN, ram : BOOLEAN]
  BY <1>2, PublishTypes
<1>4. TypeOK
  BY <1>1, <1>2, <1>3, Zenon
  DEF Init, TypeOK, Command, Core0Places, Core1Places
<1>5. OpPlaced
  BY DEF Init, OpPlaced, WritePlaces, ResetPlaces, RamPlaces, ClearPlaces
<1>6. GateHeld /\ Handover
  BY DEF Init, GateHeld, Handover, Core0Gated, Core0Direct, Releasing, RingEmpty, ResetFx
<1>7. ResetsOnly
  BY DEF Init, ResetsOnly, ResetFx
<1>8. Published
  BY DEF Init, Published, Releasing
<1>9. QED
  BY <1>4, <1>5, <1>6, <1>7, <1>8 DEF IInv

\* Every variable keeps its type.
THEOREM TypeCorrect == Spec => []TypeOK
<1>1. Init => TypeOK /\ OpPlaced
  BY InitIInv DEF IInv
<1>2. QED
  BY <1>1, TypeStep, PTL DEF Spec

\* The invariant the safety theorems follow from.
THEOREM InductiveInvariant == Spec => []IInv
<1>1. IInv /\ [Next]_vars => IInv'
  BY TypeStep, GateStep, HandoverStep, ResetsOnlyStep, PublishedStep, IInvBase DEF IInv, GateHeld, Locked
<1>2. QED
  BY InitIInv, <1>1, PTL DEF Spec

\* Core 0 and core 1 never touch the FxState at the same time.
THEOREM Exclusive == Spec => []FxStateExclusive
<1>1. IInv => FxStateExclusive
  BY DEF IInv, Handover, FxStateExclusive, Core1Access
<1>2. QED
  BY <1>1, InductiveInvariant, PTL

\* Core 1 gives the state up only when nothing is left for it to do.
THEOREM Stranded == Spec => []NothingStranded
<1>1. IInv => NothingStranded
  BY DEF IInv, Handover, NothingStranded
<1>2. QED
  BY <1>1, InductiveInvariant, PTL

\* Once core 1 has given the state up, the snapshots show it.
THEOREM SettledSnapshots == Spec => []SnapshotsSettled
<1>1. IInv => SnapshotsSettled
  BY DEF IInv, Published, SnapshotsSettled
<1>2. QED
  BY <1>1, InductiveInvariant, PTL

\* Video and a running GSU never share the GSU RAM.
THEOREM VideoRam == Spec => []VideoExclusive
<1>1. IInv => VideoExclusive
  <2> SUFFICES ASSUME IInv, video PROVE VideoExclusive
    BY DEF VideoExclusive
  <2>1. ASSUME NEW k \in 1 .. RingCount
        PROVE  SlotAfter(k - 1) \in Slots /\ Queued(SlotAfter(k - 1))
    BY SizeAssumption DEF IInv, TypeOK, RingCount, SlotAfter, Slots, Queued
  <2>2. \A k \in 1 .. RingCount : Ring[k] = "Reset"
    BY <2>1 DEF IInv, ResetsOnly, Ring
  <2>3. QED
    BY <2>2 DEF IInv, ResetsOnly, VideoExclusive
<1>2. QED
  BY <1>1, InductiveInvariant, PTL

-----------------------------------------------------------------------------
(* FxSync implements FxCommandBus, for every ring size: the ring, the gate *)
(* and the two owners are invisible to the SNES CPU, which sees its writes *)
(* and resets applied one at a time and in order.                          *)

\* The ring as a sequence.

\* Every place of the queue is a slot of the ring.
LEMMA QueuePlaces ==
  ASSUME TypeOK
  PROVE  /\ RingCount \in 0 .. Size - 1
         /\ RingEmpty <=> RingCount = 0
         /\ \A k \in 1 .. RingCount : SlotAfter(k - 1) \in Slots
  BY SizeAssumption DEF TypeOK, Slots, RingCount, RingEmpty, SlotAfter

RingSequence == /\ Ring \in Seq(Command)
                /\ Len(Ring) = RingCount
                /\ RingEmpty <=> Ring = <<>>

LEMMA RingIsSequence == TypeOK => RingSequence
<1> SUFFICES ASSUME TypeOK PROVE RingSequence
  OBVIOUS
<1>1. RingCount \in Nat
  BY QueuePlaces, SizeAssumption
<1>2. \A k \in 1 .. RingCount : commands[SlotAfter(k - 1)] \in Command
  BY QueuePlaces DEF TypeOK
<1>3. Ring \in Seq(Command) /\ Len(Ring) = RingCount
  BY <1>1, <1>2, IsASeq DEF Ring
<1>4. QED
  BY <1>3, QueuePlaces, EmptySeq DEF RingSequence

LEMMA RingStaysSequence == TypeOK' => RingSequence'
  BY RingIsSequence, PTL

\* Filling the free slot changes nothing that is queued.
LEMMA RingFill ==
  ASSUME TypeOK, ~RingFull, UNCHANGED <<writeIndex, readIndex>>,
         NEW c, commands' = [commands EXCEPT ![writeIndex] = c]
  PROVE  Ring' = Ring
<1>1. RingCount' = RingCount
  BY DEF RingCount
<1>2. ASSUME NEW k \in 1 .. RingCount
      PROVE  commands'[SlotAfter(k - 1)'] = commands[SlotAfter(k - 1)]
  BY SizeAssumption DEF TypeOK, Slots, RingCount, SlotAfter, RingFull, NextSlot
<1>3. QED
  BY <1>1, <1>2 DEF Ring

\* Moving the write index appends the slot it leaves, which may be filled in
\* the same step.
LEMMA RingPush ==
  ASSUME TypeOK, TypeOK', ~RingFull, UNCHANGED readIndex,
         writeIndex' = NextSlot(writeIndex),
         \A i \in Slots : i # writeIndex => commands'[i] = commands[i]
  PROVE  Ring' = Append(Ring, commands'[writeIndex])
<1>1. RingCount \in Nat /\ RingCount' = RingCount + 1
  BY SizeAssumption DEF TypeOK, Slots, RingCount, RingFull, NextSlot
<1>2. SlotAfter(RingCount) = writeIndex
  BY SizeAssumption DEF TypeOK, Slots, RingCount, SlotAfter
<1>3. \A k \in Nat : SlotAfter(k)' = SlotAfter(k)
  BY DEF SlotAfter
<1>0. \A k \in 1 .. RingCount : SlotAfter(k - 1) \in Slots /\ SlotAfter(k - 1) # writeIndex
  BY SizeAssumption DEF TypeOK, Slots, RingCount, SlotAfter
<1> DEFINE c == commands'[writeIndex]
           R == Append(Ring, c)
<1>4. Ring \in Seq(Command) /\ Len(Ring) = RingCount
  BY RingIsSequence DEF RingSequence
<1>5. Ring' \in Seq(Command) /\ Len(Ring') = RingCount'
  BY RingStaysSequence DEF RingSequence
<1>6. c \in Command
  BY DEF TypeOK, Command, Slots
<1> HIDE DEF c
<1>7. R \in Seq(Command) /\ Len(R) = RingCount + 1
  BY <1>4, <1>6, AppendProperties
<1>8. ASSUME NEW k \in 1 .. RingCount + 1 PROVE Ring'[k] = R[k]
  <2>1. k - 1 \in Nat /\ Ring'[k] = commands'[SlotAfter(k - 1)]
    BY <1>1, <1>3 DEF Ring
  <2>2. CASE k = RingCount + 1
    <3>1. Ring'[k] = c
      BY <1>1, <1>2, <2>1, <2>2 DEF c
    <3>2. QED
      BY <1>4, <1>6, <2>2, <3>1, AppendProperties
  <2>3. CASE k \in 1 .. RingCount
    <3>1. R[k] = Ring[k]
      BY <1>4, <1>6, <2>3, AppendProperties
    <3>2. QED
      BY <1>0, <2>1, <2>3, <3>1 DEF Ring
  <2>4. k = RingCount + 1 \/ k \in 1 .. RingCount
    BY <1>1
  <2>5. QED
    BY <2>2, <2>3, <2>4
<1>9. QED
  BY <1>1, <1>5, <1>7, <1>8, SeqEqual DEF c

LEMMA Predecessor == \A n \in Nat : \A k \in 1 .. n + 1 : k = 1 \/ k - 1 \in 1 .. n
  OBVIOUS

\* Moving the read index takes the oldest command away.
LEMMA RingPop ==
  ASSUME TypeOK, TypeOK', ~RingEmpty, UNCHANGED <<commands, writeIndex>>,
         readIndex' = NextSlot(readIndex)
  PROVE  Ring = <<commands[readIndex]>> \o Ring'
<1>1. RingCount' \in Nat /\ RingCount = RingCount' + 1
  BY SizeAssumption DEF TypeOK, Slots, RingCount, RingEmpty, NextSlot
<1>2. SlotAfter(0) = readIndex
  BY SizeAssumption DEF TypeOK, Slots, SlotAfter
<1>3. \A k \in 1 .. RingCount' : SlotAfter(k) = SlotAfter(k - 1)'
  BY SizeAssumption DEF TypeOK, Slots, RingCount, SlotAfter, NextSlot
<1> DEFINE c == commands[readIndex]
           R == <<c>> \o Ring'
<1>4. Ring \in Seq(Command) /\ Len(Ring) = RingCount
  BY RingIsSequence DEF RingSequence
<1>5. Ring' \in Seq(Command) /\ Len(Ring') = RingCount'
  BY RingStaysSequence DEF RingSequence
<1>6. c \in Command
  BY DEF TypeOK
<1>7. <<c>> \in Seq(Command) /\ Len(<<c>>) = 1 /\ <<c>>[1] = c
  BY <1>6
<1>8. /\ R \in Seq(Command)
      /\ Len(R) = RingCount' + 1
      /\ \A k \in 1 .. RingCount' + 1 :
            R[k] = IF k <= 1 THEN <<c>>[k] ELSE Ring'[k - 1]
  BY <1>1, <1>5, <1>7, ConcatProperties
<1>9. ASSUME NEW k \in 1 .. RingCount PROVE Ring[k] = R[k]
  <2>1. Ring[k] = commands[SlotAfter(k - 1)]
    BY DEF Ring
  <2>2. CASE k = 1
    BY <1>1, <1>2, <1>7, <1>8, <2>1, <2>2
  <2>3. CASE k - 1 \in 1 .. RingCount'
    <3>1. R[k] = Ring'[k - 1]
      BY <1>1, <1>8, <2>3
    <3>2. Ring'[k - 1] = commands[SlotAfter(k - 2)']
      BY <1>1, <2>3 DEF Ring
    <3>3. SlotAfter(k - 1) = SlotAfter(k - 2)'
      BY <1>1, <1>3, <2>3
    <3>4. QED
      BY <2>1, <3>1, <3>2, <3>3
  <2>4. k \in 1 .. RingCount' + 1
    BY <1>1
  <2>5. k = 1 \/ k - 1 \in 1 .. RingCount'
    BY <1>1, <2>4, Predecessor
  <2>6. QED
    BY <2>2, <2>3, <2>5
<1>10. QED
  BY <1>1, <1>4, <1>8, <1>9, SeqEqual

-----------------------------------------------------------------------------
(* The abstract steps.                                                     *)

seenVars == <<fx, video, Backlog>>

\* A step that the bus cannot see.
LEMMA Invisible ==
  ASSUME UNCHANGED <<fx, video, ringVars, pc1, cmd1>>
  PROVE  UNCHANGED seenVars
<1>1. Ring' = Ring
  BY DEF ringVars, Ring, RingCount, SlotAfter
<1>2. QED
  BY <1>1 DEF seenVars, Backlog

\* What core 0 does to the FxState and to the ring.
LEMMA Core0Steps ==
  ASSUME Handler0
  PROVE  \/ UNCHANGED <<fx, video, ringVars, pc1, cmd1>>
         \/ WriteQueue \/ WritePush \/ ResetQueue \/ ResetPush
         \/ WriteApply \/ ResetApply \/ ReadApply \/ ReadClear
<1> USE DEF stateVars, pubVars, core1Vars, Enter0, Exit0, Go0, Return0, ResetAccepted
<1>1. CASE WriteLock \/ WriteDropped \/ WriteFull \/ WriteDirect
  BY <1>1 DEF WriteLock, WriteDropped, WriteFull, WriteDirect
<1>2. CASE ResetLock \/ ResetMark \/ ResetFull \/ ResetDirect
  BY <1>2 DEF ResetLock, ResetMark, ResetFull, ResetDirect
<1>3. CASE ReadLock \/ ReadDirect \/ ReadOwned \/ ReadSnapshot
  BY <1>3 DEF ReadLock, ReadDirect, ReadOwned, ReadSnapshot
<1>4. CASE ReadArm \/ ReadLine \/ ReadDeferred
  BY <1>4 DEF ReadArm, ReadLine, ReadDeferred
<1>5. CASE RamLock \/ RamGate \/ RamDirect \/ RamSnapshot \/ RamLand
  BY <1>5 DEF RamLock, RamGate, RamDirect, RamSnapshot, RamLand
<1>6. QED
  BY <1>1, <1>2, <1>3, <1>4, <1>5 DEF Handler0

\* While core 0 owns the FxState nothing is waiting.
LEMMA NothingWaits ==
  ASSUME Base, ~owner
  PROVE  Backlog = <<>>
  BY RingIsSequence DEF Base, Handover, Backlog, RingSequence

\* Core 1 executes only a GSU that runs.
RunsOnly == pc1 = "run" => fx.running

LEMMA RunsOnlyStep == Base /\ RunsOnly /\ [Next]_vars => RunsOnly'
<1> SUFFICES ASSUME Base, RunsOnly, [Next]_vars PROVE RunsOnly'
  OBVIOUS
<1>1. CASE Service1
  BY <1>1 DEF RunsOnly, Service1, Go1, Service, ExchangeClear, ClearIrq, Pop,
     ApplyCommand, ForgetClear, Drained, Execute, ExecuteStop, PublishAccess,
     PublishRuntime, ReleaseLock, ReleaseKeep, ReleaseDecide, ReleaseStore, stateVars
<1>2. CASE pc1' = pc1 /\ fx' = fx
  BY <1>2 DEF RunsOnly
<1>3. CASE pc1' = pc1 /\ pc0 \in Core0Direct
  BY <1>3 DEF RunsOnly, Base, Handover
<1>4. CASE Handler0
  <2>1. CASE UNCHANGED <<fx, video, ringVars, pc1, cmd1>>
    BY <1>2, <2>1
  <2>2. CASE WriteQueue \/ WritePush \/ ResetQueue \/ ResetPush
    BY <1>2, <2>2 DEF WriteQueue, WritePush, ResetQueue, ResetPush, stateVars, core1Vars
  <2>3. CASE WriteApply \/ ResetApply \/ ReadApply \/ ReadClear
    BY <1>3, <2>3 DEF WriteApply, ResetApply, ReadApply, ReadClear, Return0, Exit0, Go0,
       ResetAccepted, core1Vars, Core0Direct
  <2>4. QED
    BY <1>4, <2>1, <2>2, <2>3, Core0Steps
<1>5. CASE Bus \/ Video1
  BY <1>2, <1>5 DEF Bus, BusAccess, ConsoleReset, ServiceReset, Video1,
     VideoAcquire, VideoRelease, stateVars, core1Vars
<1>6. QED
  BY <1>1, <1>2, <1>4, <1>5 DEF Next, vars, stateVars, core1Vars

\* A command that is queued is accepted; it joins the others at the end.
LEMMA Accepted ==
  ASSUME Base, TypeOK', WritePush \/ ResetPush
  PROVE  \E c \in Command : Bus_!Accept(c)
<1> DEFINE c == commands[writeIndex]
<1>1. /\ ~RingFull /\ UNCHANGED <<fx, video, commands, readIndex, pc1, cmd1>>
      /\ writeIndex' = NextSlot(writeIndex)
  BY DEF WritePush, ResetPush, Return0, Exit0, Go0, stateVars, core1Vars, Base, ResetsOnly
<1>2. TypeOK /\ c \in Command
  BY DEF Base, TypeOK
<1>3. Ring' = Append(Ring, c)
  BY <1>1, <1>2, RingPush
<1>4. Backlog' = Append(Backlog, c)
  <2>1. CASE pc1 = "apply"
    <3>1. Ring \in Seq(Command) /\ cmd1 \in Command
      BY <1>2, RingIsSequence DEF RingSequence, TypeOK
    <3>2. <<cmd1>> \o Append(Ring, c) = Append(<<cmd1>> \o Ring, c)
      BY <1>2, <3>1, AppendIsConcat, ConcatAssociative, ConcatProperties
    <3>3. QED
      BY <1>1, <1>3, <2>1, <3>2 DEF Backlog
  <2>2. CASE pc1 # "apply"
    BY <1>1, <1>3, <2>2 DEF Backlog
  <2>3. QED
    BY <2>1, <2>2
<1>5. video => c = "Reset"
  BY DEF WritePush, ResetPush, Return0, Exit0, Go0, Base, ResetsOnly
<1>6. Bus_!Accept(c)
  BY <1>1, <1>4, <1>5 DEF Bus_!Accept, Bus_!Admitted
<1>7. QED
  BY <1>2, <1>6

\* A command that core 0 applies at once finds none waiting.
LEMMA AppliedAtOnce ==
  ASSUME Base, WriteApply \/ ResetApply
  PROVE  \E c \in Command : Bus_!AcceptAndApply(c)
<1> DEFINE c == IF WriteApply THEN op0 ELSE "Reset"
<1>1. ~owner /\ UNCHANGED <<video, ringVars, pc1, cmd1>>
  BY DEF WriteApply, ResetApply, Return0, Exit0, Go0, ResetAccepted, core1Vars,
     Core0Direct, Base, Handover
<1>2. Backlog = <<>>
  BY <1>1, NothingWaits
<1>3. Backlog' = Backlog
  BY <1>1 DEF Backlog, ringVars, Ring, RingCount, SlotAfter
<1>4. c \in Command /\ fx' = Apply(fx, c)
  BY AccessAssumption DEF WriteApply, ResetApply, Return0, Exit0, Go0, Base, OpPlaced,
     WritePlaces, Command, Apply, WriteKinds
<1>5. video => c = "Reset"
  BY DEF WriteApply, Return0, Exit0, Go0, Base, ResetsOnly
<1>6. Bus_!AcceptAndApply(c)
  BY <1>1, <1>2, <1>3, <1>4, <1>5 DEF Bus_!AcceptAndApply, Bus_!Admitted
<1>7. QED
  BY <1>4, <1>6

\* The pop takes a command from the ring to core 1, which still has to apply
\* it: the bus sees no difference.
LEMMA PopInvisible ==
  ASSUME Base, TypeOK', Pop
  PROVE  UNCHANGED seenVars
<1>1. /\ ~RingEmpty /\ UNCHANGED <<fx, video, commands, writeIndex>>
      /\ pc1 = "drain" /\ pc1' = "apply"
      /\ readIndex' = NextSlot(readIndex) /\ cmd1' = commands[readIndex]
  BY DEF Pop, Go1, stateVars
<1>2. Ring = <<commands[readIndex]>> \o Ring'
  BY <1>1, RingPop DEF Base
<1>3. QED
  BY <1>1, <1>2 DEF seenVars, Backlog

\* Core 1 applies the oldest command.
LEMMA AppliedInOrder ==
  ASSUME Base, ApplyCommand
  PROVE  Bus_!ApplyOldest
<1>1. /\ pc1 = "apply" /\ pc1' # "apply" /\ fx' = Apply(fx, cmd1)
      /\ UNCHANGED <<video, ringVars>>
  BY DEF ApplyCommand, Go1
<1>2. Ring' = Ring
  BY <1>1 DEF ringVars, Ring, RingCount, SlotAfter
<1>3. Ring \in Seq(Command) /\ cmd1 \in Command
  BY RingIsSequence DEF Base, RingSequence, TypeOK
<1>4. Backlog = <<cmd1>> \o Ring /\ Backlog' = Ring
  BY <1>1, <1>2 DEF Backlog
<1>5. Backlog # <<>> /\ Head(Backlog) = cmd1 /\ Tail(Backlog) = Ring
  BY <1>3, <1>4
<1>6. QED
  BY <1>1, <1>4, <1>5 DEF Bus_!ApplyOldest

\* One step of FxSync is one step of the bus, or none.
LEMMA BusStep ==
  ASSUME Base, RunsOnly, TypeOK', [Next]_vars
  PROVE  [Bus_!Next]_seenVars
<1>1. CASE UNCHANGED <<fx, video, ringVars, pc1, cmd1>>
  BY <1>1, Invisible
<1>2. CASE UNCHANGED vars
  BY <1>1, <1>2 DEF vars, stateVars, core1Vars
<1>3. CASE Bus
  BY <1>1, <1>3 DEF Bus, BusAccess, ConsoleReset, ServiceReset, Go0, stateVars, core1Vars
<1>4. CASE Handler0
  <2>1. CASE WriteQueue \/ ResetQueue
    <3>1. PICK c : commands' = [commands EXCEPT ![writeIndex] = c]
      BY <2>1 DEF WriteQueue, ResetQueue
    <3>2. ~RingFull /\ UNCHANGED <<fx, video, writeIndex, readIndex, pc1, cmd1>>
      BY <2>1 DEF WriteQueue, ResetQueue, stateVars, core1Vars
    <3>3. Ring' = Ring
      BY <3>1, <3>2, RingFill DEF Base
    <3>4. QED
      BY <3>2, <3>3 DEF seenVars, Backlog
  <2>2. CASE WritePush \/ ResetPush
    BY <2>2, Accepted DEF Bus_!Next
  <2>3. CASE WriteApply \/ ResetApply
    BY <2>3, AppliedAtOnce DEF Bus_!Next
  <2>4. CASE ReadApply
    <3>1. UNCHANGED <<video, ringVars, pc1, cmd1>>
      BY <2>4 DEF ReadApply, core1Vars
    <3>2. CASE op0 = "read_sfrh"
      <4>1. fx' = ReadSfrHigh(fx)
        BY <2>4, <3>2 DEF ReadApply
      <4>2. Backlog' = Backlog
        BY <3>1 DEF Backlog, ringVars, Ring, RingCount, SlotAfter
      <4>3. QED
        BY <3>1, <4>1, <4>2 DEF Bus_!Next, Bus_!ClearIrq
    <3>3. CASE op0 # "read_sfrh"
      BY <1>1, <2>4, <3>1, <3>3 DEF ReadApply
    <3>4. QED
      BY <3>2, <3>3
  <2>5. CASE ReadClear
    <3>1. fx' = ReadSfrHigh(fx) /\ UNCHANGED <<video, ringVars, pc1, cmd1>>
      BY <2>5 DEF ReadClear, core1Vars
    <3>2. Backlog' = Backlog
      BY <3>1 DEF Backlog, ringVars, Ring, RingCount, SlotAfter
    <3>3. QED
      BY <3>1, <3>2 DEF Bus_!Next, Bus_!ClearIrq
  <2>6. QED
    BY <1>1, <1>4, <2>1, <2>2, <2>3, <2>4, <2>5, Core0Steps
<1>5. CASE Service1
  <2>1. CASE ApplyCommand
    BY <2>1, AppliedInOrder DEF Bus_!Next
  <2>2. CASE Pop
    BY <2>2, PopInvisible
  <2>3. CASE Service \/ ExchangeClear \/ ForgetClear \/ Drained \/ PublishAccess
             \/ PublishRuntime \/ ReleaseLock \/ ReleaseKeep \/ ReleaseDecide \/ ReleaseStore
    <3>1. /\ UNCHANGED <<fx, video, ringVars, cmd1>>
          /\ pc1 # "apply" /\ pc1' # "apply"
      BY <2>3 DEF Go1, Service, ExchangeClear, ForgetClear, Drained, PublishAccess,
         PublishRuntime, ReleaseLock, ReleaseKeep, ReleaseDecide, ReleaseStore, stateVars
    <3>2. Backlog' = Backlog
      BY <3>1 DEF Backlog, ringVars, Ring, RingCount, SlotAfter
    <3>3. QED
      BY <3>1, <3>2 DEF seenVars
  <2>4. CASE ClearIrq \/ Execute \/ ExecuteStop
    <3>1. /\ UNCHANGED <<video, ringVars, cmd1>>
          /\ pc1 # "apply" /\ pc1' # "apply"
      BY <2>4 DEF Go1, ClearIrq, Execute, ExecuteStop
    <3>2. Backlog' = Backlog
      BY <3>1 DEF Backlog, ringVars, Ring, RingCount, SlotAfter
    <3>3. CASE ClearIrq
      BY <3>1, <3>2, <3>3 DEF ClearIrq, Bus_!Next, Bus_!ClearIrq
    <3>4. CASE Execute \/ ExecuteStop
      <4>1. fx.running
        BY <3>4 DEF Execute, ExecuteStop, Go1, RunsOnly
      <4>2. \/ fx' = Plain(fx)
            \/ \E raise \in BOOLEAN : (raise => StopIrq) /\ ~fx.nop /\ fx' = Stop(fx, raise)
        BY <3>4 DEF Execute, ExecuteStop
      <4>3. QED
        BY <3>1, <3>2, <4>1, <4>2 DEF Bus_!Next, Bus_!Execute
    <3>5. QED
      BY <2>4, <3>3, <3>4
  <2>5. QED
    BY <1>5, <2>1, <2>2, <2>3, <2>4 DEF Service1
<1>6. CASE Video1
  <2>1. UNCHANGED <<fx, ringVars, pc1, cmd1>>
    BY <1>6 DEF Video1, VideoAcquire, VideoRelease, core1Vars
  <2>2. Backlog' = Backlog
    BY <2>1 DEF Backlog, ringVars, Ring, RingCount, SlotAfter
  <2>3. CASE VideoAcquire
    <3>1. Backlog = <<>>
      BY <2>3, NothingWaits DEF VideoAcquire
    <3>2. QED
      BY <2>1, <2>2, <2>3, <3>1 DEF VideoAcquire, Bus_!Next, Bus_!VideoAcquire
  <2>4. CASE VideoRelease
    BY <2>1, <2>2, <2>4 DEF VideoRelease, Bus_!Next, Bus_!VideoRelease
  <2>5. QED
    BY <1>6, <2>3, <2>4 DEF Video1
<1>7. QED
  BY <1>2, <1>3, <1>4, <1>5, <1>6 DEF Next

\* The hand-off implements the command bus.
THEOREM CommandsInOrder == Spec => OrderedCommands
<1>1. Init => Bus_!Init
  <2> SUFFICES ASSUME Init PROVE Bus_!Init
    OBVIOUS
  <2>1. Backlog = <<>>
    BY InitIInv, IInvBase, NothingWaits DEF Init
  <2>2. QED
    BY <2>1 DEF Init, Bus_!Init
<1>2. Init => RunsOnly
  BY DEF Init, RunsOnly
<1>3. IInv /\ IInv' /\ RunsOnly /\ [Next]_vars => [Bus_!Next]_seenVars
  BY BusStep, IInvBase DEF IInv
<1>4. QED
  BY <1>1, <1>2, <1>3, RunsOnlyStep, IInvBase, InductiveInvariant, PTL
  DEF Spec, OrderedCommands, Bus_!Spec, seenVars

-----------------------------------------------------------------------------
(* FxSyncIrq: STOP interrupts across the hand-off.                         *)

irqVars == <<vars, unseen, paced>>

\* A read of $3031 that has been answered from the snapshot and is not over.
ClearingRead == pc0 \in ClearPlaces \/ (pc0 \in {"rd_lock2", "rd_gate2"} /\ op0 = "read_sfrh")

\* A clear that core 1 has yet to carry out.
Clearing == irqClear \/ pc1 = "clearfx"

\* ResetWaiting, by the slots of the ring.
Coming == \/ pc0 = "r_direct"
          \/ pc1 = "apply" /\ cmd1 = "Reset"
          \/ \E i \in Slots : Queued(i) /\ commands[i] = "Reset"

\* What holds of every CPU: nobody but a pending command or clear keeps a
\* stopped GSU with core 1.
IrqBase ==
  /\ unseen \in BOOLEAN /\ paced \in BOOLEAN
  /\ (line => fx.irq) /\ (unseen => fx.irq)
  /\ pc1 = "uncleared" => ~fx.irq /\ ~fx.running
  /\ pc1 = "run" => fx.running
  /\ owner /\ pc1 = "top" => fx.running \/ ~RingEmpty \/ irqClear
  /\ pc0 = "w_push" => commands[writeIndex] = op0

\* A paced CPU starts the GSU only when core 0 owns it, so that nothing on
\* its way to core 1 starts it.
StartsDirect ==
  /\ op0 \in Starts => ~owner /\ ~irqClear /\ ~fx.irq /\ ~fx.running /\ ~line
  /\ pc1 = "apply" => cmd1 \notin Starts
  /\ \A i \in Slots : Queued(i) => commands[i] \notin Starts

\* A running GSU has no IRQ that anybody could be clearing.
RunsUnmarked ==
  fx.running =>
    /\ ~fx.irq /\ ~runtime.irq /\ (pc1 = "store" => ~snap1.irq)
    /\ ~ClearingRead
    /\ Clearing => Coming

\* Whoever takes an IRQ away or lowers the line does so for an IRQ that has
\* been seen, or before a reset.
ClearsSeen ==
  /\ pc0 = "r_mark" => Coming \/ (~fx.irq /\ ~fx.running)
  /\ unseen /\ Clearing => Coming
  /\ ClearingRead => ~unseen
  /\ fx.irq /\ ~line => Clearing \/ Coming
  /\ pc0 = "rd_line" => Clearing \/ ~fx.irq

IrqInv == IInv /\ IrqBase /\ (paced => StartsDirect /\ RunsUnmarked /\ ClearsSeen)

\* What the operations do to the two bits of the SFR.
LEMMA FxBits ==
  ASSUME NEW f \in FxStates
  PROVE  /\ ~ResetFx.irq /\ ~ResetFx.running
         /\ ~ReadSfrHigh(f).irq /\ ReadSfrHigh(f).running = f.running
         /\ Plain(f).irq = f.irq /\ Plain(f).running = f.running
         /\ \A raise \in BOOLEAN : Stop(f, raise).irq = (f.irq \/ raise) /\ ~Stop(f, raise).running
         /\ \A w : CpuWrite(f, w).irq = f.irq
         /\ \A w : w \notin Starts /\ CpuWrite(f, w).running => f.running
<1>1. ~ResetFx.irq /\ ~ResetFx.running
  BY DEF ResetFx
<1>2. ~ReadSfrHigh(f).irq /\ ReadSfrHigh(f).running = f.running
  BY DEF ReadSfrHigh, FxStates
<1>3. Plain(f).irq = f.irq /\ Plain(f).running = f.running
  BY DEF Plain, FxStates
<1>4. ASSUME NEW raise \in BOOLEAN
      PROVE  Stop(f, raise).irq = (f.irq \/ raise) /\ ~Stop(f, raise).running
  BY DEF Stop, FxStates
<1>5. ASSUME NEW w
      PROVE  CpuWrite(f, w).irq = f.irq /\ (w \notin Starts /\ CpuWrite(f, w).running => f.running)
  BY DEF CpuWrite, FxStates, Starts
<1>6. QED
  BY <1>1, <1>2, <1>3, <1>4, <1>5

\* What a step does to the queued commands.
LEMMA QueueStep ==
  ASSUME IInv, Next
  PROVE  /\ \A i \in Slots : Queued(i) =>
              /\ commands'[i] = commands[i]
              /\ Queued(i)' \/ (pc1' = "apply" /\ cmd1' = commands[i])
         /\ \A i \in Slots : Queued(i)' =>
              Queued(i) \/ (i = writeIndex /\ pc0 \in {"w_push", "r_push"} /\ commands'[i] = commands[i])
<1> USE SizeAssumption DEF IInv, TypeOK, Slots, Queued, NextSlot, RingFull, RingEmpty, ResetsOnly,
                           ringVars, core0Vars, core1Vars, Go0, Go1, Exit0, Return0
<1>1. CASE Pop
  BY <1>1 DEF Pop
<1>2. CASE WriteQueue \/ ResetQueue
  BY <1>2 DEF WriteQueue, ResetQueue
<1>3. CASE WritePush \/ ResetPush
  BY <1>3 DEF WritePush, ResetPush
<1>4. CASE UNCHANGED ringVars
  BY <1>4
<1>5. CASE Bus \/ Video1
  BY <1>4, <1>5 DEF Bus, BusAccess, ConsoleReset, ServiceReset, Video1, VideoAcquire, VideoRelease
<1>6. CASE Handler0
  BY <1>2, <1>3, <1>4, <1>6
     DEF Handler0, WriteLock, WriteDropped, WriteFull, WriteDirect, WriteApply, ResetLock, ResetMark,
         ResetFull, ResetDirect, ResetApply, ReadLock, ReadDirect, ReadApply, ReadOwned, ReadSnapshot,
         ReadArm, ReadLine, ReadDeferred, ReadClear, RamLock, RamGate, RamDirect, RamSnapshot, RamLand
<1>7. CASE Service1
  BY <1>1, <1>4, <1>7
     DEF Service1, Service, ExchangeClear, ClearIrq, ApplyCommand, ForgetClear, Drained, Execute,
         ExecuteStop, PublishAccess, PublishRuntime, ReleaseLock, ReleaseKeep, ReleaseDecide, ReleaseStore
<1>8. QED
  BY <1>5, <1>6, <1>7 DEF Next

\* A reset on its way stays there until it is carried out.
LEMMA ComingStep ==
  ASSUME IInv, Next, Coming
  PROVE  Coming' \/ (~fx'.irq /\ ~fx'.running)
<1>1. CASE \E i \in Slots : Queued(i) /\ commands[i] = "Reset"
  <2>1. PICK i \in Slots : Queued(i) /\ commands[i] = "Reset"
    BY <1>1
  <2>2. CASE Queued(i)'
    <3>1. commands'[i] = "Reset" /\ i \in Slots'
      BY <2>1, QueueStep DEF Slots
    <3>2. QED
      BY <2>2, <3>1 DEF Coming
  <2>3. CASE ~Queued(i)'
    BY <2>1, <2>3, QueueStep DEF Coming
  <2>4. QED
    BY <2>2, <2>3
<1>2. CASE pc0 = "r_direct"
  <2>1. CASE ResetApply
    BY <2>1, FxBits DEF ResetApply, IInv, TypeOK
  <2>2. CASE pc0' = pc0
    BY <1>2, <2>2 DEF Coming
  <2>3. ResetApply \/ pc0' = pc0
    BY <1>2 DEF Next, Bus, BusAccess, ConsoleReset, ServiceReset, Go0, Go1, Enter0, Exit0, Return0,
         Handler0, WriteLock, WriteDropped, WriteQueue, WritePush, WriteFull, WriteDirect, WriteApply,
         ResetLock, ResetQueue, ResetPush, ResetMark, ResetAccepted,
         ResetFull, ResetDirect, ReadLock, ReadDirect, ReadApply, ReadOwned, ReadSnapshot,
         ReadArm, ReadLine, ReadDeferred, ReadClear, RamLock, RamGate, RamDirect, RamSnapshot, RamLand,
         Service1, Service, ExchangeClear, ClearIrq, Pop, ApplyCommand, ForgetClear, Drained, Execute,
         ExecuteStop, PublishAccess, PublishRuntime, ReleaseLock, ReleaseKeep, ReleaseDecide, ReleaseStore,
         Video1, VideoAcquire, VideoRelease, core0Vars
  <2>4. QED
    BY <2>1, <2>2, <2>3
<1>3. CASE pc1 = "apply" /\ cmd1 = "Reset"
  <2>1. CASE ApplyCommand
    BY <1>3, <2>1, FxBits DEF ApplyCommand, Apply, IInv, TypeOK
  <2>2. CASE pc1' = pc1 /\ cmd1' = cmd1
    BY <1>3, <2>2 DEF Coming
  <2>3. CASE Service1
    BY <1>3, <2>1, <2>3
       DEF Service1, Service, ExchangeClear, ClearIrq, Pop, ForgetClear, Drained, Execute, ExecuteStop,
           PublishAccess, PublishRuntime, ReleaseLock, ReleaseKeep, ReleaseDecide, ReleaseStore, Go1
  <2>4. CASE Bus \/ Video1
    BY <2>2, <2>4 DEF Bus, BusAccess, ConsoleReset, ServiceReset, Video1, VideoAcquire, VideoRelease, core1Vars
  <2>5. CASE Handler0
    BY <2>2, <2>5, Core0Effect DEF IInv, core1Vars
  <2>6. QED
    BY <2>3, <2>4, <2>5 DEF Next
<1>4. QED
  BY <1>1, <1>2, <1>3 DEF Coming

\* The slots that hold a queued command are those the ring counts.
LEMMA WaitingIs == ASSUME TypeOK PROVE Coming <=> ResetWaiting
<1> USE SizeAssumption DEF TypeOK, Slots, Queued, RingCount, SlotAfter
<1>1. \A k \in 1 .. RingCount : SlotAfter(k - 1) \in Slots /\ Queued(SlotAfter(k - 1))
  OBVIOUS
<1>2. ASSUME NEW i \in Slots, Queued(i)
      PROVE  \E k \in 1 .. RingCount : SlotAfter(k - 1) = i
  <2>1. CASE readIndex <= i
    <3>1. i - readIndex + 1 \in 1 .. RingCount /\ SlotAfter((i - readIndex + 1) - 1) = i
      BY <1>2, <2>1
    <3>2. QED
      BY <3>1
  <2>2. CASE ~(readIndex <= i)
    <3>1. i + Size - readIndex + 1 \in 1 .. RingCount /\ SlotAfter((i + Size - readIndex + 1) - 1) = i
      BY <1>2, <2>2
    <3>2. QED
      BY <3>1
  <2>3. QED
    BY <2>1, <2>2
<1>3. \A k \in 1 .. RingCount : Ring[k] = commands[SlotAfter(k - 1)]
  BY DEF Ring
<1> HIDE DEF Queued, RingCount, SlotAfter
<1>4. QED
  BY <1>1, <1>2, <1>3 DEF Coming, ResetWaiting

\* Which steps touch the FxState or the line, and which the deferred clear.
LEMMA Touching ==
  ASSUME Next
  PROVE  /\ \/ UNCHANGED <<fx, line>>
            \/ WriteApply \/ ResetMark \/ ResetApply \/ ReadApply \/ ReadLine \/ ReadClear
            \/ ClearIrq \/ ApplyCommand \/ Execute \/ ExecuteStop
         /\ \/ UNCHANGED irqClear
            \/ ResetMark \/ ResetApply \/ ReadArm \/ ReadClear \/ ExchangeClear \/ ForgetClear
<1> USE DEF stateVars, pubVars
<1>1. CASE Bus \/ Video1
  BY <1>1 DEF Bus, BusAccess, ConsoleReset, ServiceReset, Video1, VideoAcquire, VideoRelease
<1>2. CASE Handler0
  BY <1>2 DEF Handler0, WriteLock, WriteDropped, WriteQueue, WritePush, WriteFull, WriteDirect, WriteApply,
     ResetLock, ResetQueue, ResetPush, ResetFull, ResetDirect, ReadLock, ReadDirect, ReadApply, ReadOwned,
     ReadSnapshot, ReadArm, ReadLine, ReadDeferred, RamLock, RamGate, RamDirect, RamSnapshot, RamLand
<1>3. CASE Service1
  BY <1>3 DEF Service1, Service, ExchangeClear, ClearIrq, Pop, ApplyCommand, ForgetClear, Drained, Execute,
     ExecuteStop, PublishAccess, PublishRuntime, ReleaseLock, ReleaseKeep, ReleaseDecide, ReleaseStore
<1>4. QED
  BY <1>1, <1>2, <1>3 DEF Next

\* While core 1 is at work, nobody but core 1 changes the FxState.
LEMMA OwnedBy1 ==
  ASSUME IInv, Next, pc1 # "top", pc1' = pc1
  PROVE  fx' = fx
<1>1. pc0 \notin Core0Direct
  BY DEF IInv, Handover
<1>2. UNCHANGED <<fx, line>> \/ ResetMark \/ ReadLine
  BY <1>1, Touching DEF WriteApply, ReadApply, ResetApply, ReadClear, ClearIrq, ApplyCommand, Execute,
     ExecuteStop, Core0Direct, Go0, Go1, Exit0, Return0, ResetAccepted
<1>3. QED
  BY <1>2 DEF ResetMark, ReadLine, stateVars

\* What holds of every CPU goes on holding.
LEMMA BaseStep == ASSUME IInv, IrqBase, IrqNext PROVE IrqBase'
<1> USE DEF IrqBase
<1>0. /\ Next /\ fx \in FxStates /\ line \in BOOLEAN
      /\ unseen' = (Raised \/ (unseen /\ fx'.irq /\ ~Shown)) /\ paced' = (paced /\ PacedStep)
  BY DEF IrqNext, IInv, TypeOK
<1>1. (unseen \in BOOLEAN /\ paced \in BOOLEAN /\ (unseen => fx.irq))'
  <2>1. Raised => fx'.irq
    BY DEF Raised
  <2>2. QED
    BY <1>0, <2>1
<1>b. /\ ~ResetFx.irq /\ ~ResetFx.running
      /\ ~ReadSfrHigh(fx).irq /\ ReadSfrHigh(fx).running = fx.running
      /\ Plain(fx).irq = fx.irq
      /\ \A raise \in BOOLEAN : Stop(fx, raise).irq = (fx.irq \/ raise)
      /\ \A w : CpuWrite(fx, w).irq = fx.irq
  BY <1>0, FxBits
<1> USE DEF Go0, Go1, Exit0, Return0, Publish0, ResetAccepted
<1>2. (line => fx.irq)'
  <2>1. CASE WriteApply \/ ReadApply \/ ResetApply \/ ReadClear
    BY <1>b, <2>1 DEF WriteApply, ReadApply, ResetApply, ReadClear
  <2>2. CASE ResetMark \/ ReadLine
    BY <2>2 DEF ResetMark, ReadLine, stateVars
  <2>3. CASE ClearIrq \/ ApplyCommand
    BY <1>b, <2>3 DEF ClearIrq, ApplyCommand, Apply
  <2>4. CASE Execute \/ ExecuteStop
    BY <1>0, <1>b, <2>4 DEF Execute, ExecuteStop, pubVars
  <2>5. QED
    BY <1>0, <2>1, <2>2, <2>3, <2>4, Touching
<1>3. (pc1 = "uncleared" => ~fx.irq /\ ~fx.running)'
  <2>1. SUFFICES ASSUME pc1' = "uncleared" PROVE ~fx'.irq /\ ~fx'.running
    OBVIOUS
  <2>2. CASE ApplyCommand
    BY <1>b, <2>1, <2>2 DEF ApplyCommand, Apply
  <2>3. CASE ~ApplyCommand
    <3>1. pc1 = "uncleared" /\ pc1' = pc1
      <4>1. CASE Service1
        BY <2>1, <2>3, <4>1
           DEF Service1, Service, ExchangeClear, ClearIrq, Pop, ForgetClear, Drained, Execute, ExecuteStop,
               PublishAccess, PublishRuntime, ReleaseLock, ReleaseKeep, ReleaseDecide, ReleaseStore
      <4>2. CASE Bus \/ Video1
        BY <2>1, <4>2 DEF Bus, BusAccess, ConsoleReset, ServiceReset, Video1, VideoAcquire, VideoRelease, core1Vars
      <4>3. CASE Handler0
        BY <2>1, <4>3, Core0Effect DEF IInv, core1Vars
      <4>4. QED
        BY <1>0, <4>1, <4>2, <4>3 DEF Next
    <3>2. fx' = fx
      BY <1>0, <3>1, OwnedBy1
    <3>3. QED
      BY <3>1, <3>2
  <2>4. QED
    BY <2>2, <2>3
<1>4. (owner /\ pc1 = "top" => fx.running \/ ~RingEmpty \/ irqClear)'
  <2> USE SizeAssumption DEF IInv, TypeOK, Handover, ResetsOnly, RingEmpty, RingFull, Core0Direct
  <2>1. SUFFICES ASSUME owner', pc1' = "top" PROVE fx'.running \/ ~RingEmpty' \/ irqClear'
    OBVIOUS
  <2>2. CASE PublishRuntime \/ ReleaseKeep
    BY <2>1, <2>2 DEF PublishRuntime, ReleaseKeep, ringVars, stateVars
  <2>3. CASE WriteApply
    BY <2>1, <2>3 DEF WriteApply
  <2>4. CASE WritePush \/ ResetPush
    BY <2>1, <2>4 DEF WritePush, ResetPush, stateVars, core1Vars
  <2>5. CASE ~(PublishRuntime \/ ReleaseKeep \/ WriteApply \/ WritePush \/ ResetPush)
    <3>1. CASE Service1
      BY <2>1, <2>5, <3>1
         DEF Service1, Service, ExchangeClear, ClearIrq, Pop, ApplyCommand, ForgetClear, Drained, Execute, ExecuteStop,
             PublishAccess, ReleaseLock, ReleaseDecide, ReleaseStore
    <3>2. CASE Bus \/ Video1
      BY <2>1, <3>2 DEF Bus, BusAccess, ConsoleReset, ServiceReset, Video1, VideoAcquire, VideoRelease,
         core1Vars, stateVars, ringVars
    <3>3. CASE WriteLock \/ WriteDropped \/ WriteQueue \/ WriteFull \/ WriteDirect \/ ResetLock \/ ResetQueue
               \/ ResetMark \/ ResetFull \/ ResetDirect \/ ResetApply
      BY <2>1, <3>3
         DEF WriteLock, WriteDropped, WriteQueue, WriteFull, WriteDirect, ResetLock, ResetQueue, ResetMark,
             ResetFull, ResetDirect, ResetApply, Enter0, core1Vars, stateVars, ringVars
    <3>4. CASE ReadLock \/ ReadDirect \/ ReadApply \/ ReadOwned \/ ReadSnapshot \/ ReadArm \/ ReadLine
               \/ ReadDeferred \/ ReadClear \/ RamLock \/ RamGate \/ RamDirect \/ RamSnapshot \/ RamLand
      BY <2>1, <3>4
         DEF ReadLock, ReadDirect, ReadApply, ReadOwned, ReadSnapshot, ReadArm, ReadLine, ReadDeferred, ReadClear,
             RamLock, RamGate, RamDirect, RamSnapshot, RamLand, Enter0, core1Vars, stateVars, ringVars
    <3>5. QED
      BY <1>0, <2>5, <3>1, <3>2, <3>3, <3>4 DEF Next, Handler0
  <2>6. QED
    BY <2>2, <2>3, <2>4, <2>5
<1>5. (pc0 = "w_push" => commands[writeIndex] = op0)'
  <2>1. CASE WriteQueue
    BY <2>1 DEF WriteQueue, IInv, TypeOK
  <2>2. CASE ~WriteQueue /\ Handler0
    BY <2>2 DEF Handler0, WriteLock, WriteDropped, WritePush, WriteFull, WriteDirect, WriteApply,
       ResetLock, ResetQueue, ResetPush, ResetMark, ResetFull, ResetDirect, ResetApply, ReadLock, ReadDirect,
       ReadApply, ReadOwned, ReadSnapshot, ReadArm, ReadLine, ReadDeferred, ReadClear,
       RamLock, RamGate, RamDirect, RamSnapshot, RamLand, Enter0
  <2>3. CASE Service1 \/ Video1
    BY <2>3 DEF Service1, Service, ExchangeClear, ClearIrq, Pop, ApplyCommand, ForgetClear, Drained, Execute,
       ExecuteStop, PublishAccess, PublishRuntime, ReleaseLock, ReleaseKeep, ReleaseDecide, ReleaseStore,
       Video1, VideoAcquire, VideoRelease, core0Vars, ringVars
  <2>4. CASE Bus
    BY <2>4 DEF Bus, BusAccess, ConsoleReset, ServiceReset
  <2>5. QED
    BY <1>0, <2>1, <2>2, <2>3, <2>4 DEF Next
<1>6. (pc1 = "run" => fx.running)'
  <2>1. SUFFICES ASSUME pc1' = "run" PROVE fx'.running
    OBVIOUS
  <2>2. CASE Drained
    BY <2>1, <2>2 DEF Drained, stateVars
  <2>3. CASE ~Drained
    <3>1. pc1 = "run" /\ pc1' = pc1
      <4>1. CASE Service1
        BY <2>1, <2>3, <4>1
           DEF Service1, Service, ExchangeClear, ClearIrq, Pop, ApplyCommand, ForgetClear, Execute, ExecuteStop,
               PublishAccess, PublishRuntime, ReleaseLock, ReleaseKeep, ReleaseDecide, ReleaseStore
      <4>2. CASE Bus \/ Video1
        BY <2>1, <4>2 DEF Bus, BusAccess, ConsoleReset, ServiceReset, Video1, VideoAcquire, VideoRelease, core1Vars
      <4>3. CASE Handler0
        BY <2>1, <4>3, Core0Effect DEF IInv, core1Vars
      <4>4. QED
        BY <1>0, <4>1, <4>2, <4>3 DEF Next
    <3>2. fx' = fx
      BY <1>0, <3>1, OwnedBy1
    <3>3. QED
      BY <3>1, <3>2
  <2>4. QED
    BY <2>2, <2>3
<1>7. QED
  BY <1>1, <1>2, <1>3, <1>4, <1>5, <1>6

\* An IRQ is raised by a STOP, with the line.
LEMMA RaisedIs ==
  ASSUME IInv, IrqBase, Next, fx'.irq, ~fx.irq
  PROVE  /\ ExecuteStop /\ pc1 = "run" /\ fx.running /\ line'
         /\ pc1' = "publish" /\ UNCHANGED <<irqClear, pc0, op0>>
<1>1. fx \in FxStates /\ line \in BOOLEAN
  BY DEF IInv, TypeOK
<1>2. /\ ~ResetFx.irq /\ ~ReadSfrHigh(fx).irq /\ Plain(fx).irq = fx.irq
      /\ \A raise \in BOOLEAN : Stop(fx, raise).irq = (fx.irq \/ raise)
      /\ \A w : CpuWrite(fx, w).irq = fx.irq
  BY <1>1, FxBits
<1>3. ExecuteStop
  BY <1>2, Touching DEF WriteApply, ResetMark, ResetApply, ReadApply, ReadLine, ReadClear, ClearIrq,
     ApplyCommand, Apply, Execute, stateVars
<1>4. QED
  BY <1>1, <1>2, <1>3 DEF ExecuteStop, Go1, core0Vars, IrqBase

\* A clear on its way stays so until the IRQ is gone.
LEMMA ClearingKept ==
  ASSUME IInv, IrqBase, Next, Clearing, fx'.irq
  PROVE  Clearing'
<1>1. fx \in FxStates
  BY DEF IInv, TypeOK
<1>2. ~ResetFx.irq /\ ~ReadSfrHigh(fx).irq
  BY <1>1, FxBits
<1>3. CASE irqClear
  <2>1. ~ResetApply /\ ~ReadClear
    BY <1>2 DEF ResetApply, ReadClear
  <2>2. ~ForgetClear
    BY DEF ForgetClear, Go1, IrqBase
  <2>3. QED
    BY <1>3, <2>1, <2>2, Touching DEF ResetMark, ReadArm, ExchangeClear, Go1, Clearing
<1>4. CASE pc1 = "clearfx"
  <2>1. ~ClearIrq
    BY <1>2 DEF ClearIrq
  <2>2. CASE Service1
    BY <1>4, <2>1, <2>2
       DEF Service1, Service, ExchangeClear, Pop, ApplyCommand, ForgetClear, Drained, Execute, ExecuteStop,
           PublishAccess, PublishRuntime, ReleaseLock, ReleaseKeep, ReleaseDecide, ReleaseStore, Go1
  <2>3. CASE Bus \/ Video1
    BY <1>4, <2>3 DEF Bus, BusAccess, ConsoleReset, ServiceReset, Video1, VideoAcquire, VideoRelease,
       core1Vars, Clearing
  <2>4. CASE Handler0
    BY <1>4, <2>4, Core0Effect DEF IInv, core1Vars, Clearing
  <2>5. QED
    BY <2>2, <2>3, <2>4 DEF Next
<1>5. QED
  BY <1>3, <1>4 DEF Clearing

\* What a paced step is taken from.
Paced == IInv /\ IrqBase /\ StartsDirect /\ RunsUnmarked /\ ClearsSeen

\* A handler takes up an access only where a paced CPU begins one.
LEMMA AccessBegins ==
  ASSUME IInv, Next, op0' # op0, op0' # None
  PROVE  pc0 = "idle" /\ UNCHANGED <<fx, owner, irqClear, line, pc1>>
<1> USE DEF Go0, Go1, Exit0, Return0, Enter0, ResetAccepted
<1>1. CASE Handler0
  BY <1>1 DEF Handler0, WriteLock, WriteDropped, WriteQueue, WritePush, WriteFull, WriteDirect, WriteApply,
     ResetLock, ResetQueue, ResetPush, ResetMark, ResetFull, ResetDirect, ResetApply, ReadLock, ReadDirect,
     ReadApply, ReadOwned, ReadSnapshot, ReadArm, ReadLine, ReadDeferred, ReadClear,
     RamLock, RamGate, RamDirect, RamSnapshot, RamLand
<1>2. CASE Service1 \/ Video1
  BY <1>2, Core1Effect DEF IInv, Handover, core0Vars
<1>3. CASE Bus
  BY <1>3 DEF Bus, BusAccess, ConsoleReset, ServiceReset, stateVars, pubVars, core1Vars
<1>4. QED
  BY <1>1, <1>2, <1>3 DEF Next

\* Core 0 hands the GSU over at the end of the access that starts it.
LEMMA Core0Owner ==
  ASSUME Handler0, ~owner, op0' # None
  PROVE  ~owner'
<1> USE DEF stateVars, Return0
<1>1. CASE WriteLock \/ WriteDropped \/ WriteQueue \/ WritePush \/ WriteFull \/ WriteDirect \/ WriteApply
  BY <1>1 DEF WriteLock, WriteDropped, WriteQueue, WritePush, WriteFull, WriteDirect, WriteApply
<1>2. CASE ResetLock \/ ResetQueue \/ ResetPush \/ ResetMark \/ ResetFull \/ ResetDirect \/ ResetApply
  BY <1>2 DEF ResetLock, ResetQueue, ResetPush, ResetMark, ResetFull, ResetDirect, ResetApply
<1>3. CASE ReadLock \/ ReadDirect \/ ReadApply \/ ReadOwned \/ ReadSnapshot \/ ReadArm \/ ReadLine
           \/ ReadDeferred \/ ReadClear
  BY <1>3 DEF ReadLock, ReadDirect, ReadApply, ReadOwned, ReadSnapshot, ReadArm, ReadLine, ReadDeferred, ReadClear
<1>4. CASE RamLock \/ RamGate \/ RamDirect \/ RamSnapshot \/ RamLand
  BY <1>4 DEF RamLock, RamGate, RamDirect, RamSnapshot, RamLand
<1>5. QED
  BY <1>1, <1>2, <1>3, <1>4 DEF Handler0

\* Nothing on its way to core 1 starts the GSU.
LEMMA StartsStep ==
  ASSUME Paced, Next, PacedStep
  PROVE  StartsDirect'
<1>0. /\ IInv /\ IrqBase /\ StartsDirect /\ fx \in FxStates
      /\ ~ResetFx.irq /\ ~ResetFx.running
  BY FxBits DEF Paced, IInv, TypeOK
<1>1. (op0 \in Starts => ~owner /\ ~irqClear /\ ~fx.irq /\ ~fx.running /\ ~line)'
  <2>1. SUFFICES ASSUME op0' \in Starts
                 PROVE  ~owner' /\ ~irqClear' /\ ~fx'.irq /\ ~fx'.running /\ ~line'
    OBVIOUS
  <2>2. op0' # None
    BY <2>1 DEF Starts, None
  <2>3. CASE op0' # op0
    <3>1. pc0 = "idle" /\ UNCHANGED <<fx, owner, irqClear, line, pc1>>
      BY <1>0, <2>2, <2>3, AccessBegins
    <3>2. Settled /\ Acknowledged
      BY <2>1, <2>2, <3>1 DEF PacedStep
    <3>3. ~owner
      BY <1>0, <3>2 DEF Settled, Acknowledged, IrqBase
    <3>4. QED
      BY <3>1, <3>2, <3>3 DEF Acknowledged
  <2>4. CASE op0' = op0
    <3>1. /\ op0 \in Starts /\ op0 # None /\ op0 # "read_sfrh"
          /\ ~owner /\ ~irqClear /\ ~fx.irq /\ ~fx.running /\ ~line
      BY <1>0, <2>1, <2>2, <2>4 DEF StartsDirect, Starts
    <3>2. pc1 = "top" /\ pc0 \notin {"r_mark"} \cup ClearPlaces
      BY <1>0, <3>1 DEF IInv, Handover, OpPlaced
    <3>3. /\ \/ UNCHANGED <<fx, line>> \/ ResetApply
          /\ \/ UNCHANGED irqClear \/ ResetApply
      BY <2>2, <2>4, <3>1, <3>2, Touching
         DEF WriteApply, ResetMark, ReadApply, ReadArm, ReadLine, ReadClear, ClearIrq, ApplyCommand,
             Execute, ExecuteStop, ExchangeClear, ForgetClear, ClearPlaces, Go0, Go1, Exit0, Return0, ResetAccepted
    <3>4. ~owner'
      <4>1. CASE Handler0
        BY <2>2, <2>4, <3>1, <4>1, Core0Owner
      <4>2. CASE Service1 \/ Video1
        BY <1>0, <3>1, <4>2, Core1Effect DEF IInv, Handover
      <4>3. CASE Bus
        BY <3>1, <4>3 DEF Bus, BusAccess, ConsoleReset, ServiceReset, stateVars
      <4>4. QED
        BY <4>1, <4>2, <4>3 DEF Next
    <3>5. CASE ResetApply
      BY <1>0, <3>4, <3>5 DEF ResetApply
    <3>6. CASE UNCHANGED <<fx, line, irqClear>>
      BY <3>1, <3>4, <3>6
    <3>7. QED
      BY <3>3, <3>5, <3>6
  <2>5. QED
    BY <2>3, <2>4
<1>2. \A i \in Slots : Queued(i)' => commands'[i] \notin Starts
  <2> SUFFICES ASSUME NEW i \in Slots, Queued(i)' PROVE commands'[i] \notin Starts
    OBVIOUS
  <2>1. CASE Queued(i)
    BY <1>0, <2>1, QueueStep DEF StartsDirect
  <2>2. CASE ~Queued(i)
    <3>1. i = writeIndex /\ pc0 \in {"w_push", "r_push"} /\ commands'[i] = commands[i]
      BY <1>0, <2>2, QueueStep
    <3>2. CASE pc0 = "w_push"
      BY <1>0, <3>1, <3>2 DEF IrqBase, StartsDirect, IInv, Handover
    <3>3. CASE pc0 = "r_push"
      BY <1>0, <3>1, <3>3 DEF IInv, ResetsOnly, Starts
    <3>4. QED
      BY <3>1, <3>2, <3>3
  <2>3. QED
    BY <2>1, <2>2
<1>3. (pc1 = "apply" => cmd1 \notin Starts)'
  <2>1. CASE Pop
    <3>1. readIndex \in Slots /\ Queued(readIndex) /\ cmd1' = commands[readIndex]
      BY <1>0, <2>1, SizeAssumption DEF Pop, RingEmpty, Queued, IInv, TypeOK, Slots
    <3>2. QED
      BY <1>0, <3>1 DEF StartsDirect
  <2>2. CASE ~Pop /\ Service1
    BY <1>0, <2>2
       DEF Service1, Service, ExchangeClear, ClearIrq, ApplyCommand, ForgetClear, Drained, Execute, ExecuteStop,
           PublishAccess, PublishRuntime, ReleaseLock, ReleaseKeep, ReleaseDecide, ReleaseStore, Go1, StartsDirect
  <2>3. CASE Bus \/ Video1
    BY <1>0, <2>3 DEF Bus, BusAccess, ConsoleReset, ServiceReset, Video1, VideoAcquire, VideoRelease, core1Vars,
       StartsDirect
  <2>4. CASE Handler0
    BY <1>0, <2>4, Core0Effect DEF IInv, core1Vars, StartsDirect
  <2>5. QED
    BY <2>1, <2>2, <2>3, <2>4 DEF Next
<1>4. QED
  BY <1>1, <1>2, <1>3 DEF StartsDirect, Slots

\* Reads that clear begin with a snapshot that shows the IRQ.
LEMMA ReadBegins ==
  ASSUME Next, ClearingRead', ~ClearingRead
  PROVE  /\ pc0 = "rd_snap" /\ pc0' = "rd_arm" /\ runtime.irq
         /\ UNCHANGED <<fx, irqClear, line, pc1>>
<1> USE DEF Go0, Go1, Exit0, Return0, Enter0, ResetAccepted, ClearingRead, ClearPlaces
<1>1. CASE Handler0
  BY <1>1 DEF Handler0, WriteLock, WriteDropped, WriteQueue, WritePush, WriteFull, WriteDirect, WriteApply,
     ResetLock, ResetQueue, ResetPush, ResetMark, ResetFull, ResetDirect, ResetApply, ReadLock, ReadDirect,
     ReadApply, ReadOwned, ReadSnapshot, ReadArm, ReadLine, ReadDeferred, ReadClear,
     RamLock, RamGate, RamDirect, RamSnapshot, RamLand, stateVars, pubVars, core1Vars
<1>2. CASE Service1 \/ Video1
  BY <1>2 DEF Service1, Service, ExchangeClear, ClearIrq, Pop, ApplyCommand, ForgetClear, Drained, Execute,
     ExecuteStop, PublishAccess, PublishRuntime, ReleaseLock, ReleaseKeep, ReleaseDecide, ReleaseStore,
     Video1, VideoAcquire, VideoRelease, core0Vars
<1>3. CASE Bus
  BY <1>3 DEF Bus, BusAccess, ConsoleReset, ServiceReset
<1>4. QED
  BY <1>1, <1>2, <1>3 DEF Next

\* A clear begins with such a read, or with a queued reset.
LEMMA ClearBegins ==
  ASSUME Next, Clearing', ~Clearing
  PROVE  pc0 \in {"rd_arm", "r_mark"} /\ fx' = fx
<1> USE DEF Go0, Go1, ResetAccepted, Clearing
<1>1. irqClear' => pc0 \in {"rd_arm", "r_mark"} /\ fx' = fx
  BY Touching DEF ResetMark, ResetApply, ReadArm, ReadClear, ExchangeClear, ForgetClear
<1>2. pc1' # "clearfx"
  <2>1. CASE Service1
    BY <2>1 DEF Service1, Service, ExchangeClear, ClearIrq, Pop, ApplyCommand, ForgetClear, Drained, Execute,
       ExecuteStop, PublishAccess, PublishRuntime, ReleaseLock, ReleaseKeep, ReleaseDecide, ReleaseStore
  <2>2. CASE Bus \/ Video1
    BY <2>2 DEF Bus, BusAccess, ConsoleReset, ServiceReset, Video1, VideoAcquire, VideoRelease, core1Vars
  <2>3. CASE Handler0
    BY <2>3 DEF Handler0, WriteLock, WriteDropped, WriteQueue, WritePush, WriteFull, WriteDirect, WriteApply,
     ResetLock, ResetQueue, ResetPush, ResetMark, ResetFull, ResetDirect, ResetApply, ReadLock, ReadDirect,
     ReadApply, ReadOwned, ReadSnapshot, ReadArm, ReadLine, ReadDeferred, ReadClear,
     RamLock, RamGate, RamDirect, RamSnapshot, RamLand, core1Vars
  <2>4. QED
    BY <2>1, <2>2, <2>3 DEF Next
<1>3. QED
  BY <1>1, <1>2

\* A running GSU has no IRQ, and nobody takes one away.
LEMMA RunsStep ==
  ASSUME Paced, Next
  PROVE  RunsUnmarked'
<1>0. /\ IInv /\ IrqBase /\ StartsDirect /\ RunsUnmarked /\ ClearsSeen /\ fx \in FxStates
      /\ irqClear \in BOOLEAN
  BY DEF Paced, IInv, TypeOK
<1>b. /\ ~ResetFx.running /\ ReadSfrHigh(fx).running = fx.running /\ ~ReadSfrHigh(fx).irq
      /\ Plain(fx).irq = fx.irq /\ Plain(fx).running = fx.running
      /\ \A raise \in BOOLEAN : ~Stop(fx, raise).running
      /\ \A w : CpuWrite(fx, w).irq = fx.irq
      /\ \A w : w \notin Starts /\ CpuWrite(fx, w).running => fx.running
  BY <1>0, FxBits
<1> SUFFICES ASSUME fx'.running PROVE RunsUnmarked'
  BY DEF RunsUnmarked
<1>1. CASE ~fx.running
  <2>1. WriteApply
    <3>1. ~ApplyCommand
      BY <1>0, <1>1, <1>b DEF ApplyCommand, Apply, Go1, StartsDirect
    <3>2. ~Execute /\ ~ExecuteStop /\ ~ResetApply
      BY <1>1, <1>b DEF Execute, ExecuteStop, ResetApply
    <3>3. ~ReadApply /\ ~ReadClear /\ ~ClearIrq
      BY <1>1, <1>b DEF ReadApply, ReadClear, ClearIrq
    <3>4. fx' # fx
      BY <1>1
    <3>5. ~ResetMark /\ ~ReadLine
      BY <3>4 DEF ResetMark, ReadLine, stateVars
    <3>6. QED
      BY <3>1, <3>2, <3>3, <3>4, <3>5, Touching
  <2>2. op0 \in Starts
    BY <1>1, <1>b, <2>1 DEF WriteApply
  <2>3. ~irqClear /\ ~fx.irq /\ pc1 = "top"
    BY <1>0, <2>1, <2>2 DEF StartsDirect, WriteApply, Return0, Exit0, Go0, IInv, Handover, Core0Direct
  <2>4. /\ fx' = CpuWrite(fx, op0) /\ runtime' = Snapshot(fx', irqClear)
        /\ pc0' = "idle" /\ pc1' = pc1 /\ irqClear' = irqClear
    BY <2>1 DEF WriteApply, Publish0, Return0, Exit0, Go0, core1Vars
  <2>5. ~fx'.irq
    BY <1>b, <2>3, <2>4
  <2>6. ~runtime'.irq
    BY <2>4, <2>5 DEF Snapshot
  <2>7. QED
    BY <2>3, <2>4, <2>5, <2>6 DEF RunsUnmarked, ClearingRead, ClearPlaces, Clearing
<1>2. CASE fx.running
  <2>1. /\ owner /\ pc0 \notin Core0Direct /\ ~fx.irq /\ ~runtime.irq /\ (pc1 = "store" => ~snap1.irq)
        /\ ~ClearingRead /\ (Clearing => Coming)
    BY <1>0, <1>2 DEF IInv, Handover, RunsUnmarked
  <2>2. ~fx'.irq
    BY <1>0, <2>1, RaisedIs, <1>b DEF ExecuteStop
  <2>3. ~runtime'.irq /\ (pc1' = "store" => ~snap1'.irq)
    <3>1. CASE Service1
      <4>1. ~Snapshot(fx, irqClear).irq
        BY <2>1 DEF Snapshot
      <4>2. CASE PublishAccess \/ PublishRuntime
        BY <2>1, <4>1, <4>2 DEF PublishAccess, PublishRuntime, Go1
      <4>3. CASE ~PublishAccess /\ ~PublishRuntime
        <5>1. runtime' = runtime /\ pc1' # "store"
          BY <3>1, <4>3
             DEF Service1, Service, ExchangeClear, ClearIrq, Pop, ApplyCommand, ForgetClear, Drained, Execute,
                 ExecuteStop, ReleaseLock, ReleaseKeep, ReleaseDecide, ReleaseStore, Go1, pubVars
        <5>2. QED
          BY <2>1, <5>1
      <4>4. QED
        BY <4>2, <4>3
    <3>2. CASE Bus \/ Video1
      BY <2>1, <3>2 DEF Bus, BusAccess, ConsoleReset, ServiceReset, Video1, VideoAcquire, VideoRelease, core1Vars, pubVars
    <3>3. CASE Handler0
      <4>1. UNCHANGED <<runtime, pc1, snap1>>
        BY <2>1, <3>3 DEF Handler0, WriteLock, WriteDropped, WriteQueue, WritePush, WriteFull, WriteDirect, WriteApply,
           ResetLock, ResetQueue, ResetPush, ResetMark, ResetFull, ResetDirect, ResetApply, ReadLock, ReadDirect,
           ReadApply, ReadOwned, ReadSnapshot, ReadArm, ReadLine, ReadDeferred, ReadClear,
           RamLock, RamGate, RamDirect, RamSnapshot, RamLand, Core0Direct, Return0, Exit0, Go0, ResetAccepted,
           pubVars, core1Vars
      <4>2. QED
        BY <2>1, <4>1
    <3>4. QED
      BY <3>1, <3>2, <3>3 DEF Next
  <2>4. ~ClearingRead'
    BY <1>0, <2>1, ReadBegins
  <2>5. Clearing' => Coming'
    <3>1. SUFFICES ASSUME Clearing' PROVE Coming
      BY <1>0, ComingStep
    <3>2. CASE Clearing
      BY <2>1, <3>2
    <3>3. CASE ~Clearing
      BY <1>0, <1>2, <2>1, <3>1, <3>3, ClearBegins DEF ClearsSeen, ClearingRead, ClearPlaces
    <3>4. QED
      BY <3>2, <3>3
  <2>6. QED
    BY <2>2, <2>3, <2>4, <2>5 DEF RunsUnmarked
<1>3. QED
  BY <1>1, <1>2

\* Whoever takes an IRQ away does so for one that has been seen.
LEMMA SeenStep ==
  ASSUME Paced, IrqNext
  PROVE  ClearsSeen'
<1>0. /\ IInv /\ IrqBase /\ StartsDirect /\ RunsUnmarked /\ ClearsSeen /\ fx \in FxStates /\ Next
      /\ unseen' = (Raised \/ (unseen /\ fx'.irq /\ ~Shown))
  BY DEF Paced, IInv, TypeOK, IrqNext
<1>b. /\ ~ResetFx.running /\ ~ResetFx.irq /\ ReadSfrHigh(fx).running = fx.running /\ ~ReadSfrHigh(fx).irq
      /\ Plain(fx).irq = fx.irq /\ Plain(fx).running = fx.running
      /\ \A raise \in BOOLEAN : ~Stop(fx, raise).running
      /\ \A w : CpuWrite(fx, w).irq = fx.irq
      /\ \A w : w \notin Starts /\ CpuWrite(fx, w).running => fx.running
  BY <1>0, FxBits
<1>c. Coming /\ fx'.irq => Coming'
  BY <1>0, ComingStep
<1>1. (pc0 = "r_mark" => Coming \/ (~fx.irq /\ ~fx.running))'
  <2>1. SUFFICES ASSUME pc0' = "r_mark" PROVE Coming' \/ (~fx'.irq /\ ~fx'.running)
    OBVIOUS
  <2>2. CASE ResetPush
    BY <1>0, <2>2, SizeAssumption
       DEF ResetPush, Coming, IInv, TypeOK, ResetsOnly, Queued, NextSlot, Slots, RingFull, Go0
  <2>3. CASE ~ResetPush
    <3>1. pc0 = "r_mark" /\ pc0' = pc0
      BY <1>0, <2>1, <2>3 DEF Next, Bus, BusAccess, ConsoleReset, ServiceReset,
         Handler0, WriteLock, WriteDropped, WriteQueue, WritePush, WriteFull, WriteDirect, WriteApply,
         ResetLock, ResetQueue, ResetMark, ResetFull, ResetDirect, ResetApply, ReadLock, ReadDirect,
         ReadApply, ReadOwned, ReadSnapshot, ReadArm, ReadLine, ReadDeferred, ReadClear,
         RamLock, RamGate, RamDirect, RamSnapshot, RamLand,
         Service1, Service, ExchangeClear, ClearIrq, Pop, ApplyCommand, ForgetClear, Drained, Execute,
         ExecuteStop, PublishAccess, PublishRuntime, ReleaseLock, ReleaseKeep, ReleaseDecide, ReleaseStore,
         Video1, VideoAcquire, VideoRelease, core0Vars, Go0, Exit0, Return0, Enter0, ResetAccepted
    <3>2. CASE Coming
      BY <1>0, <3>2, ComingStep
    <3>3. CASE ~fx.irq /\ ~fx.running
      <4>1. ~fx'.irq
        BY <1>0, <3>3, RaisedIs
      <4>2. ~fx'.running
        <5>1. ~ApplyCommand \/ ~fx'.running
          BY <1>0, <1>b, <3>3 DEF ApplyCommand, Apply, Go1, StartsDirect
        <5>2. ~WriteApply /\ ~ReadApply /\ ~ReadClear /\ ~ResetApply /\ ~ResetMark /\ ~ReadLine
          BY <3>1 DEF WriteApply, ReadApply, ReadClear, ResetApply, ResetMark, ReadLine, Go0, Exit0, Return0, ResetAccepted
        <5>3. (ClearIrq \/ Execute \/ ExecuteStop) => ~fx'.running
          BY <1>b, <3>3 DEF ClearIrq, Execute, ExecuteStop
        <5>4. QED
          BY <1>0, <3>3, <5>1, <5>2, <5>3, Touching
      <4>3. QED
        BY <4>1, <4>2
    <3>4. QED
      BY <1>0, <3>1, <3>2, <3>3 DEF ClearsSeen
  <2>4. QED
    BY <2>2, <2>3
<1>2. (unseen /\ Clearing => Coming)'
  <2>1. SUFFICES ASSUME unseen', Clearing' PROVE Coming /\ fx'.irq
    BY <1>c
  <2>2. CASE Raised
    <3>1. /\ ExecuteStop /\ fx.running /\ pc1' = "publish" /\ irqClear' = irqClear /\ fx'.irq
      BY <1>0, <2>2, RaisedIs DEF Raised
    <3>2. QED
      BY <1>0, <2>1, <3>1 DEF Clearing, RunsUnmarked
  <2>3. CASE ~Raised
    <3>1. unseen /\ fx'.irq /\ fx.irq
      BY <1>0, <2>1, <2>3 DEF IrqBase
    <3>2. CASE Clearing
      BY <1>0, <3>1, <3>2 DEF ClearsSeen
    <3>3. CASE ~Clearing
      BY <1>0, <2>1, <3>1, <3>3, ClearBegins DEF ClearsSeen, ClearingRead, ClearPlaces
    <3>4. QED
      BY <3>2, <3>3
  <2>4. QED
    BY <2>2, <2>3
<1>3. (ClearingRead => ~unseen)'
  <2>1. SUFFICES ASSUME ClearingRead' PROVE ~unseen'
    OBVIOUS
  <2>2. CASE ClearingRead
    <3>1. ~unseen /\ ~fx.running
      BY <1>0, <2>2 DEF ClearsSeen, RunsUnmarked
    <3>2. ~Raised
      BY <1>0, <3>1, RaisedIs DEF Raised
    <3>3. QED
      BY <1>0, <3>1, <3>2
  <2>3. CASE ~ClearingRead
    <3>1. pc0 = "rd_snap" /\ pc0' = "rd_arm" /\ fx' = fx
      BY <1>0, <2>1, <2>3, ReadBegins
    <3>2. QED
      BY <1>0, <3>1 DEF Shown, Raised
  <2>4. QED
    BY <2>2, <2>3
<1>4. (fx.irq /\ ~line => Clearing \/ Coming)'
  <2>1. SUFFICES ASSUME fx'.irq, ~line' PROVE Clearing' \/ Coming'
    OBVIOUS
  <2>2. fx.irq
    BY <1>0, <2>1, RaisedIs
  <2>3. CASE ~line
    BY <1>0, <1>c, <2>1, <2>2, <2>3, ClearingKept DEF ClearsSeen
  <2>4. CASE line
    <3>1. ~WriteApply /\ ~Execute /\ ~ExecuteStop
      BY <1>0, <2>1, <2>4 DEF WriteApply, Execute, ExecuteStop, pubVars
    <3>2. ~ResetApply /\ ~ReadClear /\ ~ClearIrq
      BY <1>b, <2>1 DEF ResetApply, ReadClear, ClearIrq
    <3>3. ~ReadApply /\ ~ApplyCommand
      BY <1>b, <2>1, <2>4 DEF ReadApply, ApplyCommand, Apply
    <3>4. CASE ResetMark
      BY <3>4 DEF ResetMark, Clearing
    <3>5. CASE ReadLine
      <4>1. pc0 = "rd_line" /\ UNCHANGED <<irqClear, pc1>>
        BY <3>5 DEF ReadLine, Go0, stateVars, core1Vars
      <4>2. Clearing
        BY <1>0, <2>2, <4>1 DEF ClearsSeen
      <4>3. QED
        BY <4>1, <4>2 DEF Clearing
    <3>6. QED
      BY <1>0, <2>1, <2>4, <3>1, <3>2, <3>3, <3>4, <3>5, Touching
  <2>5. QED
    BY <2>3, <2>4
<1>5. (pc0 = "rd_line" => Clearing \/ ~fx.irq)'
  <2>1. SUFFICES ASSUME pc0' = "rd_line", fx'.irq PROVE Clearing'
    OBVIOUS
  <2>2. CASE ReadArm
    BY <2>2 DEF ReadArm, Clearing
  <2>3. CASE ~ReadArm
    <3>1. pc0 = "rd_line"
      BY <1>0, <2>1, <2>3 DEF Next, Bus, BusAccess, ConsoleReset, ServiceReset,
         Handler0, WriteLock, WriteDropped, WriteQueue, WritePush, WriteFull, WriteDirect, WriteApply,
         ResetLock, ResetQueue, ResetPush, ResetMark, ResetFull, ResetDirect, ResetApply, ReadLock, ReadDirect,
         ReadApply, ReadOwned, ReadSnapshot, ReadLine, ReadDeferred, ReadClear,
         RamLock, RamGate, RamDirect, RamSnapshot, RamLand,
         Service1, Service, ExchangeClear, ClearIrq, Pop, ApplyCommand, ForgetClear, Drained, Execute,
         ExecuteStop, PublishAccess, PublishRuntime, ReleaseLock, ReleaseKeep, ReleaseDecide, ReleaseStore,
         Video1, VideoAcquire, VideoRelease, core0Vars, Go0, Exit0, Return0, Enter0, ResetAccepted
    <3>2. ~fx.running
      BY <1>0, <3>1 DEF RunsUnmarked, ClearingRead, ClearPlaces
    <3>3. fx.irq
      BY <1>0, <2>1, <3>2, RaisedIs
    <3>4. QED
      BY <1>0, <2>1, <3>1, <3>3, ClearingKept DEF ClearsSeen
  <2>4. QED
    BY <2>2, <2>3
<1>6. QED
  BY <1>1, <1>2, <1>3, <1>4, <1>5 DEF ClearsSeen

LEMMA InitIrqInv == IrqInit => IrqInv
<1> SUFFICES ASSUME IrqInit PROVE IrqInv
  OBVIOUS
<1>1. Init /\ unseen = FALSE /\ paced = TRUE
  BY DEF IrqInit
<1>2. \A i \in Slots : ~Queued(i)
  BY <1>1, SizeAssumption DEF Init, Queued, Slots
<1>3. IInv
  BY <1>1, InitIInv
<1>4. IrqBase
  BY <1>1 DEF Init, IrqBase, ResetFx
<1>5. StartsDirect /\ RunsUnmarked /\ ClearsSeen
  BY <1>1, <1>2 DEF Init, StartsDirect, RunsUnmarked, ClearsSeen, ResetFx, Starts, None, ClearingRead,
     ClearPlaces, Clearing
<1>6. QED
  BY <1>3, <1>4, <1>5 DEF IrqInv

\* The inductive invariant.
THEOREM IrqInvariant == IrqSpec => []IrqInv
<1>1. IrqInv /\ [IrqNext]_irqVars => IrqInv'
  <2>1. ASSUME IrqInv, IrqNext PROVE IrqInv'
    <3>1. IInv /\ IrqBase /\ Next /\ paced' = (paced /\ PacedStep)
      BY <2>1 DEF IrqInv, IrqNext
    <3>2. IInv'
      BY <3>1, TypeStep, GateStep, HandoverStep, ResetsOnlyStep, PublishedStep, IInvBase DEF IInv, GateHeld, Locked
    <3>3. IrqBase'
      BY <2>1, <3>1, BaseStep
    <3>4. paced' => Paced /\ PacedStep
      BY <2>1, <3>1 DEF IrqInv, Paced
    <3>5. paced' => StartsDirect' /\ RunsUnmarked' /\ ClearsSeen'
      BY <2>1, <3>1, <3>4, StartsStep, RunsStep, SeenStep
    <3>6. QED
      BY <3>2, <3>3, <3>5 DEF IrqInv
  <2>2. ASSUME IrqInv, UNCHANGED irqVars PROVE IrqInv'
    <3>1. UNCHANGED vars /\ UNCHANGED <<unseen, paced>>
      BY <2>2 DEF irqVars
    <3>2. IInv'
      BY <2>2, <3>1, TypeStep, GateStep, HandoverStep, ResetsOnlyStep, PublishedStep, IInvBase
         DEF IrqInv, IInv, GateHeld, Locked
    <3>3. /\ UNCHANGED <<fx, owner, irqClear, commands, writeIndex, readIndex, runtime, line>>
          /\ UNCHANGED <<pc0, op0, pc1, cmd1, snap1>>
      BY <3>1 DEF vars, stateVars, ringVars, pubVars, core0Vars, core1Vars
    <3>4. IrqBase' /\ (ClearingRead' <=> ClearingRead) /\ (Clearing' <=> Clearing) /\ (Coming' <=> Coming)
      BY <2>2, <3>1, <3>3
         DEF IrqInv, IrqBase, RingEmpty, ClearingRead, Clearing, Coming, Queued, Slots
    <3>5. (StartsDirect => StartsDirect') /\ (RunsUnmarked => RunsUnmarked') /\ (ClearsSeen => ClearsSeen')
      BY <3>1, <3>3, <3>4 DEF StartsDirect, RunsUnmarked, ClearsSeen, Queued, Slots
    <3>6. QED
      BY <2>2, <3>1, <3>2, <3>4, <3>5 DEF IrqInv
  <2>3. QED
    BY <2>1, <2>2
<1>2. QED
  BY InitIrqInv, <1>1, PTL DEF IrqSpec, irqVars

\* For as long as a paced CPU has not seen an IRQ the line is high or a reset
\* is about to take it away, and between accesses the line shows the IRQ bit
\* of a GSU that core 1 has given up.
THEOREM LineShows == IrqSpec => []LineShowsIrq
<1>1. IrqInv => LineShowsIrq
  <2> SUFFICES ASSUME IrqInv, paced PROVE UnseenIrqOnLine /\ LineFollowsIrq
    BY DEF LineShowsIrq
  <2>1. IInv /\ IrqBase /\ ClearsSeen /\ TypeOK /\ fx \in FxStates /\ line \in BOOLEAN
    BY DEF IrqInv, IInv, TypeOK
  <2>2. Coming <=> ResetWaiting
    BY <2>1, WaitingIs
  <2>3. UnseenIrqOnLine
    BY <2>1, <2>2 DEF UnseenIrqOnLine, IrqBase, ClearsSeen
  <2>4. LineFollowsIrq
    <3> SUFFICES ASSUME ~owner, pc0 = "idle" PROVE line = fx.irq
      BY DEF LineFollowsIrq
    <3>1. pc1 = "top" /\ RingEmpty /\ ~irqClear
      BY <2>1 DEF IInv, Handover
    <3>2. ~Clearing /\ ~Coming
      BY <2>1, <3>1 DEF Clearing, Coming, RingEmpty, Queued, TypeOK, Slots
    <3>3. fx.irq \in BOOLEAN /\ (fx.irq <=> line)
      BY <2>1, <3>2 DEF IrqBase, ClearsSeen, FxStates
    <3>4. QED
      BY <2>1, <3>3
  <2>5. QED
    BY <2>3, <2>4
<1>2. QED
  BY <1>1, IrqInvariant, PTL

\* An IRQ that no read has returned to a paced CPU is taken away by nothing
\* but a console reset.
THEOREM UnseenIrqStays == IrqSpec => UnseenIrqKept
<1>1. IrqInv /\ [IrqNext]_irqVars => [paced /\ unseen /\ fx.irq /\ ~fx'.irq => Shown \/ ResetWaiting]_vars
  <2> SUFFICES ASSUME IrqInv, [IrqNext]_irqVars, vars' # vars, paced, unseen, fx.irq, ~fx'.irq
               PROVE  Shown \/ ResetWaiting
    OBVIOUS
  <2>1. /\ IInv /\ IrqBase /\ StartsDirect /\ RunsUnmarked /\ ClearsSeen /\ TypeOK /\ fx \in FxStates /\ Next
    BY DEF IrqInv, IInv, TypeOK, IrqNext, irqVars
  <2>2. /\ Plain(fx).irq = fx.irq
        /\ \A raise \in BOOLEAN : Stop(fx, raise).irq = (fx.irq \/ raise)
        /\ \A w : CpuWrite(fx, w).irq = fx.irq
    BY <2>1, FxBits
  <2>3. Coming => ResetWaiting
    BY <2>1, WaitingIs
  <2>4. ~WriteApply /\ ~ResetMark /\ ~ReadLine /\ ~Execute /\ ~ExecuteStop
    BY <2>2 DEF WriteApply, ResetMark, ReadLine, Execute, ExecuteStop, stateVars
  <2>5. CASE ResetApply
    BY <2>3, <2>5 DEF ResetApply, ResetAccepted, Coming
  <2>6. CASE ReadApply
    BY <2>6 DEF ReadApply, Return0, Exit0, Go0, Shown
  <2>7. CASE ReadClear
    BY <2>1, <2>7 DEF ReadClear, Return0, Exit0, Go0, ClearsSeen, ClearingRead, ClearPlaces
  <2>8. CASE ClearIrq
    BY <2>1, <2>3, <2>8 DEF ClearIrq, Go1, ClearsSeen, Clearing
  <2>9. CASE ApplyCommand
    BY <2>2, <2>3, <2>9 DEF ApplyCommand, Apply, Go1, Coming
  <2>10. QED
    BY <2>1, <2>4, <2>5, <2>6, <2>7, <2>8, <2>9, Touching
<1>2. QED
  BY <1>1, IrqInvariant, PTL DEF IrqSpec, UnseenIrqKept, irqVars

-----------------------------------------------------------------------------
(* SdWindow.  The steps of FxSync keep their types as above; who holds the *)
(* gate is proved anew, since in a window core 0's SD handlers and core    *)
(* 1's drain hold it too.                                                  *)

\* What each core does, by where the other one is in the exchange.
Protocol ==
  /\ phase \in {"Idle", "Requested"} => main \in {"loop", "save"}
  /\ phase = "Preparing" => main \in {"prep", "begun"}
  /\ phase = "Active" => main = "wait"
  /\ phase = "Ending" => main \in {"wait", "left"}
  /\ win \in {"out", "got", "giveup", "final"} => phase = "Idle"
  /\ win = "wait" => phase \in {"Idle", "Requested", "Preparing", "Active"}
  /\ win \in {"xfer", "done", "ending"} => phase = "Active"
  /\ win = "endwait" => phase \in {"Ending", "Idle"}
  /\ bus = "core1" <=> win \in {"got", "wait", "giveup", "xfer", "done"}
  /\ bus = "core0" <=> main = "save"
  /\ handlers = "sd" <=> main \in {"begun", "wait"}
  /\ dr # "no" => win \in {"endwait", "final"}

\* The SD handlers are active only while they are installed, and serve an
\* access of their own kind.
SdPlaced ==
  /\ handlers = "sd" => pc0 = "idle"
  /\ sd # "idle" => handlers = "sd"
  /\ sd = "idle" => OpPlaced
  /\ sd = "write" => op0 \in CpuWrites
  /\ sd \in {"read", "touch"} => op0 \in Reads
  /\ sd = "mark" => op0 = None

\* Who holds the gate, and who owns the FxState.
Gate ==
  /\ gate = "core0" <=> pc0 \in Core0Gated \/ sd = "touch"
  /\ gate = "core1" <=> pc1 \in {"relgate", "relstore"} \/ dr \in {"rtouch", "atouch"}
  /\ pc1 # "top" => owner /\ win = "out"
  /\ pc0 \in Core0Direct => ~owner

WindowInv == WindowTypeOK /\ Protocol /\ SdPlaced /\ Gate

-----------------------------------------------------------------------------
(* The invariant.                                                          *)

LEMMA InitWindowInv == WindowInit => WindowInv
<1> SUFFICES ASSUME WindowInit PROVE WindowInv
  OBVIOUS
<1>1. TypeOK /\ OpPlaced
  BY InitIInv DEF WindowInit, IInv
<1>2. WindowTypeOK
  <2>1. 0 \in Slots /\ 0 \in 0 .. Size
    BY SizeAssumption DEF Slots
  <2>2. QED
    BY <1>1, <2>1 DEF WindowInit, WindowTypeOK
<1>3. Protocol /\ SdPlaced
  BY <1>1 DEF WindowInit, Protocol, SdPlaced
<1>4. Gate
  BY DEF WindowInit, Init, Gate, Core0Gated, Core0Direct
<1>5. QED
  BY <1>2, <1>3, <1>4 DEF WindowInv

\* Ordinary interrupts, and core 1 outside an exchange.
LEMMA FxSyncStep ==
  WindowInv /\ (NormalInterrupt \/ MainReset \/ NormalHandler \/ Core1 \/ Core1Video) => WindowInv'
<1> SUFFICES ASSUME WindowInv, NormalInterrupt \/ MainReset \/ NormalHandler \/ Core1 \/ Core1Video
             PROVE  WindowInv'
  OBVIOUS
<1> USE DEF WindowInv
<1>b. UNCHANGED <<phase, bus, cancelled, main, win, handlers, sd, sdReset, sdPosition, dr, drained>>
  BY DEF NormalInterrupt, MainReset, NormalHandler, Core1, Core1Video, busVars, sdVars
<1>p. ASSUME Handler0 PROVE pc0 # "idle"
  BY <1>p, Core0Effect DEF WindowTypeOK
<1>s. sd = "idle"
  <2>1. CASE MainReset \/ NormalHandler
    BY <2>1, <1>p DEF MainReset, NormalHandler, Protocol, SdPlaced
  <2>2. CASE Core1 \/ Core1Video
    BY <2>2 DEF Core1, Core1Video, Protocol, SdPlaced
  <2>3. QED
    BY <2>1, <2>2 DEF NormalInterrupt
<1>n. [Next]_vars
  BY AccessAssumption DEF NormalInterrupt, MainReset, NormalHandler, Core1, Core1Video, Next, Bus
<1>1. TypeOK' /\ OpPlaced'
  BY <1>s, <1>n, TypeStep DEF WindowTypeOK, SdPlaced
<1>2. WindowTypeOK'
  BY <1>1, <1>b DEF WindowTypeOK, Slots
<1>3. Protocol'
  BY <1>b DEF Protocol
<1>4. CASE NormalInterrupt \/ MainReset
  <2>1. /\ UNCHANGED <<owner, gate, pc1>> /\ handlers = "normal"
        /\ pc0 = "idle" /\ pc0' \notin Core0Gated
    BY <1>4 DEF NormalInterrupt, MainReset, BusAccess, ConsoleReset, ServiceReset, Go0,
       stateVars, core1Vars, core0Vars, Core0Gated, Core0Direct, Protocol, WindowTypeOK
  <2>2. SdPlaced' /\ Gate'
    BY <1>b, <1>s, <1>1, <2>1 DEF SdPlaced, Gate, Core0Gated, Core0Direct
  <2>3. QED
    BY <1>2, <1>3, <2>2
<1>5. CASE NormalHandler
  <2>1. Handler0
    BY <1>5 DEF NormalHandler
  <2>2. SdPlaced'
    BY <1>b, <1>s, <1>1, <1>p, <2>1 DEF SdPlaced
  <2>3. Gate'
    BY <1>b, <1>s, <2>1, Core0Effect DEF Gate, core1Vars, WindowTypeOK, Core0Gated
  <2>4. QED
    BY <1>2, <1>3, <2>2, <2>3
<1>6. CASE Core1 \/ Core1Video
  <2>1. (Service1 \/ Video1) /\ win = "out"
    BY <1>6 DEF Core1, Core1Video
  <2>2. pc1 # "top" => owner
    BY DEF Gate
  <2>3. dr = "no" /\ UNCHANGED core0Vars
    BY <2>1, <2>2, Core1Effect DEF Protocol
  <2>4. SdPlaced'
    BY <1>b, <1>s, <1>1, <2>3 DEF SdPlaced, core0Vars
  <2>5. Gate'
    BY <1>b, <1>s, <2>1, <2>2, <2>3, Core1Effect DEF Gate, core0Vars
  <2>6. QED
    BY <1>2, <1>3, <2>4, <2>5
<1>7. QED
  BY <1>4, <1>5, <1>6

\* The main loop, and the two ends of an exchange: only the hand-over itself
\* touches the FxState and its snapshots.
LEMMA ExchangeStep == WindowInv /\ (MainStep \/ Exchange) => WindowInv'
<1> SUFFICES ASSUME WindowInv, MainStep \/ Exchange PROVE WindowInv'
  OBVIOUS
<1> USE DEF WindowInv
<1>1. CASE Prepared
  <2>1. /\ main = "prep" /\ main' = "begun" /\ handlers' = "sd" /\ owner' = TRUE
        /\ pc0 = "idle" /\ sd = "idle" /\ gate = "free"
        /\ runtime' = Snapshot(fx, irqClear) /\ access' = AccessState(fx)
        /\ UNCHANGED <<fx, video, irqClear, gate, ringVars, line, core0Vars, core1Vars,
                       phase, bus, cancelled, win, sdVars>>
    BY <1>1 DEF Prepared, Main, NoHandler, Publish0
  <2>2. /\ Snapshot(fx, irqClear) \in Snapshots
        /\ AccessState(fx) \in [rom : BOOLEAN, ram : BOOLEAN]
    BY PublishTypes DEF WindowTypeOK, TypeOK
  <2>3. TypeOK'
    BY <2>1, <2>2 DEF WindowTypeOK, TypeOK, ringVars, core0Vars, core1Vars, Slots
  <2>4. WindowTypeOK'
    BY <2>1, <2>3 DEF WindowTypeOK, sdVars, Slots
  <2>5. Protocol'
    BY <2>1 DEF Protocol, sdVars
  <2>6. SdPlaced'
    BY <2>1 DEF SdPlaced, OpPlaced, core0Vars, sdVars
  <2>7. Gate'
    BY <2>1 DEF Gate, core0Vars, core1Vars, sdVars, Core0Gated, Core0Direct
  <2>8. QED
    BY <2>4, <2>5, <2>6, <2>7
<1>2. CASE ~Prepared
  <2>1. UNCHANGED <<vars, sd, sdReset, sdPosition>>
    BY <1>2 DEF MainStep, Exchange, SaveStart, SaveEnd, Prepare, PrepareRefused, Activate,
       WaitCancel, Leave, Back, BeginAcquire, BeginRequest, BeginActive, BeginRefused,
       BeginTimeout, BeginLate, BeginGiveUp, Transfer, EndRelease, EndPhase, EndDrain, sdVars
  <2>2. UNCHANGED <<fx, owner, video, irqClear, gate, ringVars, pubVars, core0Vars, core1Vars>>
    BY <2>1 DEF vars, stateVars
  <2>3. TypeOK'
    BY <2>2 DEF WindowTypeOK, TypeOK, ringVars, pubVars, core0Vars, core1Vars, Slots
  <2>4. /\ phase' \in {"Idle", "Requested", "Preparing", "Active", "Ending"}
        /\ bus' \in {"free", "core0", "core1"} /\ cancelled' \in BOOLEAN
        /\ main' \in {"loop", "save", "prep", "begun", "wait", "left"}
        /\ win' \in {"out", "got", "wait", "giveup", "xfer", "done", "ending", "endwait", "final"}
        /\ handlers' \in {"normal", "sd"}
        /\ dr' \in {"no", "check", "rlock", "rtouch", "rclear", "alock", "atouch"}
        /\ drained' \in 0 .. Size
    <3> USE <1>2, SizeAssumption DEF WindowTypeOK, busVars, sdVars, Main, Win
    <3>1. CASE MainStep
      BY <3>1 DEF MainStep, SaveStart, SaveEnd, Prepare, PrepareRefused, Activate, WaitCancel,
         Leave, Back
    <3>2. CASE BeginAcquire \/ BeginRequest \/ BeginActive \/ BeginRefused
      BY <3>2 DEF BeginAcquire, BeginRequest, BeginActive, BeginRefused
    <3>3. CASE BeginTimeout \/ BeginLate \/ BeginGiveUp
      BY <3>3 DEF BeginTimeout, BeginLate, BeginGiveUp
    <3>4. CASE Transfer \/ EndRelease \/ EndPhase
      BY <3>4 DEF Transfer, EndRelease, EndPhase
    <3>5. CASE EndDrain
      BY <3>5 DEF EndDrain
    <3>6. QED
      BY <3>1, <3>2, <3>3, <3>4, <3>5 DEF Exchange
  <2>5. WindowTypeOK'
    BY <2>1, <2>3, <2>4 DEF WindowTypeOK, Slots
  <2>6. Protocol'
    <3> USE <1>2 DEF Protocol, WindowTypeOK, busVars, sdVars, Main, Win
    <3>1. CASE SaveStart \/ SaveEnd \/ Prepare \/ PrepareRefused
      BY <3>1 DEF SaveStart, SaveEnd, Prepare, PrepareRefused
    <3>2. CASE Activate \/ WaitCancel \/ Leave \/ Back
      BY <3>2 DEF Activate, WaitCancel, Leave, Back
    <3>3. CASE BeginAcquire \/ BeginRequest \/ BeginActive \/ BeginRefused
      BY <3>3 DEF BeginAcquire, BeginRequest, BeginActive, BeginRefused
    <3>4. CASE BeginTimeout \/ BeginLate \/ BeginGiveUp
      BY <3>4 DEF BeginTimeout, BeginLate, BeginGiveUp
    <3>5. CASE Transfer \/ EndRelease \/ EndPhase \/ EndDrain
      BY <3>5 DEF Transfer, EndRelease, EndPhase, EndDrain
    <3>6. QED
      BY <3>1, <3>2, <3>3, <3>4, <3>5 DEF MainStep, Exchange
  <2>7. SdPlaced'
    <3>1. handlers' = handlers \/ (sd = "idle" /\ handlers' = "normal")
      BY <1>2 DEF MainStep, Exchange, SaveStart, SaveEnd, Prepare, PrepareRefused, Activate,
         WaitCancel, Leave, Back, BeginAcquire, BeginRequest, BeginActive, BeginRefused,
         BeginTimeout, BeginLate, BeginGiveUp, Transfer, EndRelease, EndPhase, EndDrain,
         Main, NoHandler
    <3>2. QED
      BY <2>1, <2>2, <3>1 DEF SdPlaced, OpPlaced, core0Vars
  <2>8. Gate'
    <3>1. /\ dr' \in {"rtouch", "atouch"} <=> dr \in {"rtouch", "atouch"}
          /\ win' = "out" \/ win' = win \/ win # "out" \/ pc1 = "top"
      BY <1>2 DEF MainStep, Exchange, SaveStart, SaveEnd, Prepare, PrepareRefused, Activate,
         WaitCancel, Leave, Back, BeginAcquire, BeginRequest, BeginActive, BeginRefused,
         BeginTimeout, BeginLate, BeginGiveUp, Transfer, EndRelease, EndPhase, EndDrain,
         Win, sdVars
    <3>2. QED
      BY <2>1, <2>2, <3>1 DEF Gate, core0Vars, core1Vars, Core0Gated, Core0Direct
  <2>9. QED
    BY <2>5, <2>6, <2>7, <2>8
<1>3. QED
  BY <1>1, <1>2

\* Core 0's SD interrupt handlers.
LEMMA SdStep == WindowInv /\ (SdInterrupt \/ SdHandler) => WindowInv'
<1> SUFFICES ASSUME WindowInv, SdInterrupt \/ SdHandler PROVE WindowInv'
  OBVIOUS
<1> USE DEF WindowInv
<1>1. ASSUME NEW op \in CpuWrites \cup CpuReads, SdAccess(op) PROVE WindowInv'
  <2>1. /\ handlers = "sd" /\ pc0 = "idle" /\ sd = "idle" /\ op0' = op
        /\ sd' = IF op \in Reads THEN "read" ELSE "write"
        /\ UNCHANGED <<stateVars, ringVars, pubVars, core1Vars, pc0, resetPending,
                       busVars, sdReset, sdPosition, dr, drained>>
    BY <1>1 DEF SdAccess, NoHandler
  <2>2. op \in Reads \/ op \in CpuWrites
    BY AccessAssumption
  <2>3. TypeOK'
    BY <2>1, <2>2 DEF WindowTypeOK, TypeOK, stateVars, ringVars, pubVars, core1Vars, Slots
  <2>4. WindowTypeOK'
    BY <2>1, <2>3 DEF WindowTypeOK, busVars, Slots
  <2>5. Protocol' /\ SdPlaced'
    BY <2>1, <2>2 DEF Protocol, SdPlaced, busVars
  <2>6. Gate'
    BY <2>1 DEF Gate, stateVars, core1Vars, busVars, Core0Gated, Core0Direct
  <2>7. QED
    BY <2>4, <2>5, <2>6
<1>2. CASE SdWrite
  <2>1. /\ sd = "write" /\ sd' = "idle" /\ op0' = None /\ op0 \in CpuWrites /\ pc0 = "idle"
        /\ cancelled' \in BOOLEAN
        /\ UNCHANGED <<stateVars, pubVars, core1Vars, pc0, resetPending, phase, bus, main,
                       win, handlers, sdReset, sdPosition, dr, drained>>
    <3>1. /\ sd = "write" /\ sd' = "idle" /\ op0' = None
          /\ UNCHANGED <<stateVars, pubVars, core1Vars, pc0, resetPending, phase, bus, main,
                         win, handlers, sdReset, sdPosition, dr, drained>>
      BY <1>2 DEF SdWrite
    <3>2. cancelled' \in BOOLEAN
      BY <1>2, Zenon DEF SdWrite, WindowTypeOK
    <3>3. QED
      BY <3>1, <3>2 DEF SdPlaced
  <2>2. UNCHANGED ringVars \/ (PushSd(op0) /\ UNCHANGED readIndex)
    BY <1>2 DEF SdWrite
  <2>3. commands' \in [Slots -> Command] /\ writeIndex' \in Slots /\ readIndex' \in Slots
    BY <2>1, <2>2, SlotType DEF PushSd, ringVars, WindowTypeOK, TypeOK, Command
  <2>4. TypeOK'
    BY <2>1, <2>3 DEF WindowTypeOK, TypeOK, stateVars, pubVars, core1Vars, Slots
  <2>5. WindowTypeOK'
    BY <2>1, <2>4 DEF WindowTypeOK, Slots
  <2>6. Protocol' /\ SdPlaced'
    BY <2>1 DEF Protocol, SdPlaced, OpPlaced, WritePlaces, RamPlaces, ResetPlaces, ClearPlaces,
       None, Reads
  <2>7. Gate'
    BY <2>1 DEF Gate, stateVars, core1Vars, Core0Gated, Core0Direct
  <2>8. QED
    BY <2>5, <2>6, <2>7
<1>3. CASE SdWriteFull
  <2>1. /\ cancelled' = TRUE /\ UNCHANGED <<vars, phase, bus, main, win, handlers, sdVars>>
    BY <1>3 DEF SdWriteFull
  <2>2. TypeOK' /\ (OpPlaced => OpPlaced')
    BY <2>1 DEF WindowTypeOK, TypeOK, OpPlaced, vars, stateVars, ringVars, pubVars, core0Vars,
       core1Vars, Slots
  <2>3. WindowTypeOK'
    BY <2>1, <2>2 DEF WindowTypeOK, sdVars, Slots
  <2>4. Protocol' /\ SdPlaced' /\ Gate'
    BY <2>1, <2>2 DEF Protocol, SdPlaced, Gate, vars, stateVars, core0Vars, core1Vars, sdVars
  <2>5. QED
    BY <2>3, <2>4
<1>4. CASE SdReadLock
  <2>1. /\ sd = "read" /\ sd' = "touch" /\ gate = "free" /\ gate' = "core0"
        /\ UNCHANGED <<fx, owner, video, irqClear, ringVars, pubVars, core0Vars, core1Vars,
                       busVars, sdReset, sdPosition, dr, drained>>
    BY <1>4 DEF SdReadLock
  <2>2. TypeOK'
    BY <2>1 DEF WindowTypeOK, TypeOK, ringVars, pubVars, core0Vars, core1Vars, Slots
  <2>3. WindowTypeOK'
    BY <2>1, <2>2 DEF WindowTypeOK, busVars, Slots
  <2>4. Protocol' /\ SdPlaced'
    BY <2>1 DEF Protocol, SdPlaced, busVars, core0Vars
  <2>5. Gate'
    BY <2>1 DEF Gate, core0Vars, core1Vars, busVars
  <2>6. QED
    BY <2>3, <2>4, <2>5
<1>5. CASE SdRead
  <2>1. /\ sd = "touch" /\ sd' = "idle" /\ gate' = "free" /\ op0' = None
        /\ pc0 = "idle" /\ gate = "core0"
        /\ UNCHANGED <<owner, video, irqClear, ringVars, runtime, access, pc0, resetPending,
                       core1Vars, busVars, sdReset, sdPosition, dr, drained>>
    BY <1>5 DEF SdRead, SdPlaced, Gate
  <2>2. fx' \in FxStates /\ line' \in BOOLEAN
    BY <1>5, FxTypes DEF SdRead, WindowTypeOK, TypeOK
  <2>3. TypeOK'
    BY <2>1, <2>2 DEF WindowTypeOK, TypeOK, ringVars, core1Vars, Slots
  <2>4. WindowTypeOK'
    BY <2>1, <2>3 DEF WindowTypeOK, busVars, Slots
  <2>5. Protocol' /\ SdPlaced'
    BY <2>1 DEF Protocol, SdPlaced, OpPlaced, WritePlaces, RamPlaces, ResetPlaces, ClearPlaces,
       None, Reads, busVars
  <2>6. Gate'
    BY <2>1 DEF Gate, core1Vars, busVars, Core0Gated, Core0Direct
  <2>7. QED
    BY <2>4, <2>5, <2>6
<1>6. CASE SdResetPulse
  <2>1. /\ handlers = "sd" /\ pc0 = "idle" /\ sd = "idle" /\ op0 = None /\ op0' = op0
        /\ sd' \in {"idle", "mark"} /\ cancelled' \in BOOLEAN
        /\ UNCHANGED <<stateVars, pubVars, core0Vars, core1Vars, phase, bus, main, win,
                       handlers, sdReset, sdPosition, dr, drained>>
    BY <1>6 DEF SdResetPulse, NoHandler, SdPlaced, OpPlaced, WindowTypeOK, core0Vars
  <2>2. UNCHANGED ringVars \/ (PushSd("Reset") /\ UNCHANGED readIndex)
    BY <1>6 DEF SdResetPulse
  <2>3. commands' \in [Slots -> Command] /\ writeIndex' \in Slots /\ readIndex' \in Slots
    BY <2>1, <2>2, SlotType DEF PushSd, ringVars, WindowTypeOK, TypeOK, Command
  <2>4. TypeOK'
    BY <2>1, <2>3 DEF WindowTypeOK, TypeOK, stateVars, pubVars, core0Vars, core1Vars, Slots
  <2>5. WindowTypeOK'
    BY <2>1, <2>4 DEF WindowTypeOK, Slots
  <2>6. Protocol' /\ SdPlaced'
    BY <2>1 DEF Protocol, SdPlaced, OpPlaced, core0Vars
  <2>7. Gate'
    BY <2>1 DEF Gate, stateVars, core0Vars, core1Vars, Core0Gated, Core0Direct
  <2>8. QED
    BY <2>5, <2>6, <2>7
<1>7. CASE SdResetMark
  <2>1. /\ sd = "mark" /\ sd' = "idle" /\ sdPosition' = writeIndex /\ sdReset' = TRUE
        /\ cancelled' = TRUE /\ pc0 = "idle" /\ op0 = None
        /\ UNCHANGED <<vars, phase, bus, main, win, handlers, dr, drained>>
    BY <1>7 DEF SdResetMark, SdPlaced
  <2>2. TypeOK'
    BY <2>1 DEF WindowTypeOK, TypeOK, vars, stateVars, ringVars, pubVars, core0Vars,
       core1Vars, Slots
  <2>3. WindowTypeOK'
    BY <2>1, <2>2 DEF WindowTypeOK, TypeOK, Slots
  <2>4. Protocol' /\ SdPlaced'
    BY <2>1 DEF Protocol, SdPlaced, OpPlaced, WritePlaces, RamPlaces, ResetPlaces, ClearPlaces,
       None, Reads, vars, core0Vars
  <2>5. Gate'
    BY <2>1 DEF Gate, vars, stateVars, core0Vars, core1Vars, Core0Gated, Core0Direct
  <2>6. QED
    BY <2>3, <2>4, <2>5
<1>8. QED
  BY <1>1, <1>2, <1>3, <1>4, <1>5, <1>6, <1>7 DEF SdInterrupt, SdHandler

\* Core 1 drains what the handlers have queued.
LEMMA DrainStep == WindowInv /\ Drain => WindowInv'
<1> SUFFICES ASSUME WindowInv, Drain PROVE WindowInv'
  OBVIOUS
<1> USE DEF WindowInv
<1>w. dr # "no" /\ win \in {"endwait", "final"} /\ pc1 = "top"
  <2>1. dr # "no"
    BY DEF Drain, DrainReset, DrainLock, DrainTouch, DrainForget, DrainPop, DrainDone, Dr
  <2>2. QED
    BY <2>1 DEF Protocol, Gate
<1>1. CASE DrainReset \/ DrainForget
  <2>1. /\ dr \in {"check", "rclear"} /\ dr' \in {"rlock", "check"} /\ sdReset' \in BOOLEAN
        /\ UNCHANGED <<vars, busVars, sd, sdPosition, drained>>
    BY <1>1 DEF DrainReset, DrainForget, Dr, WindowTypeOK
  <2>2. TypeOK' /\ (OpPlaced => OpPlaced')
    BY <2>1 DEF WindowTypeOK, TypeOK, OpPlaced, vars, stateVars, ringVars, pubVars, core0Vars,
       core1Vars, Slots
  <2>3. WindowTypeOK'
    BY <2>1, <2>2 DEF WindowTypeOK, busVars, Slots
  <2>4. Protocol' /\ SdPlaced' /\ Gate'
    BY <1>w, <2>1, <2>2 DEF Protocol, SdPlaced, Gate, vars, stateVars, core0Vars, core1Vars, busVars
  <2>5. QED
    BY <2>3, <2>4
<1>2. CASE DrainLock
  <2>1. /\ dr \in {"rlock", "alock"} /\ dr' \in {"rtouch", "atouch"}
        /\ gate = "free" /\ gate' = "core1"
        /\ UNCHANGED <<fx, owner, video, irqClear, ringVars, pubVars, core0Vars, core1Vars,
                       busVars, sd, sdReset, sdPosition, drained>>
    BY <1>2 DEF DrainLock, Dr
  <2>2. TypeOK' /\ (OpPlaced => OpPlaced')
    BY <2>1 DEF WindowTypeOK, TypeOK, OpPlaced, ringVars, pubVars, core0Vars, core1Vars, Slots
  <2>3. WindowTypeOK'
    BY <2>1, <2>2 DEF WindowTypeOK, busVars, Slots
  <2>4. Protocol' /\ SdPlaced' /\ Gate'
    BY <1>w, <2>1, <2>2 DEF Protocol, SdPlaced, Gate, core0Vars, core1Vars, busVars
  <2>5. QED
    BY <2>3, <2>4
<1>3. ASSUME NEW c \in Command, DrainApply(c), dr \in {"rtouch", "atouch"},
             dr' \in {"rclear", "check"}
      PROVE  WindowInv'
  <2>1. /\ fx' = Apply(fx, c) /\ line' = (line /\ c # "Reset") /\ gate' = "free" /\ gate = "core1"
        /\ runtime' = Snapshot(fx', irqClear) /\ access' = AccessState(fx')
        /\ UNCHANGED <<owner, video, irqClear, ringVars, core0Vars, core1Vars,
                       busVars, sd, sdReset, sdPosition, drained>>
    BY <1>3 DEF DrainApply, Publish0, Gate
  <2>2. fx' \in FxStates
    BY <2>1, FxTypes DEF WindowTypeOK, TypeOK
  <2>3. runtime' \in Snapshots /\ access' \in [rom : BOOLEAN, ram : BOOLEAN]
    BY <2>1, <2>2, PublishTypes DEF WindowTypeOK, TypeOK
  <2>l. line' \in BOOLEAN
    BY <2>1
  <2>4. TypeOK' /\ (OpPlaced => OpPlaced')
    BY <2>1, <2>2, <2>3, <2>l DEF WindowTypeOK, TypeOK, OpPlaced, ringVars, core0Vars, core1Vars, Slots
  <2>5. WindowTypeOK'
    BY <1>3, <2>1, <2>4 DEF WindowTypeOK, busVars, Slots
  <2>6. Protocol' /\ SdPlaced' /\ Gate'
    BY <1>w, <1>3, <2>1, <2>4 DEF Protocol, SdPlaced, Gate, core0Vars, core1Vars, busVars
  <2>7. QED
    BY <2>5, <2>6
<1>4. CASE DrainTouch
  BY <1>4, <1>3 DEF DrainTouch, Dr, Command, WindowTypeOK, TypeOK
<1>5. CASE DrainPop
  <2>1. /\ dr = "check" /\ dr' = "alock" /\ cmd1' = commands[readIndex]
        /\ readIndex' = NextSlot(readIndex) /\ drained < Size /\ drained' = drained + 1
        /\ UNCHANGED <<stateVars, commands, writeIndex, pubVars, core0Vars, pc1, snap1,
                       busVars, sd, sdReset, sdPosition>>
    BY <1>5 DEF DrainPop, Dr
  <2>2. TypeOK' /\ (OpPlaced => OpPlaced')
    <3>1. readIndex' \in Slots /\ cmd1' \in Command
      BY <2>1, SlotType DEF WindowTypeOK, TypeOK
    <3>2. TypeOK'
      BY <2>1, <3>1 DEF WindowTypeOK, TypeOK, stateVars, pubVars, core0Vars
    <3>3. QED
      BY <2>1, <3>2 DEF OpPlaced, core0Vars
  <2>3. WindowTypeOK'
    BY <2>1, <2>2, SizeAssumption DEF WindowTypeOK, busVars, Slots
  <2>4. Protocol' /\ SdPlaced' /\ Gate'
    BY <1>w, <2>1, <2>2 DEF Protocol, SdPlaced, Gate, stateVars, core0Vars, busVars
  <2>5. QED
    BY <2>3, <2>4
<1>6. CASE DrainDone
  <2>1. /\ dr = "check" /\ dr' = "no" /\ drained' = 0
        /\ win' = IF win = "final" THEN "out" ELSE win
        /\ UNCHANGED <<vars, phase, bus, cancelled, main, handlers, sd, sdReset, sdPosition>>
    BY <1>6 DEF DrainDone, Dr
  <2>2. TypeOK' /\ (OpPlaced => OpPlaced')
    BY <2>1 DEF WindowTypeOK, TypeOK, OpPlaced, vars, stateVars, ringVars, pubVars, core0Vars,
       core1Vars, Slots
  <2>3. WindowTypeOK'
    BY <1>w, <2>1, <2>2, SizeAssumption DEF WindowTypeOK, Slots
  <2>4. Protocol' /\ SdPlaced' /\ Gate'
    BY <1>w, <2>1, <2>2 DEF Protocol, SdPlaced, Gate, vars, stateVars, core0Vars, core1Vars
  <2>5. QED
    BY <2>3, <2>4
<1>7. QED
  BY <1>1, <1>2, <1>4, <1>5, <1>6 DEF Drain

LEMMA StutterWindow == WindowInv /\ UNCHANGED allVars => WindowInv'
<1> SUFFICES ASSUME WindowInv, UNCHANGED allVars PROVE WindowInv'
  OBVIOUS
<1>1. UNCHANGED <<vars, busVars, sdVars>>
  BY DEF allVars
<1>2. TypeOK' /\ (OpPlaced => OpPlaced')
  BY <1>1 DEF WindowInv, WindowTypeOK, TypeOK, OpPlaced, vars, stateVars, ringVars, pubVars,
     core0Vars, core1Vars, Slots
<1>3. WindowTypeOK'
  BY <1>1, <1>2 DEF WindowInv, WindowTypeOK, busVars, sdVars, Slots
<1>4. Protocol' /\ SdPlaced' /\ Gate'
  BY <1>1, <1>2 DEF WindowInv, Protocol, SdPlaced, Gate, vars, stateVars, core0Vars, core1Vars,
     busVars, sdVars
<1>5. QED
  BY <1>3, <1>4 DEF WindowInv

LEMMA WindowInvariant == WindowSpec => []WindowInv
<1>1. WindowInv /\ [WindowNext]_allVars => WindowInv'
  BY FxSyncStep, ExchangeStep, SdStep, DrainStep, StutterWindow DEF WindowNext
<1>2. QED
  BY InitWindowInv, <1>1, PTL DEF WindowSpec

\* Every variable of both cores, the ring and the window keeps its type.
THEOREM WindowTypeCorrect == WindowSpec => []WindowTypeOK
BY WindowInvariant, PTL DEF WindowInv

\* Core 1 drives the flash pins only while core 0 is in its SRAM loop with the
\* SRAM handlers installed, and core 1 holds the QSPI bus.
THEOREM WindowXipQuiet == WindowSpec => []XipQuiet
<1>1. WindowInv => XipQuiet
  BY DEF WindowInv, Protocol, SdPlaced, XipQuiet
<1>2. QED
  BY <1>1, WindowInvariant, PTL

\* In and outside a window the two cores never touch the FxState together.
THEOREM WindowIsExclusive == WindowSpec => []WindowExclusive
<1>1. WindowInv => WindowExclusive
  <2> SUFFICES ASSUME WindowInv, Core0Touches, Core1Touches PROVE FALSE
    BY DEF WindowExclusive
  <2>1. CASE dr \in {"rtouch", "atouch"}
    BY <2>1 DEF WindowInv, Gate, Core0Touches, Core0Gated
  <2>2. CASE pc1 \in Core1Access
    <3>1. win = "out" /\ owner
      BY <2>2 DEF WindowInv, Gate, Core1Access
    <3>2. sd = "idle"
      BY <3>1 DEF WindowInv, Protocol, SdPlaced
    <3>3. QED
      BY <3>1, <3>2 DEF WindowInv, Gate, Core0Touches
  <2>3. QED
    BY <2>1, <2>2 DEF Core1Touches
<1>2. QED
  BY <1>1, WindowInvariant, PTL

-----------------------------------------------------------------------------
(* The hand-off across windows: core 1 owns the state from the moment core *)
(* 0 prepares a window until core 1 has served the GSU after it.           *)

WindowOwner ==
  /\ handlers = "sd" => owner
  /\ win \in {"xfer", "done", "ending", "endwait", "final"} => owner

HandoffInv == Handover /\ Published /\ WindowOwner

\* A step in which core 1, outside its service, keeps the state.
LEMMA HandoffKept ==
  ASSUME HandoffInv, owner, owner', pc1' = "top", pc0' = pc0
  PROVE  Handover' /\ Published'
BY DEF HandoffInv, Handover, Published, Releasing

LEMMA HandoffStep == WindowInv /\ HandoffInv /\ [WindowNext]_allVars => HandoffInv'
<1> SUFFICES ASSUME WindowInv, HandoffInv, [WindowNext]_allVars PROVE HandoffInv'
  OBVIOUS
<1>0. WindowTypeOK /\ TypeOK /\ Protocol /\ SdPlaced /\ Gate
  BY DEF WindowInv, WindowTypeOK
<1>t. win # "out" => pc1 = "top"
  BY <1>0 DEF Gate
<1>s. handlers = "sd" => win # "out"
  BY <1>0 DEF Protocol
<1>1. CASE NormalInterrupt \/ MainReset \/ NormalHandler \/ Core1 \/ Core1Video
  <2>1. UNCHANGED <<win, handlers, sd>>
    BY <1>1 DEF NormalInterrupt, MainReset, NormalHandler, Core1, Core1Video, busVars, sdVars
  <2>2. [Next]_vars
    BY <1>1, AccessAssumption
    DEF NormalInterrupt, MainReset, NormalHandler, Core1, Core1Video, Next, Bus
  <2>3. OpPlaced
    <3>1. CASE NormalInterrupt
      BY <1>0, <3>1 DEF NormalInterrupt, SdPlaced
    <3>2. CASE MainReset \/ NormalHandler
      <4>1. main = "loop" \/ pc0 # "idle"
        BY <1>0, <3>2, Core0Effect DEF MainReset, NormalHandler
      <4>2. QED
        BY <1>0, <4>1 DEF SdPlaced, Protocol
    <3>3. CASE Core1 \/ Core1Video
      BY <1>0, <1>s, <3>3 DEF Core1, Core1Video, SdPlaced
    <3>4. QED
      BY <1>1, <3>1, <3>2, <3>3
  <2>4. Locked
    BY <1>0 DEF Locked, Gate
  <2>5. Handover' /\ Published'
    BY <1>0, <2>2, <2>3, <2>4, HandoverStep, PublishedStep DEF HandoffInv
  <2>6. owner /\ win # "out" => owner'
    <3>1. CASE NormalInterrupt \/ MainReset
      BY <3>1 DEF NormalInterrupt, MainReset, BusAccess, ConsoleReset, ServiceReset, stateVars
    <3>2. CASE NormalHandler
      BY <1>0, <3>2, Core0Effect DEF NormalHandler
    <3>3. QED
      BY <1>1, <3>1, <3>2 DEF Core1, Core1Video
  <2>7. WindowOwner'
    BY <1>s, <2>1, <2>6 DEF HandoffInv, WindowOwner
  <2>8. QED
    BY <2>5, <2>7 DEF HandoffInv
<1>2. CASE Prepared
  <2>1. /\ main = "prep" /\ owner' = TRUE /\ pc0 = "idle"
        /\ UNCHANGED <<core0Vars, core1Vars>>
    BY <1>2 DEF Prepared, Main, NoHandler
  <2>2. pc1 = "top"
    BY <1>0, <1>t, <2>1 DEF Protocol, WindowTypeOK
  <2>3. Handover' /\ Published' /\ WindowOwner'
    BY <2>1, <2>2 DEF Handover, Published, Releasing, WindowOwner, core0Vars, core1Vars, Core0Direct
  <2>4. QED
    BY <2>3 DEF HandoffInv
<1>3. CASE (MainStep \/ Exchange \/ UNCHANGED allVars) /\ ~Prepared
  <2>1. UNCHANGED vars
    BY <1>3 DEF MainStep, Exchange, SaveStart, SaveEnd, Prepare, PrepareRefused, Activate,
       WaitCancel, Leave, Back, BeginAcquire, BeginRequest, BeginActive, BeginRefused,
       BeginTimeout, BeginLate, BeginGiveUp, Transfer, EndRelease, EndPhase, EndDrain, allVars
  <2>2. UNCHANGED <<fx, owner, irqClear, readIndex, writeIndex, runtime, access, pc0, op0, pc1, snap1>>
    BY <2>1 DEF vars, stateVars, ringVars, pubVars, core0Vars, core1Vars
  <2>3. Handover' /\ Published'
    BY <2>2 DEF HandoffInv, Handover, Published, Releasing, Current, RingEmpty
  <2>4. handlers' = handlers \/ handlers' = "normal"
    BY <1>3 DEF MainStep, Exchange, SaveStart, SaveEnd, Prepare, PrepareRefused, Activate,
       WaitCancel, Leave, Back, BeginAcquire, BeginRequest, BeginActive, BeginRefused,
       BeginTimeout, BeginLate, BeginGiveUp, Transfer, EndRelease, EndPhase, EndDrain,
       allVars, busVars
  <2>5. \/ win' = win \/ win' \notin {"xfer", "done", "ending", "endwait", "final"}
        \/ win \in {"xfer", "done", "ending", "endwait", "final"}
        \/ phase = "Active"
    BY <1>3 DEF MainStep, Exchange, SaveStart, SaveEnd, Prepare, PrepareRefused, Activate,
       WaitCancel, Leave, Back, BeginAcquire, BeginRequest, BeginActive, BeginRefused,
       BeginTimeout, BeginLate, BeginGiveUp, Transfer, EndRelease, EndPhase, EndDrain, Win,
       allVars, busVars
  <2>6. phase = "Active" => handlers = "sd"
    BY <1>0 DEF Protocol
  <2>7. WindowOwner'
    BY <2>2, <2>4, <2>5, <2>6 DEF HandoffInv, WindowOwner
  <2>8. QED
    BY <2>3, <2>7 DEF HandoffInv
<1>4. CASE SdInterrupt \/ SdHandler
  <2>1. handlers = "sd" /\ UNCHANGED <<owner, pc0, pc1, win, handlers>>
    <3> USE DEF stateVars, pubVars, core0Vars, core1Vars, vars, busVars
    <3>1. CASE SdInterrupt
      BY <3>1 DEF SdInterrupt, SdAccess, SdResetPulse
    <3>2. CASE SdWrite \/ SdWriteFull \/ SdResetMark
      BY <1>0, <3>2 DEF SdWrite, SdWriteFull, SdResetMark, SdPlaced
    <3>3. CASE SdReadLock \/ SdRead
      BY <1>0, <3>3 DEF SdReadLock, SdRead, SdPlaced
    <3>4. QED
      BY <1>4, <3>1, <3>2, <3>3 DEF SdHandler
  <2>2. owner /\ owner' /\ pc1' = "top" /\ WindowOwner'
    BY <1>s, <1>t, <2>1 DEF HandoffInv, WindowOwner
  <2>3. QED
    BY <2>1, <2>2, HandoffKept DEF HandoffInv
<1>5. CASE Drain
  <2>1. dr # "no" /\ UNCHANGED <<owner, pc0, pc1, handlers>> /\ (win' = win \/ win' = "out")
    <3> USE DEF stateVars, pubVars, core0Vars, core1Vars, vars, busVars, Dr
    <3>1. CASE DrainReset \/ DrainForget \/ DrainLock
      BY <3>1 DEF DrainReset, DrainForget, DrainLock
    <3>2. CASE DrainTouch
      BY <3>2 DEF DrainTouch, DrainApply
    <3>3. CASE DrainPop \/ DrainDone
      BY <3>3 DEF DrainPop, DrainDone
    <3>4. QED
      BY <1>5, <3>1, <3>2, <3>3 DEF Drain
  <2>2. win \in {"endwait", "final"}
    BY <1>0, <2>1 DEF Protocol
  <2>3. owner /\ owner' /\ pc1' = "top" /\ WindowOwner'
    BY <1>t, <2>1, <2>2 DEF HandoffInv, WindowOwner
  <2>4. QED
    BY <2>1, <2>3, HandoffKept DEF HandoffInv
<1>6. QED
  BY <1>1, <1>2, <1>3, <1>4, <1>5 DEF WindowNext

LEMMA HandoffInvariant == WindowSpec => []HandoffInv
<1>1. WindowInit => HandoffInv
  BY InitIInv DEF WindowInit, IInv, HandoffInv, WindowOwner
<1>2. QED
  BY <1>1, HandoffStep, WindowInvariant, PTL DEF WindowSpec

\* Also across windows core 1 gives the state up only when nothing is left for
\* it to do, whatever the SD handlers have queued ...
THEOREM WindowStranded == WindowSpec => []NothingStranded
<1>1. HandoffInv => NothingStranded
  BY DEF HandoffInv, Handover, NothingStranded
<1>2. QED
  BY <1>1, HandoffInvariant, PTL

\* ... and only after the snapshots show what the SD handlers and the drains
\* have done to it.
THEOREM WindowSettled == WindowSpec => []SnapshotsSettled
<1>1. HandoffInv => SnapshotsSettled
  BY DEF HandoffInv, Published, SnapshotsSettled
<1>2. QED
  BY <1>1, HandoffInvariant, PTL

-----------------------------------------------------------------------------
(* Putting an element into a sequence.                                     *)

LEMMA InsertAtIs ==
  ASSUME NEW s, NEW i, NEW e
  PROVE  SX!InsertAt(s, i, e) = SubSeq(s, 1, i - 1) \o <<e>> \o SubSeq(s, i, Len(s))
  BY DEF SX!InsertAt

\* An element put into a sequence behind the first k.
LEMMA InsertedIs ==
  ASSUME NEW S, NEW s \in Seq(S), NEW e \in S, NEW k \in 0 .. Len(s)
  PROVE  LET t == SX!InsertAt(s, k + 1, e)
         IN  /\ t \in Seq(S)
             /\ Len(t) = Len(s) + 1
             /\ \A i \in 1 .. Len(s) + 1 :
                  t[i] = IF i <= k THEN s[i] ELSE IF i = k + 1 THEN e ELSE s[i - 1]
<1> DEFINE a == SubSeq(s, 1, k)
           b == SubSeq(s, k + 1, Len(s))
           m == a \o <<e>>
           t == m \o b
<1>0. (k + 1) - 1 = k /\ Len(s) \in Nat /\ k \in Nat
  OBVIOUS
<1>1. a \in Seq(S) /\ Len(a) = k /\ \A i \in 1 .. k : a[i] = s[i]
  BY <1>0
<1>2. b \in Seq(S) /\ Len(b) = Len(s) - k /\ \A i \in 1 .. Len(s) - k : b[i] = s[k + i]
  BY <1>0
<1>e. <<e>> \in Seq(S) /\ Len(<<e>>) = 1 /\ <<e>>[1] = e
  OBVIOUS
<1> HIDE DEF a, b
<1>3. m \in Seq(S) /\ Len(m) = k + 1 /\ \A i \in 1 .. k + 1 : m[i] = IF i <= k THEN a[i] ELSE <<e>>[i - k]
  BY <1>0, <1>1, <1>e, ConcatProperties
<1> HIDE DEF m
<1>4. t \in Seq(S) /\ Len(t) = k + 1 + (Len(s) - k)
      /\ \A i \in 1 .. k + 1 + (Len(s) - k) : t[i] = IF i <= k + 1 THEN m[i] ELSE b[i - (k + 1)]
  <2>1. /\ t \in Seq(S) /\ Len(t) = Len(m) + Len(b)
        /\ \A i \in 1 .. Len(m) + Len(b) : t[i] = IF i <= Len(m) THEN m[i] ELSE b[i - Len(m)]
    BY <1>2, <1>3, ConcatProperties
  <2> HIDE DEF t
  <2>2. Len(m) = k + 1 /\ Len(b) = Len(s) - k
    BY <1>2, <1>3
  <2>3. QED
    BY <2>1, <2>2
<1> HIDE DEF t
<1>5. SX!InsertAt(s, k + 1, e) = t
  <2>1. SX!InsertAt(s, k + 1, e) = (SubSeq(s, 1, (k + 1) - 1) \o <<e>>) \o SubSeq(s, k + 1, Len(s))
    BY InsertAtIs
  <2>2. QED
    BY <1>0, <2>1, Zenon DEF a, b, m, t
<1>6. ASSUME NEW i \in 1 .. Len(s) + 1
      PROVE  t[i] = IF i <= k THEN s[i] ELSE IF i = k + 1 THEN e ELSE s[i - 1]
  <2>0. i \in 1 .. k + 1 + (Len(s) - k)
    BY <1>0
  <2>1. CASE i <= k
    BY <1>0, <1>1, <1>3, <1>4, <2>0, <2>1
  <2>2. CASE i = k + 1
    BY <1>0, <1>e, <1>3, <1>4, <2>0, <2>2
  <2>3. CASE i > k + 1
    <3>1. t[i] = b[i - (k + 1)]
      BY <1>0, <1>4, <2>0, <2>3
    <3>2. i - (k + 1) \in 1 .. Len(s) - k /\ k + (i - (k + 1)) = i - 1
      BY <1>0, <2>0, <2>3
    <3>3. b[i - (k + 1)] = s[i - 1]
      BY <1>2, <3>2
    <3>4. QED
      BY <1>0, <2>3, <3>1, <3>3
  <2>4. QED
    BY <1>0, <2>1, <2>2, <2>3
<1>7. k + 1 + (Len(s) - k) = Len(s) + 1
  BY <1>0
<1>8. QED
  BY <1>4, <1>5, <1>6, <1>7

LEMMA InsertedEqual ==
  ASSUME NEW S, NEW s \in Seq(S), NEW e \in S, NEW k \in 0 .. Len(s), NEW r \in Seq(S),
         Len(r) = Len(s) + 1,
         \A i \in 1 .. Len(s) + 1 :
           r[i] = IF i <= k THEN s[i] ELSE IF i = k + 1 THEN e ELSE s[i - 1]
  PROVE  SX!InsertAt(s, k + 1, e) = r
<1> DEFINE t == SX!InsertAt(s, k + 1, e)
<1>1. /\ t \in Seq(S) /\ Len(t) = Len(s) + 1
      /\ \A i \in 1 .. Len(s) + 1 :
           t[i] = IF i <= k THEN s[i] ELSE IF i = k + 1 THEN e ELSE s[i - 1]
  BY InsertedIs
<1> HIDE DEF t
<1>2. t = r
  BY <1>1, SeqEqual
<1>3. QED
  BY <1>2 DEF t

\* In front, at the end, behind a first element, and before a last one.
LEMMA InsertFirst ==
  ASSUME NEW S, NEW s \in Seq(S), NEW e \in S
  PROVE  SX!InsertAt(s, 1, e) = <<e>> \o s
<1> DEFINE r == <<e>> \o s
<1>1. <<e>> \in Seq(S) /\ Len(<<e>>) = 1 /\ <<e>>[1] = e /\ Len(s) \in Nat
  OBVIOUS
<1>2. /\ r \in Seq(S) /\ Len(r) = Len(s) + 1
      /\ \A i \in 1 .. Len(s) + 1 : r[i] = IF i <= 1 THEN <<e>>[i] ELSE s[i - 1]
  BY <1>1, ConcatProperties
<1> HIDE DEF r
<1>3. \A i \in 1 .. Len(s) + 1 : r[i] = IF i <= 0 THEN s[i] ELSE IF i = 0 + 1 THEN e ELSE s[i - 1]
  BY <1>1, <1>2
<1>4. 0 \in 0 .. Len(s) /\ 0 + 1 = 1
  BY <1>1
<1>5. SX!InsertAt(s, 0 + 1, e) = r
  BY <1>2, <1>3, <1>4, InsertedEqual
<1>6. QED
  BY <1>4, <1>5 DEF r

LEMMA InsertLast ==
  ASSUME NEW S, NEW s \in Seq(S), NEW e \in S
  PROVE  SX!InsertAt(s, Len(s) + 1, e) = Append(s, e)
<1> DEFINE r == Append(s, e)
<1>1. /\ r \in Seq(S) /\ Len(r) = Len(s) + 1 /\ r[Len(s) + 1] = e /\ Len(s) \in Nat
      /\ \A i \in 1 .. Len(s) : r[i] = s[i]
  BY AppendProperties
<1> HIDE DEF r
<1>2. \A i \in 1 .. Len(s) + 1 :
        r[i] = IF i <= Len(s) THEN s[i] ELSE IF i = Len(s) + 1 THEN e ELSE s[i - 1]
  BY <1>1
<1>3. Len(s) \in 0 .. Len(s)
  BY <1>1
<1>4. SX!InsertAt(s, Len(s) + 1, e) = r
  BY <1>1, <1>2, <1>3, InsertedEqual
<1>5. QED
  BY <1>4 DEF r

LEMMA InsertBehind ==
  ASSUME NEW S, NEW s \in Seq(S), NEW e \in S, NEW h \in S, NEW k \in 0 .. Len(s)
  PROVE  SX!InsertAt(<<h>> \o s, (k + 1) + 1, e) = <<h>> \o SX!InsertAt(s, k + 1, e)
<1> DEFINE u == <<h>> \o s
           t == SX!InsertAt(s, k + 1, e)
           r == <<h>> \o t
<1>1. <<h>> \in Seq(S) /\ Len(<<h>>) = 1 /\ <<h>>[1] = h /\ Len(s) \in Nat /\ k \in Nat /\ k <= Len(s)
  OBVIOUS
<1>2. /\ u \in Seq(S) /\ Len(u) = 1 + Len(s)
      /\ \A i \in 1 .. 1 + Len(s) : u[i] = IF i <= 1 THEN <<h>>[i] ELSE s[i - 1]
  BY <1>1, ConcatProperties
<1>3. /\ t \in Seq(S) /\ Len(t) = Len(s) + 1
      /\ \A i \in 1 .. Len(s) + 1 :
           t[i] = IF i <= k THEN s[i] ELSE IF i = k + 1 THEN e ELSE s[i - 1]
  BY InsertedIs
<1> HIDE DEF t, u
<1>4. /\ r \in Seq(S) /\ Len(r) = 1 + (Len(s) + 1)
      /\ \A i \in 1 .. 1 + (Len(s) + 1) : r[i] = IF i <= 1 THEN <<h>>[i] ELSE t[i - 1]
  BY <1>1, <1>3, ConcatProperties
<1> HIDE DEF r
<1>5. ASSUME NEW i \in 1 .. Len(u) + 1
      PROVE  r[i] = IF i <= k + 1 THEN u[i] ELSE IF i = (k + 1) + 1 THEN e ELSE u[i - 1]
  <2>1. CASE i = 1
    BY <1>1, <1>2, <1>4, <2>1
  <2>2. CASE i # 1
    <3>1. i \in 2 .. Len(s) + 2 /\ i - 1 \in 1 .. Len(s) + 1
      BY <1>1, <1>2, <2>2
    <3>2. r[i] = t[i - 1]
      BY <1>1, <1>4, <3>1
    <3>3. t[i - 1] = IF i - 1 <= k THEN s[i - 1] ELSE IF i - 1 = k + 1 THEN e ELSE s[(i - 1) - 1]
      BY <1>3, <3>1
    <3>4. i <= k + 1 => u[i] = s[i - 1]
      BY <1>1, <1>2, <3>1
    <3>5. ~(i <= k + 1) /\ i # (k + 1) + 1 => u[i - 1] = s[(i - 1) - 1]
      BY <1>1, <1>2, <3>1
    <3>6. (i - 1 <= k <=> i <= k + 1) /\ (i - 1 = k + 1 <=> i = (k + 1) + 1)
      BY <1>1, <3>1
    <3>7. QED
      BY <3>2, <3>3, <3>4, <3>5, <3>6
  <2>3. QED
    BY <2>1, <2>2
<1>6. k + 1 \in 0 .. Len(u) /\ Len(r) = Len(u) + 1
  BY <1>1, <1>2, <1>4
<1>7. SX!InsertAt(u, (k + 1) + 1, e) = r
  BY <1>2, <1>4, <1>5, <1>6, InsertedEqual
<1>8. QED
  BY <1>7 DEF r, t, u

LEMMA InsertBefore ==
  ASSUME NEW S, NEW s \in Seq(S), NEW e \in S, NEW c \in S, NEW k \in 0 .. Len(s)
  PROVE  SX!InsertAt(Append(s, c), k + 1, e) = Append(SX!InsertAt(s, k + 1, e), c)
<1> DEFINE u == Append(s, c)
           t == SX!InsertAt(s, k + 1, e)
           r == Append(t, c)
<1>1. Len(s) \in Nat /\ k \in Nat /\ k <= Len(s)
  OBVIOUS
<1>2. /\ u \in Seq(S) /\ Len(u) = Len(s) + 1 /\ u[Len(s) + 1] = c
      /\ \A i \in 1 .. Len(s) : u[i] = s[i]
  BY AppendProperties
<1>3. /\ t \in Seq(S) /\ Len(t) = Len(s) + 1
      /\ \A i \in 1 .. Len(s) + 1 :
           t[i] = IF i <= k THEN s[i] ELSE IF i = k + 1 THEN e ELSE s[i - 1]
  BY InsertedIs
<1> HIDE DEF t, u
<1>4. /\ r \in Seq(S) /\ Len(r) = Len(t) + 1 /\ r[Len(t) + 1] = c
      /\ \A i \in 1 .. Len(t) : r[i] = t[i]
  BY <1>3, AppendProperties
<1> HIDE DEF r
<1>5. ASSUME NEW i \in 1 .. Len(u) + 1
      PROVE  r[i] = IF i <= k THEN u[i] ELSE IF i = k + 1 THEN e ELSE u[i - 1]
  <2>1. CASE i = Len(u) + 1
    <3>1. r[i] = c /\ ~(i <= k) /\ i # k + 1 /\ i - 1 = Len(s) + 1
      BY <1>1, <1>2, <1>3, <1>4, <2>1
    <3>2. QED
      BY <1>2, <3>1
  <2>2. CASE i # Len(u) + 1
    <3>1. i \in 1 .. Len(s) + 1
      BY <1>1, <1>2, <2>2
    <3>2. r[i] = IF i <= k THEN s[i] ELSE IF i = k + 1 THEN e ELSE s[i - 1]
      BY <1>3, <1>4, <3>1
    <3>3. i <= k => u[i] = s[i]
      BY <1>1, <1>2, <3>1
    <3>4. ~(i <= k) /\ i # k + 1 => u[i - 1] = s[i - 1]
      BY <1>1, <1>2, <3>1
    <3>5. QED
      BY <3>2, <3>3, <3>4
  <2>3. QED
    BY <2>1, <2>2
<1>6. k \in 0 .. Len(u) /\ Len(r) = Len(u) + 1
  BY <1>1, <1>2, <1>3, <1>4
<1>7. SX!InsertAt(u, k + 1, e) = r
  BY <1>2, <1>4, <1>5, <1>6, InsertedEqual
<1>8. QED
  BY <1>7 DEF r, t, u

-----------------------------------------------------------------------------
(* What the ring and a remembered reset hold in and after a window.        *)

\* The commands ahead of the place of a remembered reset.
Ahead == IF sdPosition >= readIndex THEN sdPosition - readIndex
         ELSE sdPosition + Size - readIndex

\* A reset is remembered only in a window: the last drain gets to its place,
\* since it takes up to Size commands and there are fewer in front of it.
Marked ==
  /\ sdReset => /\ handlers = "sd" \/ win \in {"endwait", "final"}
                /\ Ahead <= RingCount
                /\ win = "final" /\ dr # "no" => drained + Ahead <= Size - 1
  /\ dr \in {"rlock", "rtouch", "rclear"} => sdReset /\ readIndex = sdPosition
  /\ sd = "mark" => ~sdReset

QueueInv ==
  /\ ResetsOnly /\ RunsOnly
  /\ video /\ dr \in {"alock", "atouch"} => cmd1 = "Reset"
  /\ Marked

Places == TypeOK /\ sdPosition \in Slots /\ (sdReset => Ahead <= RingCount)

\* A remembered reset has one place among the commands that are queued.
LEMMA MarkPlace ==
  ASSUME TypeOK, sdPosition \in Slots
  PROVE  /\ Ahead \in 0 .. Size - 1
         /\ Ahead = 0 <=> readIndex = sdPosition
         /\ SlotAfter(Ahead) = sdPosition
         /\ \A k \in 0 .. RingCount : SlotAfter(k) = sdPosition => k = Ahead
<1>1. /\ Size \in Nat /\ Size >= 2 /\ readIndex \in 0 .. Size - 1
      /\ sdPosition \in 0 .. Size - 1 /\ RingCount \in 0 .. Size - 1
  BY SizeAssumption, QueuePlaces DEF TypeOK, Slots
<1>2. Ahead \in 0 .. Size - 1 /\ (Ahead = 0 <=> readIndex = sdPosition) /\ SlotAfter(Ahead) = sdPosition
  BY <1>1 DEF Ahead, SlotAfter
<1>3. ASSUME NEW k \in 0 .. RingCount, SlotAfter(k) = sdPosition PROVE k = Ahead
  BY <1>1, <1>3 DEF Ahead, SlotAfter
<1>4. QED
  BY <1>2, <1>3

\* The sequence that the refinement takes for the backlog.
WaitingForm ==
  /\ Waiting = IF sdReset /\ dr # "rclear" THEN SX!InsertAt(Ring, Ahead + 1, "Reset") ELSE Ring
  /\ Waiting \in Seq(Command)

LEMMA WaitingFormed == Places => WaitingForm
<1> SUFFICES ASSUME Places PROVE WaitingForm
  OBVIOUS
<1>1. Ring \in Seq(Command) /\ Len(Ring) = RingCount /\ "Reset" \in Command
  BY RingIsSequence DEF Places, RingSequence, Command
<1>2. CASE sdReset /\ dr # "rclear"
  <2>1. Ahead \in 0 .. RingCount
    BY <1>2, MarkPlace, QueuePlaces, SizeAssumption DEF Places
  <2>2. (CHOOSE k \in 0 .. RingCount : SlotAfter(k) = sdPosition) = Ahead
    BY <2>1, MarkPlace DEF Places
  <2>3. Waiting = SX!InsertAt(Ring, Ahead + 1, "Reset")
    BY <1>2, <2>2, Zenon DEF Waiting
  <2>4. SX!InsertAt(Ring, Ahead + 1, "Reset") \in Seq(Command)
    BY <1>1, <2>1, InsertedIs
  <2>5. QED
    BY <1>2, <2>3, <2>4 DEF WaitingForm
<1>3. CASE ~(sdReset /\ dr # "rclear")
  BY <1>1, <1>3 DEF Waiting, WaitingForm
<1>4. QED
  BY <1>2, <1>3

LEMMA WaitingStaysFormed == Places' => WaitingForm'
  BY WaitingFormed, PTL

LEMMA RingSame == ASSUME UNCHANGED ringVars
                  PROVE  Ring' = Ring /\ RingCount' = RingCount /\ (RingEmpty' <=> RingEmpty)
  BY DEF ringVars, Ring, RingCount, SlotAfter, RingEmpty

\* A step of FxSync in a window.
LEMMA FxSyncSteps ==
  ASSUME WindowInv, NormalInterrupt \/ MainReset \/ NormalHandler \/ Core1 \/ Core1Video
  PROVE  [Next]_vars /\ OpPlaced /\ Locked /\ UNCHANGED <<busVars, sdVars>>
<1>1. [Next]_vars /\ UNCHANGED <<busVars, sdVars>>
  BY AccessAssumption
  DEF NormalInterrupt, MainReset, NormalHandler, Core1, Core1Video, Next, Bus
<1>2. WindowTypeOK /\ TypeOK /\ Protocol /\ SdPlaced /\ Gate
  BY DEF WindowInv, WindowTypeOK
<1>3. sd = "idle"
  <2>1. CASE NormalInterrupt
    BY <2>1 DEF NormalInterrupt
  <2>2. CASE MainReset \/ NormalHandler
    <3>1. main = "loop" \/ pc0 # "idle"
      BY <1>2, <2>2, Core0Effect DEF MainReset, NormalHandler
    <3>2. QED
      BY <1>2, <3>1 DEF SdPlaced, Protocol
  <2>3. CASE Core1 \/ Core1Video
    BY <1>2, <2>3 DEF Core1, Core1Video, SdPlaced, Protocol
  <2>4. QED
    BY <2>1, <2>2, <2>3
<1>4. QED
  BY <1>1, <1>2, <1>3 DEF SdPlaced, Locked, Gate

\* A handler of core 0 leaves the ring as it is, or has one more command in it.
LEMMA HandlerPushes ==
  ASSUME Base, Handler0
  PROVE  /\ UNCHANGED <<readIndex, cmd1, pc1, video>>
         /\ UNCHANGED writeIndex \/ (~RingFull /\ writeIndex' = NextSlot(writeIndex))
<1>1. CASE UNCHANGED <<fx, video, ringVars, pc1, cmd1>>
  BY <1>1 DEF ringVars
<1>2. CASE WriteQueue \/ ResetQueue
  BY <1>2 DEF WriteQueue, ResetQueue, stateVars, core1Vars
<1>3. CASE WritePush \/ ResetPush
  BY <1>3 DEF WritePush, ResetPush, stateVars, core1Vars, Base, ResetsOnly, Return0, Exit0, Go0
<1>4. CASE WriteApply \/ ResetApply \/ ReadApply \/ ReadClear
  BY <1>4 DEF WriteApply, ResetApply, ReadApply, ReadClear, ringVars, core1Vars
<1>5. QED
  BY <1>1, <1>2, <1>3, <1>4, Core0Steps

\* How a push and a pop move the places in the ring.
LEMMA PlacesMove ==
  ASSUME TypeOK, sdPosition \in Slots, UNCHANGED sdPosition
  PROVE  /\ ~RingFull /\ writeIndex' = NextSlot(writeIndex) /\ readIndex' = readIndex =>
              RingCount' = RingCount + 1 /\ Ahead' = Ahead
         /\ ~RingEmpty /\ readIndex' = NextSlot(readIndex) /\ writeIndex' = writeIndex =>
              /\ RingCount' = RingCount - 1
              /\ readIndex # sdPosition => Ahead' = Ahead - 1
         /\ readIndex' = readIndex /\ writeIndex' = writeIndex => RingCount' = RingCount /\ Ahead' = Ahead
  BY SizeAssumption, SMTT(30) DEF TypeOK, Slots, RingCount, RingFull, RingEmpty, NextSlot, Ahead

\* Only a window remembers a reset: core 1 does not serve the GSU meanwhile, ...
LEMMA MarkedAway ==
  ASSUME WindowInv, QueueInv, HandoffInv
  PROVE  /\ sdReset \/ dr # "no" \/ handlers = "sd" => win # "out" /\ owner /\ pc1 = "top"
         /\ handlers = "sd" => win # "final"
         /\ Places
<1>1. WindowTypeOK /\ TypeOK /\ Protocol /\ Gate /\ sdPosition \in Slots /\ Marked
  BY DEF WindowInv, WindowTypeOK, QueueInv
<1>2. handlers = "sd" => phase \in {"Preparing", "Active", "Ending"}
  BY <1>1 DEF Protocol, WindowTypeOK
<1>3. sdReset \/ dr # "no" \/ handlers = "sd" => win # "out" /\ owner
  BY <1>1, <1>2 DEF HandoffInv, WindowOwner, Protocol, Marked
<1>4. QED
  BY <1>1, <1>2, <1>3 DEF Gate, Protocol, Places, Marked

LEMMA QueueFxSync ==
  ASSUME WindowInv, HandoffInv, QueueInv,
         NormalInterrupt \/ MainReset \/ NormalHandler \/ Core1 \/ Core1Video
  PROVE  QueueInv'
<1>0. /\ [Next]_vars /\ OpPlaced /\ Locked /\ TypeOK /\ Handover /\ ResetsOnly /\ RunsOnly /\ Marked
      /\ UNCHANGED <<handlers, win, sd, sdReset, sdPosition, dr, drained>>
      /\ sdPosition \in Slots
  BY FxSyncSteps DEF WindowInv, WindowTypeOK, HandoffInv, QueueInv, busVars, sdVars
<1>1. Base
  BY <1>0 DEF Base
<1>2. ResetsOnly' /\ RunsOnly'
  BY <1>0, <1>1, ResetsOnlyStep, RunsOnlyStep
<1>3. CASE Core1 \/ Core1Video
  <2>1. win = "out"
    BY <1>3 DEF Core1, Core1Video
  <2>2. ~sdReset /\ dr = "no" /\ handlers # "sd"
    BY <2>1, MarkedAway
  <2>3. sd # "mark"
    BY <2>2 DEF WindowInv, SdPlaced
  <2>4. QED
    BY <1>0, <1>2, <2>2, <2>3 DEF QueueInv, Marked
<1>4. CASE NormalInterrupt \/ MainReset \/ NormalHandler
  <2>1. /\ UNCHANGED <<readIndex, cmd1, video>>
        /\ UNCHANGED writeIndex \/ (~RingFull /\ writeIndex' = NextSlot(writeIndex))
    <3>1. CASE NormalHandler
      BY <1>1, <3>1, HandlerPushes DEF NormalHandler
    <3>2. CASE NormalInterrupt \/ MainReset
      BY <3>2 DEF NormalInterrupt, MainReset, BusAccess, ConsoleReset, ServiceReset,
         stateVars, ringVars, core1Vars
    <3>3. QED
      BY <1>4, <3>1, <3>2
  <2>2. /\ UNCHANGED sdPosition
        /\ \/ RingCount' = RingCount /\ Ahead' = Ahead
           \/ RingCount' = RingCount + 1 /\ Ahead' = Ahead
    BY <1>0, <2>1, PlacesMove
  <2>3. RingCount \in Nat /\ Ahead \in Nat
    BY <1>0, QueuePlaces, MarkPlace, SizeAssumption
  <2>4. Marked'
    BY <1>0, <2>1, <2>2, <2>3 DEF Marked
  <2>5. QED
    BY <1>0, <1>2, <2>1, <2>4 DEF QueueInv
<1>5. QED
  BY <1>3, <1>4

\* ResetsOnly over a step that leaves core 0's handlers alone.
LEMMA ResetsOnlyKept ==
  ASSUME TypeOK, ResetsOnly, pc0' = "idle", pc1' = "top",
         UNCHANGED <<commands, readIndex, writeIndex>>,
         video' => video /\ ~fx'.running
  PROVE  ResetsOnly'
  BY DEF ResetsOnly, Queued

LEMMA QueueQuiet ==
  ASSUME WindowInv, HandoffInv, QueueInv, MainStep \/ Exchange \/ UNCHANGED allVars
  PROVE  QueueInv'
<1>0. /\ WindowTypeOK /\ TypeOK /\ Protocol /\ SdPlaced /\ ResetsOnly /\ RunsOnly /\ Marked
      /\ sdPosition \in Slots
  BY DEF WindowInv, WindowTypeOK, QueueInv
<1>1. /\ UNCHANGED <<fx, video, commands, readIndex, writeIndex, pc0, pc1, cmd1, sd, sdReset, sdPosition>>
      /\ ~EndDrain => UNCHANGED <<dr, drained>>
  <2> USE DEF vars, stateVars, ringVars, core0Vars, core1Vars, sdVars, allVars
  <2>1. CASE Prepared
    BY <2>1 DEF Prepared
  <2>2. CASE MainStep /\ ~Prepared
    BY <2>2 DEF MainStep, SaveStart, SaveEnd, Prepare, PrepareRefused, Activate, WaitCancel,
       Leave, Back
  <2>3. CASE Exchange
    BY <2>3 DEF Exchange, BeginAcquire, BeginRequest, BeginActive, BeginRefused, BeginTimeout,
       BeginLate, BeginGiveUp, Transfer, EndRelease, EndPhase, EndDrain
  <2>4. CASE UNCHANGED allVars
    BY <2>4
  <2>5. QED
    BY <2>1, <2>2, <2>3, <2>4
<1>2. ResetsOnly' /\ RunsOnly'
  BY <1>0, <1>1 DEF ResetsOnly, RunsOnly, Queued, RingFull
<1>3. RingCount' = RingCount /\ Ahead' = Ahead
  BY <1>0, <1>1, PlacesMove
<1>r. RingCount \in 0 .. Size - 1 /\ Ahead \in 0 .. Size - 1
  BY <1>0, QueuePlaces, MarkPlace
<1>4. \/ UNCHANGED <<handlers, win>>
      \/ Prepared /\ handlers' = "sd" /\ win' = win
      \/ Leave /\ handlers' = "normal" /\ win' = win
      \/ EndDrain
      \/ /\ handlers' = handlers /\ win \in {"out", "got", "wait", "giveup", "xfer", "done", "ending"}
         /\ win' # "final"
  <2> USE DEF vars, stateVars, ringVars, core0Vars, core1Vars, busVars, sdVars, allVars, Win
  <2>1. CASE MainStep
    BY <2>1 DEF MainStep, SaveStart, SaveEnd, Prepare, PrepareRefused, Prepared, Activate,
       WaitCancel, Leave, Back
  <2>2. CASE Exchange
    BY <2>2 DEF Exchange, BeginAcquire, BeginRequest, BeginActive, BeginRefused, BeginTimeout,
       BeginLate, BeginGiveUp, Transfer, EndRelease, EndPhase
  <2>3. CASE UNCHANGED allVars
    BY <2>3
  <2>4. QED
    BY <2>1, <2>2, <2>3
<1>5. CASE EndDrain
  <2>1. /\ dr = "no" /\ dr' = "check" /\ drained' = 0 /\ handlers' = handlers
        /\ win = "endwait" /\ win' \in {"endwait", "final"}
    BY <1>5 DEF EndDrain, Win
  <2>2. Size \in Nat
    BY SizeAssumption
  <2>3. sdReset' => drained' + Ahead' <= Size - 1
    BY <1>r, <1>3, <2>1, <2>2
  <2>4. Marked'
    BY <1>0, <1>1, <1>3, <2>1, <2>3 DEF Marked
  <2>5. video' /\ dr' \in {"alock", "atouch"} => cmd1' = "Reset"
    BY <2>1
  <2>6. QED
    BY <1>2, <2>4, <2>5 DEF QueueInv
<1>6. CASE Leave
  <2>1. ~EndDrain /\ phase = "Ending"
    BY <1>0, <1>6 DEF Leave, Main, EndDrain, Win, Protocol, WindowTypeOK, sdVars
  <2>2. win = "endwait" /\ win' = win
    BY <1>0, <1>6, <2>1 DEF Protocol, WindowTypeOK, Leave
  <2>3. Marked'
    BY <1>0, <1>1, <1>3, <2>1, <2>2 DEF Marked
  <2>4. QED
    BY <1>0, <1>1, <1>2, <2>1, <2>3 DEF QueueInv
<1>7. CASE ~EndDrain /\ ~Leave
  <2>1. Marked'
    BY <1>0, <1>1, <1>3, <1>4, <1>7 DEF Marked
  <2>2. QED
    BY <1>0, <1>1, <1>2, <1>7, <2>1 DEF QueueInv
<1>8. QED
  BY <1>5, <1>6, <1>7

\* ... the SD handlers add commands behind it, ...
LEMMA SdPushed ==
  ASSUME TypeOK, ResetsOnly, ~RingFull, NEW c \in Command, PushSd(c), UNCHANGED <<readIndex, video>>,
         video => c = "Reset" /\ ~fx'.running, pc0' = "idle", pc1' = "top"
  PROVE  ResetsOnly'
  BY SizeAssumption DEF ResetsOnly, PushSd, Queued, RingFull, NextSlot, Slots, TypeOK

LEMMA QueueSd ==
  ASSUME WindowInv, HandoffInv, QueueInv, SdInterrupt \/ SdHandler
  PROVE  QueueInv'
<1>0. /\ WindowTypeOK /\ TypeOK /\ Protocol /\ SdPlaced /\ ResetsOnly /\ RunsOnly /\ Marked
      /\ sdPosition \in Slots /\ Size \in Nat /\ Size >= 2
  BY SizeAssumption DEF WindowInv, WindowTypeOK, QueueInv
<1>1. handlers = "sd" /\ UNCHANGED <<handlers, win, dr, drained, pc0, pc1, cmd1, video, readIndex>>
  <2> USE DEF stateVars, pubVars, ringVars, core0Vars, core1Vars, vars, busVars
  <2>1. CASE SdInterrupt
    <3>1. CASE \E op \in CpuWrites \cup CpuReads : SdAccess(op)
      BY <3>1 DEF SdAccess
    <3>2. CASE SdResetPulse
      <4>1. /\ handlers = "sd" /\ UNCHANGED <<handlers, win, dr, drained>>
            /\ UNCHANGED <<stateVars, core0Vars, core1Vars>> /\ UNCHANGED readIndex
        BY Zenon, <3>2 DEF SdResetPulse
      <4>2. QED
        BY <4>1
    <3>3. QED
      BY <2>1, <3>1, <3>2 DEF SdInterrupt
  <2>2. CASE SdWrite
    <3>1. /\ sd = "write" /\ UNCHANGED <<handlers, win, dr, drained, pc0>>
          /\ UNCHANGED <<stateVars, core1Vars>> /\ UNCHANGED readIndex
      BY Zenon, <2>2 DEF SdWrite, ringVars
    <3>2. QED
      BY <1>0, <3>1 DEF SdPlaced
  <2>5. CASE SdWriteFull \/ SdResetMark
    BY <1>0, <2>5 DEF SdWriteFull, SdResetMark, SdPlaced, sdVars
  <2>3. CASE SdReadLock \/ SdRead
    BY <1>0, <2>3 DEF SdReadLock, SdRead, SdPlaced
  <2>4. QED
    BY <2>1, <2>2, <2>3, <2>5 DEF SdHandler
<1>2. pc0 = "idle" /\ pc1 = "top" /\ win # "final"
  BY <1>0, <1>1, MarkedAway DEF SdPlaced
<1>3. RunsOnly' /\ (video' /\ dr' \in {"alock", "atouch"} => cmd1' = "Reset")
  BY <1>1, <1>2 DEF RunsOnly, QueueInv
<1>4. ASSUME NEW c \in Command, ~RingFull, PushSd(c), video => c = "Reset", fx' = fx,
             UNCHANGED <<sdReset, sdPosition>>, sd' # "mark"
      PROVE  QueueInv'
  <2>1. ResetsOnly'
    BY <1>0, <1>1, <1>2, <1>4, SdPushed DEF ResetsOnly
  <2>2. RingCount' = RingCount + 1 /\ Ahead' = Ahead
    BY <1>0, <1>1, <1>4, PlacesMove DEF PushSd
  <2>3. RingCount \in 0 .. Size - 1 /\ Ahead \in 0 .. Size - 1
    BY <1>0, QueuePlaces, MarkPlace
  <2>4. Marked'
    BY <1>0, <1>1, <1>4, <2>2, <2>3 DEF Marked
  <2>5. QED
    BY <1>3, <2>1, <2>4 DEF QueueInv
<1>5. ASSUME UNCHANGED <<commands, writeIndex, sdReset, sdPosition>>, fx' = fx \/ fx' = ReadSfrHigh(fx),
             sd' = "mark" => ~sdReset
      PROVE  QueueInv'
  <2>1. fx'.running = fx.running
    BY <1>0, <1>5, FxBits DEF TypeOK
  <2>2. ResetsOnly'
    BY <1>0, <1>1, <1>2, <1>5, <2>1, ResetsOnlyKept DEF ResetsOnly
  <2>3. RingCount' = RingCount /\ Ahead' = Ahead
    BY <1>0, <1>1, <1>5, PlacesMove
  <2>4. Marked'
    BY <1>0, <1>1, <1>5, <2>3 DEF Marked
  <2>5. QED
    BY <1>3, <2>2, <2>4 DEF QueueInv
<1>6. CASE SdInterrupt
  <2>1. CASE \E op \in CpuWrites \cup CpuReads : SdAccess(op)
    BY <1>0, <1>5, <2>1 DEF SdAccess, stateVars, ringVars
  <2>2. CASE SdResetPulse /\ RingFull
    BY <1>0, <1>5, <2>2 DEF SdResetPulse, stateVars, ringVars
  <2>3. CASE SdResetPulse /\ ~RingFull
    <3>1. PushSd("Reset") /\ sd' # "mark" /\ fx' = fx /\ UNCHANGED <<sdReset, sdPosition>>
      BY <2>3 DEF SdResetPulse, NoHandler, stateVars
    <3>2. QED
      BY <1>4, <2>3, <3>1 DEF Command
  <2>4. QED
    BY <1>6, <2>1, <2>2, <2>3 DEF SdInterrupt
<1>7. CASE SdWrite
  <2>1. CASE video /\ UNCHANGED <<ringVars, cancelled>>
    BY <1>5, <1>7, <2>1 DEF SdWrite, ringVars, stateVars
  <2>2. CASE ~video /\ ~RingFull /\ PushSd(op0)
    <3>1. op0 \in Command
      BY <1>0, <1>7 DEF SdWrite, SdPlaced, Command
    <3>2. fx' = fx /\ sd' # "mark" /\ UNCHANGED <<sdReset, sdPosition>>
      BY <1>7 DEF SdWrite, stateVars
    <3>3. QED
      BY <1>4, <2>2, <3>1, <3>2
  <2>3. QED
    BY <1>7, <2>1, <2>2 DEF SdWrite
<1>8. CASE SdWriteFull \/ SdReadLock \/ SdRead
  BY <1>0, <1>5, <1>8 DEF SdWriteFull, SdReadLock, SdRead, vars, stateVars, ringVars, sdVars, Marked
<1>9. CASE SdResetMark
  <2>1. /\ sd = "mark" /\ sd' = "idle" /\ sdReset' /\ sdPosition' = writeIndex
        /\ UNCHANGED <<fx, commands, writeIndex>>
    BY <1>9 DEF SdResetMark, vars, stateVars, ringVars
  <2>2. ~sdReset
    BY <1>0, <2>1 DEF Marked
  <2>3. ResetsOnly'
    BY <1>0, <1>1, <1>2, <2>1, ResetsOnlyKept DEF ResetsOnly
  <2>4. Ahead' = RingCount'
    BY <1>1, <2>1 DEF Ahead, RingCount
  <2>5. RingCount' = RingCount /\ RingCount \in 0 .. Size - 1
    BY <1>0, <1>1, <2>1, QueuePlaces DEF RingCount
  <2>6. Marked'
    BY <1>0, <1>1, <1>2, <2>1, <2>2, <2>4, <2>5 DEF Marked
  <2>7. QED
    BY <1>3, <2>3, <2>6 DEF QueueInv
<1>10. QED
  BY <1>6, <1>7, <1>8, <1>9 DEF SdHandler

\* ... and the drains take them from in front of it.
LEMMA QueueDrain ==
  ASSUME WindowInv, HandoffInv, QueueInv, Drain
  PROVE  QueueInv'
<1>0. /\ WindowTypeOK /\ TypeOK /\ Protocol /\ SdPlaced /\ ResetsOnly /\ RunsOnly /\ Marked
      /\ sdPosition \in Slots /\ Size \in Nat /\ Size >= 2
      /\ drained \in 0 .. Size /\ fx \in FxStates
  BY SizeAssumption DEF WindowInv, WindowTypeOK, QueueInv, TypeOK
<1>1. /\ dr # "no" /\ UNCHANGED <<handlers, pc0, pc1, video, sd, sdPosition, commands, writeIndex>>
      /\ ~DrainPop => UNCHANGED <<readIndex, cmd1>>
      /\ ~DrainDone => win' = win
      /\ ~DrainForget => sdReset' = sdReset
      /\ ~DrainPop /\ ~DrainDone => drained' = drained
  <2> USE DEF stateVars, pubVars, ringVars, core0Vars, core1Vars, vars, busVars, Dr
  <2>1. CASE DrainReset \/ DrainLock \/ DrainForget
    BY <2>1 DEF DrainReset, DrainLock, DrainForget
  <2>2. CASE DrainTouch
    BY <2>2 DEF DrainTouch, DrainApply
  <2>3. CASE DrainPop \/ DrainDone
    BY <2>3 DEF DrainPop, DrainDone
  <2>4. QED
    BY <2>1, <2>2, <2>3 DEF Drain
<1>2. win \in {"endwait", "final"} /\ pc1 = "top"
  BY <1>0, <1>1, MarkedAway DEF Protocol
<1>3. RunsOnly'
  BY <1>1, <1>2 DEF RunsOnly
<1>4. RingCount \in 0 .. Size - 1 /\ Ahead \in 0 .. Size - 1
  BY <1>0, QueuePlaces, MarkPlace
<1>5. CASE DrainPop
  <2>1. /\ ~RingEmpty /\ readIndex' = NextSlot(readIndex) /\ cmd1' = commands[readIndex]
        /\ dr = "check" /\ dr' = "alock" /\ drained' = drained + 1 /\ fx' = fx
        /\ ~(sdReset /\ readIndex = sdPosition)
        /\ sdReset' = sdReset /\ win' = win
    BY <1>1, <1>5 DEF DrainPop, Dr, ResetDue, stateVars, busVars
  <2>2. ResetsOnly' /\ (video => cmd1' = "Reset")
    BY <1>0, <1>1, <2>1, SizeAssumption
    DEF ResetsOnly, Queued, RingEmpty, RingFull, NextSlot, Slots, TypeOK
  <2>3. RingCount' = RingCount - 1 /\ (sdReset => Ahead' = Ahead - 1)
    BY <1>0, <1>1, <2>1, PlacesMove
  <2>4. Marked'
    BY <1>0, <1>1, <1>4, <2>1, <2>3 DEF Marked
  <2>5. QED
    BY <1>1, <1>3, <2>2, <2>4 DEF QueueInv
<1>6. CASE ~DrainPop
  <2>1. UNCHANGED <<readIndex, cmd1>> /\ RingCount' = RingCount /\ Ahead' = Ahead
    BY <1>0, <1>1, <1>6, PlacesMove
  <2>2. ASSUME video PROVE ~fx'.running
    <3>1. ~fx.running
      BY <1>0, <2>2 DEF ResetsOnly
    <3>2. CASE DrainTouch
      <4>1. fx' = Apply(fx, "Reset")
        BY <2>2, <3>2 DEF DrainTouch, DrainApply, Dr, QueueInv
      <4>2. QED
        BY <4>1 DEF Apply, ResetFx
    <3>3. CASE ~DrainTouch
      BY <1>6, <3>1, <3>3 DEF Drain, DrainReset, DrainLock, DrainForget, DrainDone, vars, stateVars
    <3>4. QED
      BY <3>2, <3>3
  <2>3. pc0 = "idle" \/ fx' = fx \/ DrainTouch
    BY <1>6 DEF Drain, DrainReset, DrainLock, DrainForget, DrainDone, vars, stateVars
  <2>4. ResetsOnly'
    BY <1>0, <1>1, <2>1, <2>2 DEF ResetsOnly, Queued, RingFull
  <2>5. dr' \in {"alock", "atouch"} => dr = "alock"
    BY <1>6 DEF Drain, DrainReset, DrainLock, DrainTouch, DrainForget, DrainDone, Dr
  <2>6. video' /\ dr' \in {"alock", "atouch"} => cmd1' = "Reset"
    BY <1>1, <2>1, <2>5 DEF QueueInv
  <2>7. Marked'
    <3>1. CASE DrainReset \/ DrainLock \/ DrainTouch
      BY <1>0, <1>1, <1>2, <2>1, <3>1
      DEF Marked, DrainReset, DrainLock, DrainTouch, DrainForget, DrainPop, DrainDone, Dr, ResetDue, sdVars
    <3>2. CASE DrainForget
      BY <1>0, <1>1, <3>2 DEF Marked, DrainForget, Dr
    <3>3. CASE DrainDone
      <4>1. /\ dr' = "no" /\ ~(sdReset /\ readIndex = sdPosition) /\ (drained = Size \/ RingEmpty)
            /\ win' = IF win = "final" THEN "out" ELSE win
            /\ sdReset' = sdReset
        BY <3>3 DEF DrainDone, Dr, ResetDue
      <4>2. ASSUME sdReset, win = "final" PROVE FALSE
        <5>1. Ahead <= RingCount /\ drained + Ahead <= Size - 1 /\ Ahead # 0
          BY <1>0, <1>1, <4>1, <4>2, MarkPlace DEF Marked
        <5>2. RingEmpty <=> RingCount = 0
          BY <1>0, QueuePlaces
        <5>3. QED
          BY <1>0, <1>4, <4>1, <5>1, <5>2
      <4>3. QED
        BY <1>0, <1>1, <1>2, <2>1, <4>1, <4>2 DEF Marked
    <3>4. QED
      BY <1>6, <3>1, <3>2, <3>3 DEF Drain
  <2>8. QED
    BY <1>3, <2>4, <2>6, <2>7 DEF QueueInv
<1>7. QED
  BY <1>5, <1>6

LEMMA InitQueueInv == WindowInit => QueueInv
<1> SUFFICES ASSUME WindowInit PROVE QueueInv
  OBVIOUS
<1>1. ResetsOnly /\ RunsOnly
  BY InitIInv DEF WindowInit, IInv, RunsOnly, Init
<1>2. QED
  BY <1>1 DEF WindowInit, QueueInv, Marked, Init

\* QueueInv is inductive, with the invariants of the window behind it.
THEOREM QueueInvariant == WindowSpec => []QueueInv
<1>1. WindowInv /\ HandoffInv /\ QueueInv /\ [WindowNext]_allVars => QueueInv'
  BY QueueFxSync, QueueQuiet, QueueSd, QueueDrain DEF WindowNext
<1>2. QED
  BY <1>1, InitQueueInv, WindowInvariant, HandoffInvariant, PTL DEF WindowSpec

-----------------------------------------------------------------------------
(* SdWindow implements FxCommandBus: writes and resets keep their order    *)
(* through a window.                                                       *)

Taken == pc1 = "apply" \/ dr \in {"alock", "atouch"}
Remembered == sdReset /\ dr # "rclear"
windowSeen == <<fx, video, WindowBacklog>>

\* The backlog is a sequence of commands.
LEMMA BacklogIs ==
  ASSUME Places
  PROVE  /\ WindowBacklog = IF Taken THEN <<cmd1>> \o Waiting ELSE Waiting
         /\ WindowBacklog \in Seq(Command) /\ Waiting \in Seq(Command)
<1>1. Waiting \in Seq(Command) /\ cmd1 \in Command
  BY WaitingFormed DEF WaitingForm, Places, TypeOK
<1>2. <<cmd1>> \o Waiting \in Seq(Command)
  BY <1>1, ConcatProperties
<1>3. WindowBacklog = IF Taken THEN <<cmd1>> \o Waiting ELSE Waiting
  BY DEF WindowBacklog, Taken
<1>4. QED
  BY <1>1, <1>2, <1>3

\* Without a remembered reset it is the backlog of FxSync.
LEMMA Plainly ==
  ~Remembered /\ dr \notin {"alock", "atouch"} => WindowBacklog = Backlog
  BY DEF WindowBacklog, Backlog, Remembered, Waiting

\* A step that moves neither what is queued nor a reset.
LEMMA BacklogKept ==
  ASSUME Places, Places', Ring' = Ring, UNCHANGED <<readIndex, cmd1, Taken, Remembered>>,
         Remembered => UNCHANGED sdPosition
  PROVE  WindowBacklog' = WindowBacklog
<1>1. WaitingForm /\ WaitingForm'
  BY WaitingFormed, WaitingStaysFormed
<1>3. Remembered => Ahead' = Ahead
  BY DEF Ahead
<1>4. Waiting' = Waiting
  BY <1>1, <1>3 DEF WaitingForm, Remembered
<1>5. QED
  BY <1>4 DEF WindowBacklog, Taken

\* A command that is pushed joins the backlog at the end, behind a reset that
\* is remembered.
LEMMA BacklogPushed ==
  ASSUME Places, Places', ~RingFull, NEW c \in Command,
         UNCHANGED <<readIndex, cmd1, Taken, Remembered>>,
         Remembered => UNCHANGED sdPosition,
         writeIndex' = NextSlot(writeIndex), commands'[writeIndex] = c,
         \A i \in Slots : i # writeIndex => commands'[i] = commands[i]
  PROVE  WindowBacklog' = Append(WindowBacklog, c)
<1>1. WaitingForm /\ WaitingForm'
  BY WaitingFormed, WaitingStaysFormed
<1>2. Ring' = Append(Ring, c)
  BY RingPush DEF Places
<1>3. Ring \in Seq(Command) /\ Len(Ring) = RingCount /\ "Reset" \in Command
  BY RingIsSequence DEF Places, RingSequence, Command
<1>4. Waiting' = Append(Waiting, c)
  <2>1. CASE Remembered
    <3>1. Ahead' = Ahead /\ Ahead \in 0 .. Len(Ring)
      BY <1>3, <2>1, MarkPlace, QueuePlaces, SizeAssumption DEF Ahead, Places, Remembered
    <3>2. SX!InsertAt(Append(Ring, c), Ahead + 1, "Reset") = Append(SX!InsertAt(Ring, Ahead + 1, "Reset"), c)
      BY <1>3, <3>1, InsertBefore
    <3>3. Waiting = SX!InsertAt(Ring, Ahead + 1, "Reset")
      BY <1>1, <2>1 DEF WaitingForm, Remembered
    <3>4. Waiting' = SX!InsertAt(Ring', Ahead' + 1, "Reset")
      BY <1>1, <2>1 DEF WaitingForm, Remembered
    <3>5. QED
      BY <1>2, <3>1, <3>2, <3>3, <3>4
  <2>2. CASE ~Remembered
    BY <1>1, <1>2, <2>2 DEF WaitingForm, Remembered
  <2>3. QED
    BY <2>1, <2>2
<1>5. CASE Taken
  <2>1. cmd1 \in Command /\ Waiting \in Seq(Command)
    BY <1>1 DEF Places, TypeOK, WaitingForm
  <2>2. <<cmd1>> \o Append(Waiting, c) = Append(<<cmd1>> \o Waiting, c)
    BY <2>1, AppendIsConcat, ConcatAssociative, ConcatProperties
  <2>3. QED
    BY <1>4, <1>5, <2>2 DEF WindowBacklog, Taken
<1>6. CASE ~Taken
  BY <1>4, <1>6 DEF WindowBacklog, Taken
<1>7. QED
  BY <1>5, <1>6

\* What the steps of FxSync are to its own bus they are to that of the window.
LEMMA SameBus ==
  ASSUME WindowBacklog = Backlog, WindowBacklog' = Backlog', [Bus_!Next]_seenVars
  PROVE  [WindowBus!Next]_windowSeen
BY DEF Bus_!Next, Bus_!Accept, Bus_!Admitted, Bus_!AcceptAndApply, Bus_!ApplyOldest, Bus_!ClearIrq,
   Bus_!Execute, Bus_!VideoAcquire, Bus_!VideoRelease, seenVars,
   WindowBus!Next, WindowBus!Accept, WindowBus!Admitted, WindowBus!AcceptAndApply,
   WindowBus!ApplyOldest, WindowBus!ClearIrq, WindowBus!Execute, WindowBus!VideoAcquire,
   WindowBus!VideoRelease, windowSeen

LEMMA PlainlyAfter ==
  ~Remembered' /\ dr' \notin {"alock", "atouch"} => WindowBacklog' = Backlog'
  BY DEF WindowBacklog, Backlog, Remembered, Waiting

LEMMA Unseen ==
  ASSUME Places, Places', UNCHANGED <<fx, video, ringVars, cmd1, Taken, Remembered>>,
         Remembered => UNCHANGED sdPosition
  PROVE  UNCHANGED windowSeen
  BY BacklogKept, RingSame DEF windowSeen, ringVars

\* The steps of FxSync: as before outside a window; in the last drain core 0's
\* ordinary handlers only queue commands and read.
LEMMA WindowFxSync ==
  ASSUME WindowInv, HandoffInv, QueueInv, Places, Places',
         NormalInterrupt \/ MainReset \/ NormalHandler \/ Core1 \/ Core1Video
  PROVE  [WindowBus!Next]_windowSeen
<1>0. /\ [Next]_vars /\ OpPlaced /\ Locked /\ TypeOK /\ Handover /\ ResetsOnly /\ RunsOnly
      /\ UNCHANGED <<handlers, win, sd, sdReset, sdPosition, dr, drained>>
  BY FxSyncSteps DEF WindowInv, WindowTypeOK, HandoffInv, QueueInv, busVars, sdVars
<1>1. Base /\ TypeOK'
  BY <1>0 DEF Base, Places
<1>2. UNCHANGED Remembered
  BY <1>0 DEF Remembered
<1>3. ASSUME ~sdReset, dr = "no" PROVE [WindowBus!Next]_windowSeen
  <2>1. WindowBacklog = Backlog /\ WindowBacklog' = Backlog'
    BY <1>0, <1>3, Plainly, PlainlyAfter DEF Remembered
  <2>2. [Bus_!Next]_seenVars
    BY <1>0, <1>1, BusStep
  <2>3. QED
    BY <2>1, <2>2, SameBus
<1>4. CASE Core1 \/ Core1Video
  BY <1>3, <1>4, MarkedAway DEF Core1, Core1Video
<1>5. ASSUME UNCHANGED <<fx, video, ringVars, pc1, cmd1>> PROVE [WindowBus!Next]_windowSeen
  BY <1>0, <1>2, <1>5, Unseen DEF Taken
<1>6. CASE NormalInterrupt \/ MainReset
  BY <1>5, <1>6 DEF NormalInterrupt, MainReset, BusAccess, ConsoleReset, ServiceReset,
     stateVars, ringVars, core1Vars
<1>7. CASE NormalHandler
  <2>1. CASE WriteQueue \/ ResetQueue
    <3>1. PICK c : commands' = [commands EXCEPT ![writeIndex] = c]
      BY <2>1 DEF WriteQueue, ResetQueue
    <3>2. ~RingFull /\ UNCHANGED <<fx, video, writeIndex, readIndex, pc1, cmd1>>
      BY <2>1 DEF WriteQueue, ResetQueue, stateVars, core1Vars
    <3>3. Ring' = Ring
      BY <1>0, <3>1, <3>2, RingFill
    <3>4. WindowBacklog' = WindowBacklog
      BY <1>0, <1>2, <3>2, <3>3, BacklogKept DEF Taken
    <3>5. QED
      BY <3>2, <3>4 DEF windowSeen
  <2>2. CASE WritePush \/ ResetPush
    <3> DEFINE c == commands[writeIndex]
    <3>1. /\ ~RingFull /\ UNCHANGED <<fx, video, commands, readIndex, pc1, cmd1>>
          /\ writeIndex' = NextSlot(writeIndex)
      BY <1>0, <2>2 DEF WritePush, ResetPush, Return0, Exit0, Go0, stateVars, core1Vars, ResetsOnly
    <3>2. c \in Command /\ UNCHANGED Taken
      BY <1>0, <3>1 DEF TypeOK, Taken
    <3>3. WindowBacklog' = Append(WindowBacklog, c)
      BY <1>0, <1>2, <3>1, <3>2, BacklogPushed
    <3>4. video => c = "Reset"
      BY <1>0, <2>2 DEF WritePush, ResetPush, Return0, Exit0, Go0, ResetsOnly
    <3>5. WindowBus!Accept(c)
      BY <3>1, <3>3, <3>4 DEF WindowBus!Accept, WindowBus!Admitted
    <3>6. QED
      BY <3>2, <3>5 DEF WindowBus!Next
  <2>3. CASE WriteApply \/ ResetApply
    <3>1. ~owner
      BY <1>0, <2>3 DEF WriteApply, ResetApply, Return0, Exit0, Go0, ResetAccepted, Core0Direct, Handover
    <3>2. QED
      BY <1>3, <3>1, MarkedAway
  <2>4. CASE ReadApply \/ ReadClear
    <3>1. UNCHANGED <<video, ringVars, pc1, cmd1>> /\ (fx' = fx \/ fx' = ReadSfrHigh(fx))
      BY <2>4 DEF ReadApply, ReadClear, core1Vars
    <3>2. WindowBacklog' = WindowBacklog
      BY <1>0, <1>2, <3>1, BacklogKept, RingSame DEF Taken, ringVars
    <3>3. QED
      BY <3>1, <3>2 DEF WindowBus!Next, WindowBus!ClearIrq, windowSeen
  <2>5. QED
    BY <1>5, <1>7, <2>1, <2>2, <2>3, <2>4, Core0Steps DEF NormalHandler
<1>8. QED
  BY <1>4, <1>6, <1>7

\* The main loop and the exchange do nothing that the SNES sees.
LEMMA WindowQuiet ==
  ASSUME Places, Places', MainStep \/ Exchange \/ UNCHANGED allVars
  PROVE  UNCHANGED windowSeen
<1>1. /\ UNCHANGED <<fx, video, ringVars, pc1, cmd1, sdReset, sdPosition>>
      /\ dr' = dr \/ (dr = "no" /\ dr' = "check")
  <2> USE DEF vars, stateVars, ringVars, core0Vars, core1Vars, sdVars, allVars
  <2>1. CASE Prepared
    BY <2>1 DEF Prepared
  <2>2. CASE MainStep /\ ~Prepared
    BY <2>2 DEF MainStep, SaveStart, SaveEnd, Prepare, PrepareRefused, Activate, WaitCancel,
       Leave, Back
  <2>3. CASE Exchange
    BY <2>3 DEF Exchange, BeginAcquire, BeginRequest, BeginActive, BeginRefused, BeginTimeout,
       BeginLate, BeginGiveUp, Transfer, EndRelease, EndPhase, EndDrain
  <2>4. CASE UNCHANGED allVars
    BY <2>4
  <2>5. QED
    BY <2>1, <2>2, <2>3, <2>4
<1>2. UNCHANGED <<Taken, Remembered>>
  BY <1>1 DEF Taken, Remembered
<1>3. QED
  BY <1>1, <1>2, Unseen

\* A command that an SD handler puts into the ring.
LEMMA SdAccepted ==
  ASSUME Places, Places', ~RingFull, NEW c \in Command, PushSd(c), video => c = "Reset",
         UNCHANGED <<fx, video, readIndex, pc1, cmd1, sdReset, sdPosition, dr>>
  PROVE  WindowBus!Next
<1>1. /\ writeIndex' = NextSlot(writeIndex) /\ commands'[writeIndex] = c
      /\ \A i \in Slots : i # writeIndex => commands'[i] = commands[i]
  BY DEF PushSd, Places, TypeOK
<1>2. UNCHANGED <<Taken, Remembered>>
  BY DEF Taken, Remembered
<1>3. WindowBacklog' = Append(WindowBacklog, c)
  BY <1>1, <1>2, BacklogPushed
<1>4. WindowBus!Accept(c)
  BY <1>3 DEF WindowBus!Accept, WindowBus!Admitted
<1>5. QED
  BY <1>4 DEF WindowBus!Next

\* A reset that finds the ring full takes its place behind what is queued.
LEMMA MarkAccepted ==
  ASSUME WindowInv, HandoffInv, QueueInv, Places, Places', SdResetMark
  PROVE  WindowBus!Accept("Reset")
<1>1. /\ sd = "mark" /\ sdReset' /\ sdPosition' = writeIndex
      /\ UNCHANGED <<fx, video, ringVars, pc1, cmd1, dr>>
  BY DEF SdResetMark, vars, stateVars, core1Vars
<1>2. ~sdReset /\ dr # "rclear"
  BY <1>1 DEF QueueInv, Marked
<1>3. WaitingForm /\ WaitingForm'
  BY WaitingFormed, WaitingStaysFormed
<1>4. Ring' = Ring /\ RingCount' = RingCount
  BY <1>1, RingSame
<1>5. Ring \in Seq(Command) /\ Len(Ring) = RingCount /\ "Reset" \in Command
  BY RingIsSequence DEF Places, RingSequence, Command
<1>6. Ahead' = RingCount
  BY <1>1 DEF Ahead, RingCount, ringVars
<1>7. Waiting = Ring /\ Waiting' = Append(Ring, "Reset")
  <2>1. SX!InsertAt(Ring, Len(Ring) + 1, "Reset") = Append(Ring, "Reset")
    BY <1>5, InsertLast
  <2>2. Waiting' = SX!InsertAt(Ring', Ahead' + 1, "Reset")
    BY <1>1, <1>2, <1>3 DEF WaitingForm
  <2>3. Waiting = Ring
    BY <1>2, <1>3 DEF WaitingForm
  <2>4. QED
    BY <1>4, <1>5, <1>6, <2>1, <2>2, <2>3
<1>8. UNCHANGED Taken
  BY <1>1 DEF Taken
<1>9. WindowBacklog' = Append(WindowBacklog, "Reset")
  <2>1. CASE Taken
    <3>1. cmd1 \in Command /\ Waiting \in Seq(Command)
      BY <1>3 DEF Places, TypeOK, WaitingForm
    <3>2. <<cmd1>> \o Append(Waiting, "Reset") = Append(<<cmd1>> \o Waiting, "Reset")
      BY <1>5, <3>1, AppendIsConcat, ConcatAssociative, ConcatProperties
    <3>3. Waiting' = Append(Waiting, "Reset") /\ cmd1' = cmd1
      BY <1>1, <1>7
    <3>4. QED
      BY <1>8, <2>1, <3>2, <3>3 DEF WindowBacklog, Taken
  <2>2. CASE ~Taken
    BY <1>7, <1>8, <2>2 DEF WindowBacklog, Taken
  <2>3. QED
    BY <2>1, <2>2
<1>10. QED
  BY <1>1, <1>9 DEF WindowBus!Accept, WindowBus!Admitted

\* The SD handlers accept commands, and clear an IRQ.
LEMMA WindowSd ==
  ASSUME WindowInv, HandoffInv, QueueInv, Places, Places', SdInterrupt \/ SdHandler
  PROVE  [WindowBus!Next]_windowSeen
<1>1. ASSUME UNCHANGED <<fx, video, ringVars, pc1, cmd1, sdReset, sdPosition, dr>>
      PROVE  UNCHANGED windowSeen
  BY <1>1, Unseen DEF Taken, Remembered
<1>2. CASE SdInterrupt
  <2>1. CASE \E op \in CpuWrites \cup CpuReads : SdAccess(op)
    BY <1>1, <2>1 DEF SdAccess, stateVars, core1Vars
  <2>2. CASE SdResetPulse /\ RingFull
    BY <1>1, <2>2 DEF SdResetPulse, stateVars, core1Vars
  <2>3. CASE SdResetPulse /\ ~RingFull
    <3>1. PushSd("Reset") /\ ~RingFull /\ "Reset" \in Command
          /\ UNCHANGED <<fx, video, readIndex, pc1, cmd1, sdReset, sdPosition, dr>>
      BY <2>3 DEF SdResetPulse, NoHandler, stateVars, core1Vars, Command
    <3>2. QED
      BY <3>1, SdAccepted
  <2>4. QED
    BY <1>2, <2>1, <2>2, <2>3 DEF SdInterrupt
<1>3. CASE SdWrite
  <2>1. /\ UNCHANGED <<fx, video, pc1, cmd1, sdReset, sdPosition, dr>>
        /\ UNCHANGED ringVars \/ (~video /\ ~RingFull /\ PushSd(op0) /\ UNCHANGED readIndex)
    BY <1>3 DEF SdWrite, stateVars, core1Vars
  <2>2. op0 \in Command
    BY <1>3 DEF SdWrite, WindowInv, SdPlaced, Command
  <2>3. CASE UNCHANGED ringVars
    BY <1>1, <2>1, <2>3
  <2>4. CASE ~video /\ ~RingFull /\ PushSd(op0) /\ UNCHANGED readIndex
    BY <2>1, <2>2, <2>4, SdAccepted
  <2>5. QED
    BY <2>1, <2>3, <2>4
<1>4. CASE SdWriteFull \/ SdReadLock
  BY <1>1, <1>4 DEF SdWriteFull, SdReadLock, vars, stateVars, core1Vars, sdVars
<1>5. CASE SdRead
  <2>1. /\ UNCHANGED <<video, ringVars, cmd1, Taken, Remembered, sdPosition>>
        /\ fx' = fx \/ fx' = ReadSfrHigh(fx)
    BY <1>5 DEF SdRead, core1Vars, Taken, Remembered
  <2>2. WindowBacklog' = WindowBacklog
    BY <2>1, BacklogKept, RingSame DEF ringVars
  <2>3. QED
    BY <2>1, <2>2 DEF WindowBus!Next, WindowBus!ClearIrq, windowSeen
<1>6. CASE SdResetMark
  BY <1>6, MarkAccepted DEF WindowBus!Next, Command
<1>7. QED
  BY <1>2, <1>3, <1>4, <1>5, <1>6 DEF SdHandler

\* A drain applies the oldest command, whether from the ring or remembered.
LEMMA OldestApplied ==
  ASSUME NEW c \in Command, NEW s \in Seq(Command), WindowBacklog = <<c>> \o s,
         WindowBacklog' = s, fx' = Apply(fx, c), UNCHANGED video
  PROVE  WindowBus!Next
<1>1. <<c>> \o s # <<>> /\ Head(<<c>> \o s) = c /\ Tail(<<c>> \o s) = s
  OBVIOUS
<1>2. WindowBus!ApplyOldest
  BY <1>1 DEF WindowBus!ApplyOldest
<1>3. QED
  BY <1>2 DEF WindowBus!Next

\* The command that a drain pops from the ring is the oldest: a reset that is
\* due is taken before it.
LEMMA DrainTakes ==
  ASSUME WindowInv, HandoffInv, QueueInv, Places, Places', DrainPop
  PROVE  UNCHANGED windowSeen
<1>1. /\ ~RingEmpty /\ readIndex' = NextSlot(readIndex) /\ cmd1' = commands[readIndex]
      /\ dr = "check" /\ dr' = "alock"
      /\ ~(sdReset /\ readIndex = sdPosition)
      /\ UNCHANGED <<fx, video, commands, writeIndex, pc1, sdReset, sdPosition>>
  BY DEF DrainPop, Dr, ResetDue, stateVars
<1>2. pc1 = "top"
  BY <1>1, MarkedAway
<1> DEFINE h == commands[readIndex]
<1>3. Ring = <<h>> \o Ring'
  BY <1>1, RingPop DEF Places
<1>4. h \in Command /\ "Reset" \in Command /\ Ring' \in Seq(Command) /\ Len(Ring') = RingCount'
  BY <1>1, RingStaysSequence DEF Places, TypeOK, RingSequence, Command
<1>5. WaitingForm /\ WaitingForm'
  BY WaitingFormed, WaitingStaysFormed
<1>6. Waiting = <<h>> \o Waiting'
  <2>1. CASE sdReset
    <3>1. Ahead \in 0 .. Size - 1 /\ Ahead # 0 /\ Ahead <= RingCount /\ Size \in Nat
      BY <1>1, <2>1, MarkPlace, SizeAssumption DEF Places
    <3>2. RingCount' = RingCount - 1 /\ Ahead' = Ahead - 1
      BY <1>1, <2>1, PlacesMove DEF Places
    <3>3. Ahead' \in 0 .. RingCount' /\ Ahead + 1 = (Ahead' + 1) + 1
      BY <3>1, <3>2, QueuePlaces DEF Places
    <3>4. SX!InsertAt(<<h>> \o Ring', (Ahead' + 1) + 1, "Reset")
            = <<h>> \o SX!InsertAt(Ring', Ahead' + 1, "Reset")
      BY <1>4, <3>3, InsertBehind
    <3>5. Waiting = SX!InsertAt(Ring, Ahead + 1, "Reset")
      BY <1>1, <1>5, <2>1 DEF WaitingForm
    <3>6. Waiting' = SX!InsertAt(Ring', Ahead' + 1, "Reset")
      BY <1>1, <1>5, <2>1 DEF WaitingForm
    <3>7. QED
      BY <1>3, <3>3, <3>4, <3>5, <3>6
  <2>2. CASE ~sdReset
    BY <1>1, <1>3, <1>5, <2>2 DEF WaitingForm
  <2>3. QED
    BY <2>1, <2>2
<1>7. WindowBacklog = Waiting
  BY <1>1, <1>2 DEF WindowBacklog
<1>8. WindowBacklog' = <<h>> \o Waiting'
  BY <1>1 DEF WindowBacklog
<1>9. QED
  BY <1>1, <1>6, <1>7, <1>8 DEF windowSeen

LEMMA WindowDrain ==
  ASSUME WindowInv, HandoffInv, QueueInv, Places, Places', Drain
  PROVE  [WindowBus!Next]_windowSeen
<1>1. WaitingForm /\ WaitingForm'
  BY WaitingFormed, WaitingStaysFormed
<1>2. dr # "no" /\ pc1 = "top" /\ (dr \in {"rlock", "rtouch", "rclear"} => sdReset /\ Ahead = 0)
  <2>1. dr # "no"
    BY DEF Drain, DrainReset, DrainLock, DrainTouch, DrainForget, DrainPop, DrainDone, Dr
  <2>2. QED
    BY <2>1, MarkedAway, MarkPlace DEF QueueInv, Marked, Places
<1>3. CASE DrainReset \/ DrainLock \/ DrainDone
  <2>1. /\ UNCHANGED <<fx, video, ringVars, pc1, cmd1, sdReset, sdPosition>>
        /\ \/ dr = "check" /\ dr' \in {"rlock", "no"}
           \/ dr = "rlock" /\ dr' = "rtouch"
           \/ dr = "alock" /\ dr' = "atouch"
    BY <1>3 DEF DrainReset, DrainLock, DrainDone, Dr, vars, stateVars, core1Vars
  <2>2. UNCHANGED <<Taken, Remembered>>
    BY <2>1 DEF Taken, Remembered
  <2>3. QED
    BY <2>1, <2>2, Unseen
<1>4. CASE DrainForget
  <2>1. /\ UNCHANGED <<fx, video, ringVars, pc1, cmd1, sdPosition>>
        /\ dr = "rclear" /\ dr' = "check" /\ ~sdReset'
    BY <1>4 DEF DrainForget, Dr, vars, stateVars, core1Vars
  <2>2. UNCHANGED <<Taken, Remembered>>
    BY <2>1 DEF Taken, Remembered
  <2>3. QED
    BY <2>1, <2>2, Unseen
<1>5. ASSUME Dr("rtouch", "rclear"), DrainApply("Reset") PROVE WindowBus!Next
  <2>1. /\ dr = "rtouch" /\ dr' = "rclear" /\ fx' = Apply(fx, "Reset")
        /\ UNCHANGED <<video, ringVars, pc1>>
    BY <1>5 DEF Dr, DrainApply, core1Vars
  <2>2. Ring \in Seq(Command) /\ "Reset" \in Command /\ Ring' = Ring
    BY <2>1, RingIsSequence, RingSame DEF Places, RingSequence, Command
  <2>3. Waiting = <<"Reset">> \o Ring
    <3>1. Waiting = SX!InsertAt(Ring, Ahead + 1, "Reset") /\ Ahead + 1 = 1
      BY <1>1, <1>2, <2>1 DEF WaitingForm
    <3>2. QED
      BY <2>2, <3>1, InsertFirst
  <2>4. Waiting' = Ring
    BY <1>1, <2>1, <2>2 DEF WaitingForm
  <2>5. WindowBacklog = <<"Reset">> \o Ring /\ WindowBacklog' = Ring
    BY <1>2, <2>1, <2>3, <2>4 DEF WindowBacklog
  <2>6. QED
    BY <2>1, <2>2, <2>5, OldestApplied
<1>6. ASSUME Dr("atouch", "check"), DrainApply(cmd1) PROVE WindowBus!Next
  <2>1. /\ dr = "atouch" /\ dr' = "check" /\ fx' = Apply(fx, cmd1)
        /\ UNCHANGED <<video, ringVars, pc1, sdReset, sdPosition>>
    BY <1>6 DEF Dr, DrainApply, core1Vars
  <2>2. Waiting \in Seq(Command) /\ cmd1 \in Command /\ Ring' = Ring
    BY <1>1, <2>1, RingSame DEF Places, TypeOK, WaitingForm
  <2>3. Waiting' = Waiting
    <3>1. Ahead' = Ahead
      BY <2>1 DEF Ahead, ringVars
    <3>2. QED
      BY <1>1, <2>1, <2>2, <3>1 DEF WaitingForm
  <2>4. WindowBacklog = <<cmd1>> \o Waiting /\ WindowBacklog' = Waiting
    BY <1>2, <2>1, <2>3 DEF WindowBacklog
  <2>5. QED
    BY <2>1, <2>2, <2>4, OldestApplied
<1>7. CASE DrainPop
  BY <1>7, DrainTakes
<1>8. QED
  BY <1>3, <1>4, <1>5, <1>6, <1>7 DEF Drain, DrainTouch

\* One step in a window is one step of the bus, or none.
LEMMA WindowBusStep ==
  WindowInv /\ HandoffInv /\ QueueInv /\ WindowInv' /\ QueueInv' /\ HandoffInv'
    /\ [WindowNext]_allVars
  => [WindowBus!Next]_windowSeen
<1>1. WindowInv /\ HandoffInv /\ QueueInv => Places
  BY MarkedAway
<1>2. WindowInv' /\ HandoffInv' /\ QueueInv' => Places'
  BY <1>1, PTL
<1>3. QED
  BY <1>1, <1>2, WindowFxSync, WindowQuiet, WindowSd, WindowDrain DEF WindowNext

LEMMA WindowBusInit == WindowInit => WindowBus!Init
<1> SUFFICES ASSUME WindowInit PROVE WindowBus!Init
  OBVIOUS
<1>1. fx = ResetFx /\ video = FALSE /\ RingEmpty /\ TypeOK /\ pc1 = "top" /\ dr = "no" /\ ~sdReset
  BY InitIInv DEF WindowInit, Init, IInv, RingEmpty
<1>2. Ring = <<>>
  BY <1>1, RingIsSequence DEF RingSequence
<1>3. WindowBacklog = <<>>
  BY <1>1, <1>2 DEF WindowBacklog, Waiting
<1>4. QED
  BY <1>1, <1>3 DEF WindowBus!Init

\* Register writes and resets keep their order through a window, whichever of
\* core 0's two sets of handlers takes them (fx_sync.cpp), and whether a reset
\* found room in the ring or was remembered: SdWindow implements FxCommandBus.
THEOREM WindowInOrder == WindowSpec => OrderedThroughWindow
  BY WindowBusInit, WindowBusStep, WindowInvariant, HandoffInvariant, QueueInvariant, PTL
  DEF WindowSpec, OrderedThroughWindow, WindowBus!Spec, windowSeen
=============================================================================
