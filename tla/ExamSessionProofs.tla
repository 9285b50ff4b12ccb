------------------------- MODULE ExamSessionProofs -------------------------
(***************************************************************************)
(* Proofs about the exam mode, when neither the computer replaces an exam  *)
(* by another one nor the home key interrupts setExamMode; what the flash  *)
(* holds of it, in any case.                                               *)
(***************************************************************************)
EXTENDS ExamSession, TLAPS

-----------------------------------------------------------------------------
(* The invariant, by what the program is doing *)

Mode == {raw \in Raw : ~IsUninitialized(raw)}
Writes == [entry : {Exam}, data : Raw, moving : BOOLEAN]
Empty == visible = {} /\ hidden = {} /\ earlier = {}

\* Where there is no write, where there may be one, and of what.
WritingOK ==
  /\ call.at = "off" <=> writing = Unpowered
  /\ writing \in Writes =>
       \/ call.at = "writing" /\ writing.data = call.target
       \/ call.at = "boot" /\ clearance # "ThirdParty" /\ writing.data = Off
       \/ call.at = "dfu" /\ clearance = "NumWorksAndThirdPartyApps" /\ writing.data = Off

BootOK ==
  call.at \in {"off", "boot"} => Empty /\ ~led /\ popUp = NoPopUp

RunOK ==
  call.at = "run" =>
    /\ Empty /\ popUp = NoPopUp
    /\ ~manager.force
    /\ manager.mode = IF clearance = "ThirdParty" THEN Off ELSE Bytes
    /\ IsActive(manager.mode) => clearance = "NumWorks"
    /\ led = HasColor(manager.mode)

\* Between two modes: what was in force, and what that was on the user's records.
Held(mode) ==
  /\ ~IsActive(mode) => hidden = {} /\ earlier = {}
  /\ IsActive(mode) => visible \cap earlier = {}

LoopOK ==
  call.at = "loop" =>
    /\ ~manager.force
    /\ manager.mode = IF clearance = "ThirdParty" THEN Off ELSE Bytes
    /\ IsActive(manager.mode) => clearance = "NumWorks"
    /\ led = HasColor(manager.mode)
    /\ Held(manager.mode)
    /\ popUp # NoPopUp =>
         IF IsActive(manager.mode) THEN popUp \in {Off, manager.mode} ELSE popUp \in Configuration \ {Off}

DfuOK ==
  call.at \in {"dfu", "reload"} =>
    /\ call.previous \in Mode
    /\ Held(call.previous)
    /\ popUp # NoPopUp => popUp = Off /\ IsActive(call.previous)
    /\ IF IsActive(call.previous) THEN manager.mode \in {Off, call.previous}
                                  ELSE manager.mode \in Configuration
    /\ manager.force => IsActive(manager.mode)
    /\ clearance = "NumWorks" => Bytes = call.previous /\ led = HasColor(call.previous)
    /\ clearance = "NumWorksAndThirdPartyApps" =>
         /\ Bytes \in {call.previous, Off}
         /\ call.at = "reload" => Bytes = Off
    /\ clearance = "ThirdParty" => ~IsActive(call.previous)
    /\ ~IsActive(call.previous) => ~led

\* The four ways to call setExamMode: at boot, to begin an exam, to begin it again,
\* and to end it.
CallOK ==
  call.at \in {"set", "bytes", "writing", "records"} =>
    \/ /\ call.previous = Uninitialized /\ call.target \in Mode /\ IsActive(call.target)
       /\ Empty /\ clearance = "NumWorks" /\ led = HasColor(call.target)
    \/ /\ call.previous = Off /\ call.target \in Configuration /\ IsActive(call.target)
       /\ hidden = {} /\ earlier = IF call.at = "set" THEN {} ELSE visible
       /\ led <=> call.at = "records" /\ HasColor(call.target)
    \/ /\ call.previous = call.target /\ call.target \in Mode /\ IsActive(call.target)
       /\ visible \cap earlier = {} /\ clearance = "NumWorks" /\ led = HasColor(call.target)
    \/ /\ call.previous \in Mode /\ IsActive(call.previous) /\ call.target = Off
       /\ clearance # "ThirdParty" /\ (call.at = "records" => ~led)

\* How far setExamMode has come.
ProgressOK ==
  /\ call.at \in {"bytes", "writing", "records"} =>
       manager = [mode |-> call.target, force |-> FALSE] /\ popUp = NoPopUp
  /\ call.at \in {"writing", "records"} => clearance # "ThirdParty"
  /\ call.at = "writing" /\ writing = NoWrite => Bytes = call.target
  /\ call.at = "records" =>
       Bytes = call.target /\ (IsActive(call.target) => clearance = "NumWorks")

IInv ==
  /\ TypeOK /\ WritingOK /\ BootOK /\ RunOK /\ LoopOK /\ DfuOK /\ CallOK /\ ProgressOK

-----------------------------------------------------------------------------
(* The registers and the configurations *)

LEMMA Modes ==
  /\ Off \in Mode /\ Configuration \subseteq Mode
  /\ Uninitialized \in Raw \ Mode /\ IsActive(Uninitialized)
  /\ NoPopUp \in Raw \ Mode
<1>1. Off \in Mode
  BY ExamAssumption DEF Off, Mode, Raw, Bit, IsUninitialized
<1>2. ASSUME NEW raw \in Preset PROVE raw \in Mode
  BY ExamAssumption DEF Mode, Raw, Bit, IsUninitialized
<1>3. ASSUME NEW flags \in SUBSET DataBit PROVE {Configurable} \cup flags \in Mode
  BY ExamAssumption DEF Mode, Raw, Bit, IsUninitialized
<1>4. Uninitialized \in Raw \ Mode /\ IsActive(Uninitialized)
  BY ExamAssumption DEF Mode, Raw, Bit, IsUninitialized, IsActive, Off
<1>5. NoPopUp \in Raw \ Mode
  BY DEF Mode, Raw, Bit, IsUninitialized, NoPopUp
<1> QED
  BY <1>1, <1>2, <1>3, <1>4, <1>5 DEF Configuration

LEMMA Started ==
  ASSUME TypeOK, writing = NoWrite, NEW d \in Raw, Registers!Start(Exam, d)
  PROVE  register' = register /\ writing' \in Writes /\ writing'.data = d
  BY ExamAssumption DEF TypeOK, Registers!Start, Registers!Completed, Registers!Writes, Writes, Raw

LEMMA Moved ==
  ASSUME TypeOK, Registers!Move
  PROVE  /\ writing \in Writes /\ writing' \in Writes
         /\ register' \in [{Exam} -> Raw] /\ Bytes' = writing.data
         /\ writing'.data = writing.data
  BY ExamAssumption DEF TypeOK, Registers!Move, Registers!Completed, Registers!Writes, Writes, Raw, Bytes

LEMMA Finished ==
  ASSUME TypeOK, Registers!Finish
  PROVE  /\ writing \in Writes /\ writing' = NoWrite
         /\ register' \in [{Exam} -> Raw] /\ Bytes' = writing.data
  BY ExamAssumption DEF TypeOK, Registers!Finish, Registers!Completed, Registers!Writes, Writes, Raw, Bytes

LEMMA WasReset ==
  ASSUME TypeOK, Registers!Reset
  PROVE  /\ register' \in [{Exam} -> Raw] /\ writing' = Unpowered
         /\ writing = NoWrite => register' = register
<1>1. CASE writing = NoWrite
  BY <1>1, ExamAssumption DEF TypeOK, Registers!Reset, Registers!Writes, Raw
<1>2. CASE writing \in Registers!Writes
  BY <1>2, ExamAssumption DEF TypeOK, Registers!Reset, Registers!Writes, Raw
<1> QED
  BY <1>1, <1>2 DEF Registers!Reset

LEMMA NotWriting ==
  ASSUME TypeOK, WritingOK, call.at \notin {"off", "boot", "dfu", "writing"}
  PROVE  writing = NoWrite
  BY DEF TypeOK, WritingOK, Writes

-----------------------------------------------------------------------------
(* Every step keeps the invariant *)

Quiet == ~HostSwitches /\ ~HomeJumps

CallType == [at : Steps, target : Raw, previous : Raw]
ManagerType == [mode : Mode, force : BOOLEAN]

LEMMA Went ==
  ASSUME call \in CallType, NEW step \in Steps, Goto(step)
  PROVE  /\ call' \in CallType
         /\ call'.at = step /\ call'.target = call.target /\ call'.previous = call.previous
  BY DEF CallType, Goto

LEMMA SetUp ==
  ASSUME NEW target \in Raw, NEW previous \in Raw, SetExamMode(target, previous)
  PROVE  /\ call' \in CallType
         /\ call'.at = "set" /\ call'.target = target /\ call'.previous = previous
  BY DEF CallType, SetExamMode, Steps

LEMMA Managed ==
  ASSUME NEW m \in Mode, manager' = [mode |-> m, force |-> FALSE]
  PROVE  /\ manager' \in ManagerType
         /\ manager'.mode = m /\ ~manager'.force
  BY DEF ManagerType

LEMMA Types ==
  TypeOK <=>
    /\ register \in [{Exam} -> Raw]
    /\ writing \in Writes \cup {NoWrite, Unpowered}
    /\ clearance \in {"NumWorks", "NumWorksAndThirdPartyApps", "ThirdParty"}
    /\ manager \in ManagerType
    /\ visible \subseteq File /\ hidden \subseteq File /\ earlier \subseteq File
    /\ led \in BOOLEAN
    /\ popUp \in Raw
    /\ call \in CallType
    /\ resets \in 0..MaxResets
  BY DEF TypeOK, Writes, Mode, ManagerType, CallType

LEMMA TypesNext ==
  TypeOK' <=>
    /\ register' \in [{Exam} -> Raw]
    /\ writing' \in Writes \cup {NoWrite, Unpowered}
    /\ clearance' \in {"NumWorks", "NumWorksAndThirdPartyApps", "ThirdParty"}
    /\ manager' \in ManagerType
    /\ visible' \subseteq File /\ hidden' \subseteq File /\ earlier' \subseteq File
    /\ led' \in BOOLEAN
    /\ popUp' \in Raw
    /\ call' \in CallType
    /\ resets' \in 0..MaxResets
  BY DEF TypeOK, Writes, Mode, ManagerType, CallType

LEMMA Colors ==
  /\ ~HasColor(Off) /\ ~HasColor(Off)'
  /\ \A raw : HasColor(raw) \in BOOLEAN /\ (HasColor(raw) => IsActive(raw))
  BY ExamAssumption DEF HasColor, IsActive

LEMMA BootKeeps ==
  ASSUME IInv, Boot PROVE IInv'
<1> USE DEF IInv
<1>1. /\ call' \in CallType /\ call'.at = "run"
      /\ UNCHANGED <<register, writing, clearance, visible, hidden, popUp, earlier, resets>>
  BY Types, Went DEF Boot, Steps
<1>2. /\ GetValue \in Mode
      /\ GetValue = IF clearance = "ThirdParty" THEN Off ELSE Bytes
      /\ IsActive(GetValue) => clearance = "NumWorks"
  BY Types, Modes DEF Boot, GetValue, GetRepairs, Bytes, Mode, IsActive
<1>3. manager' \in ManagerType /\ manager'.mode = GetValue /\ ~manager'.force
  BY <1>2, Managed DEF Boot
<1>4. led' = HasColor(GetValue)
  <2>1. call.at = "boot" /\ ~led
    BY DEF Boot, BootOK
  <2>2. CASE clearance = "ThirdParty"
    BY <1>2, <2>1, <2>2, Colors, Types DEF Boot
  <2>3. CASE clearance # "ThirdParty"
    BY <1>2, <2>1, <2>3, Colors, Types DEF Boot, Led
  <2> QED
    BY <2>2, <2>3
<1>5. TypeOK'
  BY <1>1, <1>3, <1>4, Types, TypesNext, Colors
<1>6. WritingOK'
  BY <1>1, ExamAssumption, Types DEF WritingOK, Boot, Writes
<1>7. (BootOK /\ RunOK)'
  BY <1>1, <1>2, <1>3, <1>4 DEF BootOK, RunOK, Boot, Empty, Bytes, IsActive, HasColor
<1> QED
  BY <1>1, <1>5, <1>6, <1>7 DEF LoopOK, DfuOK, CallOK, ProgressOK

LEMMA RecordsKeeps ==
  ASSUME IInv, Records PROVE IInv'
<1> USE DEF IInv
<1>1. /\ call' \in CallType /\ call'.at = "loop"
      /\ UNCHANGED <<register, writing, clearance, manager, led, popUp, resets>>
      /\ earlier' = IF IsActive(call.target) THEN earlier ELSE {}
  BY Types, Went DEF Records, Steps
<1>2. /\ visible' \subseteq File /\ hidden' \subseteq File
      /\ IsActive(call.target) => visible' = {}
      /\ ~IsActive(call.target) => hidden' = {}
  BY Types DEF Records, Disable, Restore, CallOK, IsActive
<1>3. TypeOK'
  BY <1>1, <1>2, Types, TypesNext
<1>4. WritingOK'
  BY <1>1, ExamAssumption, Types DEF WritingOK, Records, Writes
<1>5. manager.mode = call.target /\ ~manager.force /\ popUp = NoPopUp
  BY DEF Records, ProgressOK
<1>6. led = HasColor(call.target)
  BY ExamAssumption, Types DEF Records, CallOK, HasColor, IsActive
<1>7. LoopOK'
  BY <1>1, <1>2, <1>5, <1>6 DEF LoopOK, Held, Records, ProgressOK, Bytes, IsActive, HasColor
<1> QED
  BY <1>1, <1>3, <1>4, <1>7 DEF BootOK, RunOK, DfuOK, CallOK, ProgressOK

LEMMA PowerOffKeeps ==
  ASSUME IInv, PowerOff, resets' \in 0..MaxResets,
         clearance' \in {"NumWorks", "NumWorksAndThirdPartyApps", "ThirdParty"}
  PROVE  IInv'
<1> USE DEF IInv
<1>1. call' \in CallType /\ call'.at = "off"
  BY Types, Went DEF PowerOff, Steps
<1>2. register' \in [{Exam} -> Raw] /\ writing' = Unpowered
  BY WasReset DEF PowerOff
<1>3. manager' \in ManagerType
  BY Modes, Managed DEF PowerOff
<1>4. visible' = {} /\ hidden' = {} /\ earlier' = {} /\ ~led' /\ led' \in BOOLEAN /\ popUp' = NoPopUp
  BY DEF PowerOff
<1>5. TypeOK'
  BY <1>1, <1>2, <1>3, <1>4, Modes, TypesNext
<1>6. (WritingOK /\ BootOK)'
  BY <1>1, <1>2, <1>4, ExamAssumption DEF WritingOK, BootOK, Empty, Writes
<1> QED
  BY <1>1, <1>5, <1>6 DEF RunOK, LoopOK, DfuOK, CallOK, ProgressOK

LEMMA ResetButtonKeeps ==
  ASSUME IInv, ResetButton PROVE IInv'
<1>1. resets' \in 0..MaxResets
  BY ExamAssumption, Types DEF ResetButton, IInv
<1> QED
  BY <1>1, PowerOffKeeps DEF ResetButton

LEMMA CoreResetKeeps ==
  ASSUME IInv, CoreReset PROVE IInv'
  BY PowerOffKeeps, Types DEF CoreReset, IInv

LEMMA PowerOnKeeps ==
  ASSUME IInv, PowerOn PROVE IInv'
<1> USE DEF IInv
<1>1. /\ call' \in CallType /\ call'.at = "boot" /\ call.at = "off"
      /\ UNCHANGED <<register, clearance, manager, visible, hidden, led, popUp, earlier, resets>>
      /\ writing' = NoWrite
  BY Types, Went DEF PowerOn, Registers!Restart, Steps
<1>2. TypeOK'
  BY <1>1, Types, TypesNext
<1>3. (WritingOK /\ BootOK)'
  BY <1>1, ExamAssumption DEF WritingOK, BootOK, Empty, Writes
<1> QED
  BY <1>1, <1>2, <1>3 DEF RunOK, LoopOK, DfuOK, CallOK, ProgressOK

LEMMA RepairKeeps ==
  ASSUME IInv, Repair PROVE IInv'
<1> USE DEF IInv
<1>1. UNCHANGED <<clearance, manager, visible, hidden, led, popUp, call, earlier, resets>>
  BY DEF Repair
<1>2. register' = register /\ writing' \in Writes /\ writing'.data = Off
  BY Started, Modes DEF Repair, Mode
<1>3. TypeOK'
  BY <1>1, <1>2, Types, TypesNext
<1>4. call.at = "dfu" => clearance = "NumWorksAndThirdPartyApps"
  BY Types DEF Repair, GetRepairs, DfuOK, Bytes, Mode
<1>5. WritingOK'
  BY <1>1, <1>2, <1>4, ExamAssumption DEF Repair, GetRepairs, WritingOK, Writes
<1>6. (BootOK /\ RunOK /\ LoopOK)'
  BY <1>1, <1>2 DEF BootOK, RunOK, LoopOK, Empty, Held, Bytes, Repair
<1>7. (DfuOK /\ CallOK /\ ProgressOK)'
  BY <1>1, <1>2 DEF DfuOK, CallOK, ProgressOK, Empty, Held, Bytes, Repair
<1> QED
  BY <1>3, <1>5, <1>6, <1>7

LEMMA RepairedKeeps ==
  ASSUME IInv, Repaired PROVE IInv'
<1> USE DEF IInv
<1>1. /\ UNCHANGED <<manager, visible, hidden, popUp, call, earlier, resets>>
      /\ call.at \in {"boot", "dfu"}
      /\ ~led' /\ led' \in BOOLEAN
  BY DEF Repaired
<1>2. /\ writing \in Writes /\ writing' = NoWrite
      /\ register' \in [{Exam} -> Raw] /\ Bytes' = Off
  BY Finished DEF Repaired, WritingOK
<1>3. /\ clearance # "ThirdParty"
      /\ clearance' \in {"NumWorks", "NumWorksAndThirdPartyApps"}
      /\ call.at = "dfu" => clearance' = "NumWorksAndThirdPartyApps"
  BY <1>1, <1>2, Types DEF Repaired, ClearanceWithApps, WritingOK
<1>4. TypeOK'
  BY <1>1, <1>2, <1>3, Types, TypesNext
<1>5. WritingOK'
  BY <1>1, <1>2, ExamAssumption DEF WritingOK, Writes
<1>6. (BootOK /\ DfuOK)'
  BY <1>1, <1>2, <1>3 DEF BootOK, DfuOK, Empty, Held
<1> QED
  BY <1>1, <1>4, <1>5, <1>6 DEF RunOK, LoopOK, CallOK, ProgressOK

LEMMA RunKeeps ==
  ASSUME IInv, Run PROVE IInv'
<1> USE DEF IInv
<1>1. /\ UNCHANGED <<register, writing, clearance, manager, visible, hidden, led, popUp, earlier, resets>>
      /\ call.at = "run"
  BY DEF Run
<1>2. CASE IsActive(manager.mode)
  <2>1. manager.mode \in Mode /\ manager.mode \in Raw
    BY Types DEF ManagerType, Mode
  <2>2. call' \in CallType /\ call'.at = "set" /\ call'.target = manager.mode /\ call'.previous = Uninitialized
    BY <1>2, <2>1, Modes, SetUp DEF Run
  <2>3. TypeOK'
    BY <1>1, <2>2, Types, TypesNext
  <2>4. WritingOK'
    BY <1>1, <2>2, ExamAssumption, Types DEF WritingOK
  <2>5. CallOK'
    BY <1>1, <1>2, <2>1, <2>2 DEF CallOK, RunOK, Empty, IsActive, HasColor
  <2> QED
    BY <1>1, <2>2, <2>3, <2>4, <2>5 DEF BootOK, RunOK, LoopOK, DfuOK, ProgressOK
<1>3. CASE ~IsActive(manager.mode)
  <2>1. call' \in CallType /\ call'.at = "loop"
    BY <1>3, Types, Went DEF Run, Steps
  <2>2. TypeOK'
    BY <1>1, <2>1, Types, TypesNext
  <2>3. WritingOK'
    BY <1>1, <2>1, ExamAssumption, Types DEF WritingOK
  <2>4. LoopOK'
    BY <1>1, <1>3, <2>1 DEF RunOK, LoopOK, Held, Empty, IsActive, HasColor, Bytes
  <2> QED
    BY <1>1, <2>1, <2>2, <2>3, <2>4 DEF BootOK, RunOK, CallOK, DfuOK, ProgressOK
<1> QED
  BY <1>2, <1>3

LEMMA SetManagerKeeps ==
  ASSUME IInv, SetManager PROVE IInv'
<1> USE DEF IInv
<1>1. /\ UNCHANGED <<register, writing, clearance, visible, hidden, led, resets>>
      /\ call.at = "set" /\ popUp' = NoPopUp
      /\ earlier' = IF IsActive(call.target) /\ ~IsActive(call.previous) THEN visible ELSE earlier
  BY DEF SetManager
<1>2. /\ call' \in CallType /\ call'.at = "bytes"
      /\ call'.target = call.target /\ call'.previous = call.previous
  BY Types, Went DEF SetManager, Steps
<1>3. call.target \in Mode
  BY <1>1, Modes DEF CallOK
<1>4. manager' \in ManagerType /\ manager' = [mode |-> call.target, force |-> FALSE]
  BY <1>3, Managed DEF SetManager
<1>5. TypeOK'
  BY <1>1, <1>2, <1>4, Modes, Types, TypesNext
<1>6. WritingOK'
  BY <1>1, <1>2, ExamAssumption, Types DEF WritingOK
<1>7. CallOK'
  BY <1>1, <1>2, Modes DEF CallOK, Empty, IsActive, HasColor
<1>8. ProgressOK'
  BY <1>1, <1>2, <1>4 DEF ProgressOK
<1> QED
  BY <1>2, <1>5, <1>6, <1>7, <1>8 DEF BootOK, RunOK, LoopOK, DfuOK

LEMMA SetWithoutBytesKeeps ==
  ASSUME IInv, SetWithoutBytes PROVE IInv'
<1>1. IsActive(call.target)
  BY Modes DEF IInv, SetWithoutBytes, CallOK, Mode
<1> QED
  BY <1>1, CoreResetKeeps DEF SetWithoutBytes

LEMMA SetBytesKeeps ==
  ASSUME IInv, SetBytes PROVE IInv'
<1> USE DEF IInv
<1>1. /\ UNCHANGED <<clearance, manager, visible, hidden, led, popUp, earlier, resets>>
      /\ call.at = "bytes" /\ clearance # "ThirdParty"
  BY DEF SetBytes
<1>2. /\ call' \in CallType /\ call'.at = "writing"
      /\ call'.target = call.target /\ call'.previous = call.previous
  BY Types, Went DEF SetBytes, Steps
<1>3. register' = register /\ writing' \in Writes /\ writing'.data = call.target
  <2>1. writing = NoWrite /\ call.target \in Raw
    BY <1>1, NotWriting, Types DEF CallType
  <2> QED
    BY <2>1, Started DEF SetBytes
<1>4. TypeOK'
  BY <1>1, <1>2, <1>3, Types, TypesNext
<1>5. WritingOK'
  BY <1>1, <1>2, <1>3, ExamAssumption DEF WritingOK, Writes
<1>6. CallOK'
  BY <1>1, <1>2 DEF CallOK, Empty, IsActive, HasColor
<1>7. ProgressOK'
  BY <1>1, <1>2, <1>3, ExamAssumption DEF ProgressOK, Writes
<1> QED
  BY <1>2, <1>4, <1>5, <1>6, <1>7 DEF BootOK, RunOK, LoopOK, DfuOK

LEMMA MoveBytesKeeps ==
  ASSUME IInv, MoveBytes PROVE IInv'
<1> USE DEF IInv
<1>1. UNCHANGED <<clearance, manager, visible, hidden, led, popUp, call, earlier, resets>>
  BY DEF MoveBytes
<1>2. /\ writing \in Writes /\ writing' \in Writes
      /\ register' \in [{Exam} -> Raw] /\ Bytes' = writing.data
      /\ writing'.data = writing.data
  BY Moved DEF MoveBytes
<1>3. TypeOK'
  BY <1>1, <1>2, Types, TypesNext
<1>4. WritingOK' /\ call.at \in {"writing", "boot", "dfu"}
  BY <1>1, <1>2, ExamAssumption DEF WritingOK, Writes
<1>5. (BootOK /\ RunOK /\ LoopOK)'
  BY <1>1, <1>4 DEF BootOK, RunOK, LoopOK, Empty
<1>6. DfuOK'
  BY <1>1, <1>2, <1>4 DEF DfuOK, Held, WritingOK
<1>7. (CallOK /\ ProgressOK)'
  BY <1>1, <1>2, <1>4, ExamAssumption DEF CallOK, ProgressOK, Empty, Writes
<1> QED
  BY <1>3, <1>4, <1>5, <1>6, <1>7

LEMMA BytesSetKeeps ==
  ASSUME IInv, BytesSet PROVE IInv'
<1> USE DEF IInv
<1>1. /\ UNCHANGED <<clearance, manager, visible, hidden, led, popUp, call, earlier, resets>>
      /\ call.at = "writing"
  BY DEF BytesSet
<1>2. /\ writing \in Writes /\ writing' = NoWrite
      /\ register' \in [{Exam} -> Raw] /\ Bytes' = writing.data
  BY Finished DEF BytesSet
<1>3. Bytes' = call.target
  BY <1>1, <1>2 DEF WritingOK
<1>4. TypeOK'
  BY <1>1, <1>2, Types, TypesNext
<1>5. WritingOK'
  BY <1>1, <1>2, ExamAssumption DEF WritingOK, Writes
<1>6. (CallOK /\ ProgressOK)'
  BY <1>1, <1>3 DEF CallOK, ProgressOK, Empty
<1> QED
  BY <1>1, <1>4, <1>5, <1>6 DEF BootOK, RunOK, LoopOK, DfuOK

LEMMA ShowLedKeeps ==
  ASSUME IInv, ShowLed PROVE IInv'
<1> USE DEF IInv
<1>1. /\ UNCHANGED <<register, writing, manager, visible, hidden, popUp, earlier, resets>>
      /\ call.at = "writing" /\ writing = NoWrite /\ ~NeedsOfficialFirmware
  BY DEF ShowLed
<1>2. /\ call' \in CallType /\ call'.at = "records"
      /\ call'.target = call.target /\ call'.previous = call.previous
  BY Types, Went DEF ShowLed, Steps
<1>3. /\ clearance' \in {"NumWorks", "NumWorksAndThirdPartyApps"}
      /\ IsActive(call.target) => clearance' = "NumWorks" /\ clearance = "NumWorks"
  BY <1>1, Types DEF ShowLed, ClearanceWithApps, NeedsOfficialFirmware, ProgressOK
<1>4. led' \in BOOLEAN /\ (led' <=> HasColor(call.target))
  <2>1. CASE IsActive(call.target)
    BY <1>1, <2>1, Colors, Types DEF ShowLed, Led, CallOK, IsActive
  <2>2. CASE ~IsActive(call.target)
    BY <2>2, Colors DEF ShowLed, Led
  <2> QED
    BY <2>1, <2>2
<1>5. TypeOK'
  BY <1>1, <1>2, <1>3, <1>4, Types, TypesNext
<1>6. WritingOK'
  BY <1>1, <1>2, ExamAssumption DEF WritingOK, Writes
<1>7. CallOK'
  BY <1>1, <1>2, <1>3, <1>4, Colors, Modes DEF CallOK, Empty, IsActive, HasColor
<1>8. ProgressOK'
  BY <1>1, <1>2, <1>3 DEF ProgressOK, Bytes
<1> QED
  BY <1>2, <1>5, <1>6, <1>7, <1>8 DEF BootOK, RunOK, LoopOK, DfuOK

LEMMA CreateKeeps ==
  ASSUME IInv, NEW f \in File, Create(f) PROVE IInv'
<1> USE DEF IInv
<1>1. /\ UNCHANGED <<register, writing, clearance, manager, led, popUp, call, earlier, resets>>
      /\ call.at = "loop"
      /\ visible' = visible \cup {f} /\ f \notin earlier
      /\ hidden' \in {hidden, {}}
  BY DEF Create
<1>2. TypeOK'
  BY <1>1, Types, TypesNext
<1>3. WritingOK'
  BY <1>1 DEF WritingOK
<1>4. LoopOK'
  BY <1>1 DEF LoopOK, Held, Bytes
<1> QED
  BY <1>1, <1>2, <1>3, <1>4 DEF BootOK, RunOK, DfuOK, CallOK, ProgressOK

\* A step of the loop that only changes the pop-up.
LEMMA PopUpKeeps ==
  ASSUME IInv, call.at = "loop",
         UNCHANGED <<register, writing, clearance, manager, visible, hidden, led, call, earlier, resets>>,
         popUp' \in Raw,
         popUp' # NoPopUp =>
           IF IsActive(manager.mode) THEN popUp' \in {Off, manager.mode} ELSE popUp' \in Configuration \ {Off}
  PROVE  IInv'
<1> USE DEF IInv
<1>1. TypeOK'
  BY Types, TypesNext
<1>2. WritingOK'
  BY DEF WritingOK
<1>3. LoopOK'
  BY DEF LoopOK, Held, Bytes
<1> QED
  BY <1>1, <1>2, <1>3 DEF BootOK, RunOK, DfuOK, CallOK, ProgressOK

LEMMA DisplayPopUpKeeps ==
  ASSUME IInv, NEW target \in Configuration, DisplayPopUp(target) PROVE IInv'
<1>1. popUp' = target /\ target \in Raw /\ target \in Offered
  BY Modes DEF DisplayPopUp, Mode
<1>2. IF IsActive(manager.mode) THEN target = manager.mode ELSE target \in Configuration \ {Off}
  BY <1>1 DEF Offered
<1> QED
  BY <1>1, <1>2, PopUpKeeps DEF DisplayPopUp

LEMMA ClosePopUpKeeps ==
  ASSUME IInv, ClosePopUp PROVE IInv'
  BY PopUpKeeps, Modes DEF ClosePopUp

LEMMA ConfirmKeeps ==
  ASSUME IInv, Confirm PROVE IInv'
<1> USE DEF IInv
<1>1. /\ UNCHANGED <<register, writing, clearance, manager, visible, hidden, led, popUp, earlier, resets>>
      /\ call.at = "loop" /\ popUp # NoPopUp
  BY DEF Confirm
<1>2. manager.mode \in Mode /\ manager.mode \in Raw /\ popUp \in Raw
  BY Types DEF ManagerType, Mode
<1>3. call' \in CallType /\ call'.at = "set" /\ call'.target = popUp /\ call'.previous = manager.mode
  BY <1>2, SetUp DEF Confirm
<1>4. TypeOK'
  BY <1>1, <1>3, Types, TypesNext
<1>5. WritingOK'
  BY <1>1, <1>3, ExamAssumption, Types DEF WritingOK
<1>6. CallOK'
  <2>1. CASE IsActive(manager.mode)
    BY <1>1, <1>2, <1>3, <2>1 DEF LoopOK, CallOK, Held, IsActive, HasColor
  <2>2. CASE ~IsActive(manager.mode)
    BY <1>1, <1>2, <1>3, <2>2, Colors DEF LoopOK, CallOK, Held, IsActive
  <2> QED
    BY <2>1, <2>2
<1> QED
  BY <1>3, <1>4, <1>5, <1>6 DEF BootOK, RunOK, LoopOK, DfuOK, ProgressOK

LEMMA OpenDFUKeeps ==
  ASSUME IInv, call.at = "loop", OpenDFU, popUp' \in {popUp, NoPopUp},
         popUp' # NoPopUp => popUp' = Off /\ IsActive(manager.mode),
         UNCHANGED <<register, writing, clearance, manager, visible, hidden, led, earlier, resets>>
  PROVE  IInv'
<1> USE DEF IInv
<1>1. manager.mode \in Mode /\ manager.mode \in Raw
  BY Types DEF ManagerType, Mode
<1>2. call' \in CallType /\ call'.at = "dfu" /\ call'.previous = manager.mode
  BY <1>1, Types DEF OpenDFU, CallType, Steps
<1>3. TypeOK'
  BY <1>2, Modes, Types, TypesNext
<1>4. WritingOK'
  BY <1>2, ExamAssumption, Types DEF WritingOK, Writes
<1>5. DfuOK'
  <2>1. manager.mode = IF clearance = "ThirdParty" THEN Off ELSE Bytes
    BY DEF LoopOK
  <2>2. IF IsActive(manager.mode) THEN manager.mode \in {Off, manager.mode} ELSE manager.mode \in Configuration
    BY DEF IsActive, Configuration
  <2>3. ~IsActive(manager.mode) => ~led
    BY Colors DEF LoopOK
  <2>4. clearance = "NumWorksAndThirdPartyApps" => Bytes \in {manager.mode, Off}
    BY <2>1
  <2> QED
    BY <1>1, <1>2, <2>1, <2>2, <2>3, <2>4 DEF LoopOK, DfuOK, Held, Bytes, IsActive, HasColor
<1> QED
  BY <1>2, <1>3, <1>4, <1>5 DEF BootOK, RunOK, LoopOK, CallOK, ProgressOK

LEMMA UsbEnumerationKeeps ==
  ASSUME IInv, UsbEnumeration PROVE IInv'
<1>1. CASE IsActive(manager.mode)
  BY <1>1, PopUpKeeps, Modes DEF UsbEnumeration, Mode
<1>2. CASE ~IsActive(manager.mode)
  BY <1>2, OpenDFUKeeps DEF UsbEnumeration
<1> QED
  BY <1>1, <1>2

LEMMA DfuBetweenEventsKeeps ==
  ASSUME IInv, DfuBetweenEvents PROVE IInv'
<1>1. call.at = "loop" /\ popUp = Off /\ popUp # NoPopUp
  BY Modes DEF DfuBetweenEvents
<1>2. IsActive(manager.mode)
  BY <1>1 DEF IInv, LoopOK
<1> QED
  BY <1>1, <1>2, OpenDFUKeeps DEF DfuBetweenEvents

LEMMA HostWritesKeeps ==
  ASSUME IInv, ~HostSwitches, HostWrites PROVE IInv'
<1> USE DEF IInv
<1>1. /\ UNCHANGED <<register, writing, hidden, led, popUp, call, earlier, resets>>
      /\ call.at = "dfu" /\ writing = NoWrite
      /\ visible' \subseteq File /\ visible' \cap earlier = {}
  BY DEF HostWrites
<1>2. PICK mode \in HostModes, force \in BOOLEAN :
        (force => IsActive(mode)) /\ manager' = [mode |-> mode, force |-> force]
  BY DEF HostWrites
<1>3. IF IsActive(call.previous) THEN mode \in {Off, call.previous} ELSE mode \in Configuration
  BY <1>2 DEF HostModes, IsActive, Configuration
<1>4. mode \in Mode
  BY <1>1, <1>3, Modes DEF DfuOK
<1>5. manager' \in ManagerType /\ manager'.mode = mode /\ (manager'.force => IsActive(mode))
  BY <1>2, <1>4 DEF ManagerType
<1>6. /\ clearance' \in {"NumWorks", "NumWorksAndThirdPartyApps", "ThirdParty"}
      /\ clearance' # clearance => clearance = "NumWorks" /\ clearance' = "NumWorksAndThirdPartyApps"
  BY Types DEF HostWrites
<1>7. TypeOK'
  BY <1>1, <1>5, <1>6, Types, TypesNext
<1>8. WritingOK'
  BY <1>1, ExamAssumption DEF WritingOK, Writes
<1>9. DfuOK'
  BY <1>1, <1>3, <1>5, <1>6 DEF DfuOK, Held, Bytes, HasColor
<1> QED
  BY <1>1, <1>7, <1>8, <1>9 DEF BootOK, RunOK, LoopOK, CallOK, ProgressOK

LEMMA DidExecuteDFUKeeps ==
  ASSUME IInv, DidExecuteDFU PROVE IInv'
<1> USE DEF IInv
<1>1. /\ UNCHANGED <<register, writing, manager, visible, hidden, popUp, earlier, resets>>
      /\ call.at = "dfu" /\ writing = NoWrite /\ ~GetRepairs
  BY DEF DidExecuteDFU
<1>2. call' \in CallType /\ call'.at = "reload" /\ call'.previous = call.previous
  BY Types, Went DEF DidExecuteDFU, Steps
<1>3. /\ clearance = "NumWorksAndThirdPartyApps" => Bytes = Off
      /\ GetValue = IF clearance = "ThirdParty" THEN Off ELSE Bytes
  BY <1>1 DEF GetRepairs, GetValue, IsActive
<1>4. /\ clearance' \in {"NumWorks", "NumWorksAndThirdPartyApps", "ThirdParty"}
      /\ clearance' # clearance =>
           clearance = "NumWorks" /\ clearance' = "NumWorksAndThirdPartyApps" /\ Bytes = Off
  BY <1>3, Types DEF DidExecuteDFU, ClearanceWithApps, IsActive
<1>5. /\ led' \in BOOLEAN
      /\ clearance = "NumWorks" => led' = HasColor(call.previous)
      /\ ~IsActive(call.previous) => ~led'
  <2>1. CASE clearance = "NumWorks"
    BY <1>1, <2>1, Types, Colors DEF DidExecuteDFU, DfuOK, Led
  <2>2. CASE clearance = "NumWorksAndThirdPartyApps"
    BY <1>3, <2>2 DEF DidExecuteDFU, Led, IsActive
  <2>3. CASE clearance = "ThirdParty"
    BY <1>1, <2>3, Types DEF DidExecuteDFU, DfuOK
  <2> QED
    BY <2>1, <2>2, <2>3, Types
<1>6. TypeOK'
  BY <1>1, <1>2, <1>4, <1>5, Types, TypesNext
<1>7. WritingOK'
  BY <1>1, <1>2, ExamAssumption DEF WritingOK, Writes
<1>8. DfuOK'
  BY <1>1, <1>2, <1>3, <1>4, <1>5 DEF DfuOK, Held, Bytes, HasColor
<1> QED
  BY <1>2, <1>6, <1>7, <1>8 DEF BootOK, RunOK, LoopOK, CallOK, ProgressOK

LEMMA ReloadKeeps ==
  ASSUME IInv, Reload PROVE IInv'
<1> USE DEF IInv
<1>1. /\ UNCHANGED <<register, writing, clearance, manager, visible, hidden, led, popUp, earlier, resets>>
      /\ call.at = "reload"
  BY DEF Reload
<1>2. /\ manager.mode \in Mode /\ manager.mode \in Raw
      /\ call.previous \in Mode /\ call.previous \in Raw /\ Off \in Raw
  BY <1>1, Types, Modes DEF ManagerType, Mode, DfuOK
<1>3. CASE EndsUnauthenticated
  <2>0. SetExamMode(Off, call.previous)
    BY <1>3 DEF Reload, Reloads
  <2>1. call' \in CallType /\ call'.at = "set" /\ call'.target = Off /\ call'.previous = call.previous
    BY <1>2, <2>0, SetUp
  <2>2. TypeOK'
    BY <1>1, <2>1, Types, TypesNext
  <2>3. WritingOK'
    BY <1>1, <2>1, ExamAssumption, Types DEF WritingOK
  <2>4. CallOK'
    BY <1>1, <1>2, <1>3, <2>1 DEF CallOK, DfuOK, EndsUnauthenticated
  <2> QED
    BY <2>1, <2>2, <2>3, <2>4 DEF BootOK, RunOK, LoopOK, DfuOK, ProgressOK
<1>4. CASE Reloads
  <2>1. call' \in CallType /\ call'.at = "set" /\ call'.target = manager.mode /\ call'.previous = call.previous
    BY <1>2, <1>4, SetUp DEF Reload, Reloads
  <2>2. TypeOK'
    BY <1>1, <2>1, Types, TypesNext
  <2>3. WritingOK'
    BY <1>1, <2>1, ExamAssumption, Types DEF WritingOK
  <2>4. CallOK'
    <3>1. CASE IsActive(call.previous)
      <4>1. clearance = "NumWorks" /\ manager.mode \in {Off, call.previous}
        BY <1>1, <1>4, <3>1 DEF Reloads, EndsUnauthenticated, DfuOK
      <4> QED
        BY <1>1, <1>2, <2>1, <3>1, <4>1 DEF CallOK, DfuOK, Held, IsActive, HasColor
    <3>2. CASE ~IsActive(call.previous)
      <4>1. manager.mode \in Configuration /\ IsActive(manager.mode)
        BY <1>1, <1>4, <3>2 DEF Reloads, DfuOK, IsActive
      <4> QED
        BY <1>1, <1>2, <2>1, <3>2, <4>1 DEF CallOK, DfuOK, Held, IsActive
    <3> QED
      BY <3>1, <3>2
  <2> QED
    BY <2>1, <2>2, <2>3, <2>4 DEF BootOK, RunOK, LoopOK, DfuOK, ProgressOK
<1>5. CASE ~EndsUnauthenticated /\ ~Reloads
  <2>1. call' \in CallType /\ call'.at = "loop"
    BY <1>5, Types, Went DEF Reload, Steps
  <2>2. manager.mode = call.previous /\ ~manager.force
    BY <1>5 DEF Reloads
  <2>3. TypeOK'
    BY <1>1, <2>1, Types, TypesNext
  <2>4. WritingOK'
    BY <1>1, <2>1, ExamAssumption, Types DEF WritingOK
  <2>5. manager.mode = (IF clearance = "ThirdParty" THEN Off ELSE Bytes) /\ led = HasColor(manager.mode)
    BY <1>1, <1>5, <2>2, Types, Colors DEF DfuOK, EndsUnauthenticated, IsActive
  <2>6. LoopOK'
    BY <1>1, <1>5, <2>1, <2>2, <2>5, Types DEF LoopOK, DfuOK, Held, EndsUnauthenticated, Bytes, HasColor
  <2> QED
    BY <2>1, <2>3, <2>4, <2>6 DEF BootOK, RunOK, DfuOK, CallOK, ProgressOK
<1> QED
  BY <1>3, <1>4, <1>5

LEMMA InitInvariant ==
  ASSUME Init PROVE IInv
<1>1. TypeOK
  <2>1. Off \in Mode /\ Off \in Raw /\ NoPopUp \in Raw
    BY Modes DEF Mode
  <2>2. register \in [{Exam} -> Raw] /\ writing = NoWrite /\ popUp \in Raw
    BY <2>1 DEF Init
  <2>3. manager \in ManagerType
    BY <2>1 DEF Init, ManagerType
  <2>4. call \in CallType
    BY <2>1 DEF Init, CallType, Steps
  <2>5. /\ clearance \in {"NumWorks", "NumWorksAndThirdPartyApps", "ThirdParty"}
        /\ visible \subseteq File /\ hidden \subseteq File /\ earlier \subseteq File
        /\ led \in BOOLEAN
    BY DEF Init
  <2>6. resets \in 0..MaxResets
    BY ExamAssumption DEF Init
  <2> QED
    BY <2>2, <2>3, <2>4, <2>5, <2>6, Types
<1>2. WritingOK /\ BootOK
  BY ExamAssumption DEF Init, WritingOK, BootOK, Empty, Writes
<1> QED
  BY <1>1, <1>2 DEF IInv, Init, RunOK, LoopOK, DfuOK, CallOK, ProgressOK

LEMMA StutterKeeps ==
  ASSUME IInv, UNCHANGED vars PROVE IInv'
<1> USE DEF IInv, vars
<1>1. TypeOK'
  BY Types, TypesNext
<1>2. (WritingOK /\ BootOK /\ RunOK /\ LoopOK)'
  BY DEF WritingOK, BootOK, RunOK, LoopOK, Empty, Held, Bytes
<1>3. (DfuOK /\ CallOK /\ ProgressOK)'
  BY DEF DfuOK, CallOK, ProgressOK, Empty, Held, Bytes
<1> QED
  BY <1>1, <1>2, <1>3

LEMMA StepKeeps ==
  ASSUME IInv, Quiet, [Next]_vars PROVE IInv'
<1>1. CASE Continue
  <2>1. FirmwareReset => IInv'
    BY CoreResetKeeps DEF FirmwareReset
  <2> QED
    BY <1>1, <2>1, PowerOnKeeps, BootKeeps, RepairKeeps, RepairedKeeps, RunKeeps, SetManagerKeeps,
       SetWithoutBytesKeeps, SetBytesKeeps, BytesSetKeeps, ShowLedKeeps, RecordsKeeps,
       DidExecuteDFUKeeps, ReloadKeeps DEF Continue
<1>2. ~HomeJump
  BY DEF Quiet, HomeJump
<1> QED
  BY <1>1, <1>2, MoveBytesKeeps, ResetButtonKeeps, CreateKeeps, DisplayPopUpKeeps, ClosePopUpKeeps,
     ConfirmKeeps, UsbEnumerationKeeps, DfuBetweenEventsKeeps, HostWritesKeeps, StutterKeeps
     DEF Next, Quiet

-----------------------------------------------------------------------------
(* Theorems *)

\* The invariant holds in every state.
THEOREM ExamInvariance == Quiet => (Spec => []IInv)
<1> SUFFICES ASSUME Quiet PROVE Spec => []IInv
  OBVIOUS
<1> QED
  BY InitInvariant, StepKeeps, PTL DEF Spec

\* The mode in force is never Uninitialized: the assertions of isActive, ruleset
\* and updateLed hold, whatever a reset left in flash.
THEOREM TypeCorrect == Quiet => (Spec => []TypeOK)
<1> SUFFICES ASSUME Quiet PROVE Spec => []TypeOK
  OBVIOUS
<1>1. IInv => TypeOK
  BY DEF IInv
<1> QED
  BY <1>1, ExamInvariance, PTL

\* The two copies of the mode agree whenever the event loop runs.
THEOREM CopiesAlwaysAgree == Quiet => (Spec => []CopiesAgree)
<1> SUFFICES ASSUME Quiet PROVE Spec => []CopiesAgree
  OBVIOUS
<1>1. ASSUME IInv PROVE CopiesAgree
  BY <1>1, Types DEF IInv, LoopOK, CopiesAgree, ManagerType
<1> QED
  BY <1>1, ExamInvariance, PTL

\* What the user had is out of reach during an exam.
THEOREM DataHiddenDuringExam == Quiet => (Spec => []ExistingDataUnavailable)
<1> SUFFICES ASSUME Quiet PROVE Spec => []ExistingDataUnavailable
  OBVIOUS
<1>1. ASSUME IInv PROVE ExistingDataUnavailable
  BY <1>1 DEF IInv, LoopOK, Held, ExistingDataUnavailable
<1> QED
  BY <1>1, ExamInvariance, PTL

\* No record of the user stays hidden without an exam.
THEOREM DataHiddenOnlyDuringExam == Quiet => (Spec => []HiddenOnlyDuringExam)
<1> SUFFICES ASSUME Quiet PROVE Spec => []HiddenOnlyDuringExam
  OBVIOUS
<1>1. ASSUME IInv PROVE HiddenOnlyDuringExam
  BY <1>1 DEF IInv, LoopOK, Held, HiddenOnlyDuringExam
<1> QED
  BY <1>1, ExamInvariance, PTL

\* The assertion of disableAllRecords holds.
THEOREM DisablesOnlyOnce == Quiet => (Spec => []DisablesOnce)
<1> SUFFICES ASSUME Quiet PROVE Spec => []DisablesOnce
  OBVIOUS
<1>1. ASSUME IInv PROVE DisablesOnce
  BY <1>1 DEF IInv, CallOK, DisablesOnce, IsActive, Empty
<1> QED
  BY <1>1, ExamInvariance, PTL

\* No exam goes on without the official firmware.
THEOREM ExamsAreOfficial == Quiet => (Spec => []ExamOnOfficialFirmware)
<1> SUFFICES ASSUME Quiet PROVE Spec => []ExamOnOfficialFirmware
  OBVIOUS
<1>1. ASSUME IInv PROVE ExamOnOfficialFirmware
  BY <1>1 DEF IInv, LoopOK, ExamOnOfficialFirmware
<1> QED
  BY <1>1, ExamInvariance, PTL

\* The LED is locked exactly when the mode in force has a color, and the second
\* assertion of openDFU (apps_container.cpp:528) holds.
THEOREM LedAndReloadCorrect == Quiet => (Spec => []LedShowsExam /\ []ReloadsWhatWas)
<1> SUFFICES ASSUME Quiet PROVE Spec => []LedShowsExam /\ []ReloadsWhatWas
  OBVIOUS
<1>1. ASSUME IInv PROVE LedShowsExam
  BY <1>1 DEF IInv, LoopOK, LedShowsExam
<1>2. ASSUME IInv PROVE ReloadsWhatWas
  BY <1>2, Types DEF IInv, DfuOK, ReloadsWhatWas, Reloads, EndsUnauthenticated, GetValue, GetRepairs,
     IsActive, Mode, Bytes
<1> QED
  BY <1>1, <1>2, ExamInvariance, PTL

-----------------------------------------------------------------------------
(* What the flash holds, whatever the computer and the home key do *)

\* A mode that get would leave alone with the official firmware.
Kept(raw) == IsActive(raw) /\ ~IsUninitialized(raw)

\* A write under way is that of setExamMode, or repairs what is no exam.
KInv ==
  /\ register \in [{Exam} -> Raw]
  /\ writing \in Writes \cup {NoWrite, Unpowered}
  /\ call \in CallType
  /\ manager.mode \in Raw
  /\ popUp \in Raw
  /\ writing \in Writes =>
       \/ call.at = "writing" /\ writing.data = call.target
       \/ /\ call.at \in {"boot", "dfu"} /\ writing.data = Off
          /\ clearance = "NumWorks" => ~Kept(Bytes)

LEMMA IdleKeepsFlash ==
  ASSUME KInv, UNCHANGED <<register, writing>>, writing \notin Writes,
         call' \in CallType, manager'.mode \in Raw, popUp' \in Raw
  PROVE  KInv'
  BY DEF KInv, Writes

LEMMA NoWriteIdle == NoWrite \notin Writes /\ Unpowered \notin Writes
  BY ExamAssumption DEF Writes

LEMMA PowerOffKeepsFlash ==
  ASSUME KInv, PowerOff PROVE KInv'
<1>1. call' \in CallType
  BY Went DEF PowerOff, KInv, Steps
<1>2. register' \in [{Exam} -> Raw] /\ writing' = Unpowered
  <2>1. CASE writing = NoWrite
    BY <2>1, NoWriteIdle DEF KInv, PowerOff, Registers!Reset, Registers!Writes, Writes, Raw
  <2>2. CASE writing \in Writes
    BY <2>2, NoWriteIdle DEF KInv, PowerOff, Registers!Reset, Registers!Writes, Writes, Raw
  <2> QED
    BY <2>1, <2>2 DEF PowerOff, Registers!Reset, Registers!Writes, Writes, Raw
<1>3. manager'.mode \in Raw /\ popUp' \in Raw
  BY Modes DEF PowerOff, Mode
<1> QED
  BY <1>1, <1>2, <1>3, NoWriteIdle DEF KInv

\* What a step makes of a write under way.
LEMMA WriteKeepsFlash ==
  ASSUME KInv, Repair \/ Repaired \/ SetBytes \/ MoveBytes \/ BytesSet PROVE KInv'
<1>1. popUp' = popUp /\ manager' = manager
  BY DEF Repair, Repaired, SetBytes, MoveBytes, BytesSet
<1>2. CASE Repair
  <2>1. register' = register /\ writing' \in Writes /\ writing'.data = Off
    BY <1>2, NoWriteIdle, Modes DEF KInv, Repair, Registers!Start, Registers!Completed, Registers!Writes, Writes, Mode, Raw
  <2>2. call' = call /\ clearance' = clearance /\ call.at \in {"boot", "dfu"}
    BY <1>2 DEF Repair
  <2>3. clearance = "NumWorks" => ~Kept(Bytes)
    BY <1>2 DEF Repair, GetRepairs, Kept
  <2> QED
    BY <1>1, <2>1, <2>2, <2>3 DEF KInv, Kept, Bytes, IsActive, IsUninitialized
<1>3. CASE SetBytes
  <2>1. writing \notin Writes
    BY <1>3 DEF KInv, SetBytes
  <2>2. register' = register /\ writing' \in Writes /\ writing'.data = call.target
    BY <1>3, <2>1 DEF KInv, SetBytes, Registers!Start, Registers!Completed, Registers!Writes, Writes, CallType, Raw
  <2>3. call' \in CallType /\ call'.at = "writing" /\ call'.target = call.target
    BY <1>3, Went DEF KInv, SetBytes, Steps
  <2> QED
    BY <1>1, <2>2, <2>3 DEF KInv
<1>4. CASE MoveBytes
  <2>1. /\ writing \in Writes /\ writing' \in Writes /\ writing'.data = writing.data
        /\ register' \in [{Exam} -> Raw] /\ Bytes' = writing.data
    BY <1>4 DEF KInv, MoveBytes, Registers!Move, Registers!Completed, Registers!Writes, Writes, Raw, Bytes
  <2>2. call' = call /\ clearance' = clearance
    BY <1>4 DEF MoveBytes
  <2>3. writing.data = Off => ~Kept(Bytes)'
    BY <2>1 DEF Kept, IsActive
  <2> QED
    BY <1>1, <2>1, <2>2, <2>3 DEF KInv
<1>5. CASE Repaired \/ BytesSet
  <2>1. writing' = NoWrite /\ register' \in [{Exam} -> Raw]
    BY <1>5 DEF KInv, Repaired, BytesSet, Registers!Finish, Registers!Completed, Registers!Writes, Writes, Raw
  <2>2. call' = call
    BY <1>5 DEF Repaired, BytesSet
  <2> QED
    BY <1>1, <2>1, <2>2, NoWriteIdle DEF KInv
<1> QED
  BY <1>2, <1>3, <1>4, <1>5

\* Steps that leave the flash alone.
LEMMA QuietStepsKeepFlash ==
  ASSUME KInv,
         \/ Boot \/ Run \/ SetManager \/ ShowLed \/ Records \/ DidExecuteDFU \/ Reload
         \/ \E f \in File : Create(f)
         \/ \E target \in Configuration : DisplayPopUp(target)
         \/ ClosePopUp \/ Confirm \/ UsbEnumeration \/ DfuBetweenEvents \/ HostWrites \/ HomeJump
  PROVE  KInv'
<1> USE DEF KInv
<1>1. UNCHANGED <<register, writing>>
  BY DEF Boot, Run, SetManager, ShowLed, Records, DidExecuteDFU, Reload, Create, DisplayPopUp,
         ClosePopUp, Confirm, UsbEnumeration, DfuBetweenEvents, HostWrites, HomeJump
<1>2. writing \notin Writes
  BY NoWriteIdle DEF Boot, Run, SetManager, ShowLed, Records, DidExecuteDFU, Reload, Create,
         DisplayPopUp, ClosePopUp, Confirm, UsbEnumeration, DfuBetweenEvents, HostWrites, HomeJump
<1>3. /\ Off \in Raw /\ NoPopUp \in Raw /\ Uninitialized \in Raw /\ Configuration \subseteq Raw
      /\ call.target \in Raw /\ call.previous \in Raw /\ manager.mode \in Raw /\ Bytes \in Raw
  BY Modes DEF Mode, CallType, Bytes
<1>4. manager'.mode \in Raw
  <2>1. CASE Boot
    BY <1>3, <2>1 DEF Boot, GetValue
  <2>2. CASE SetManager
    BY <1>3, <2>2 DEF SetManager
  <2>3. CASE HostWrites
    BY <1>3, <2>3 DEF HostWrites, HostModes
  <2> QED
    BY <1>3, <2>1, <2>2, <2>3 DEF Run, ShowLed, Records, DidExecuteDFU, Reload, Create, DisplayPopUp,
         ClosePopUp, Confirm, UsbEnumeration, DfuBetweenEvents, HomeJump
<1>5. popUp' \in Raw
  <2>1. \A target \in Configuration : DisplayPopUp(target) => popUp' \in Raw
    BY <1>3 DEF DisplayPopUp
  <2> QED
    BY <1>3, <2>1 DEF Boot, Run, SetManager, ShowLed, Records, DidExecuteDFU, Reload, Create,
         ClosePopUp, Confirm, UsbEnumeration, DfuBetweenEvents, HostWrites, HomeJump
<1>6. call' \in CallType
  <2>1. ASSUME NEW step \in Steps, Goto(step) PROVE call' \in CallType
    BY <2>1, Went
  <2>2. ASSUME NEW target \in Raw, NEW previous \in Raw, SetExamMode(target, previous)
        PROVE  call' \in CallType
    BY <2>2, SetUp
  <2>3. CASE Boot \/ Run \/ SetManager \/ ShowLed \/ Records
    BY <1>3, <2>1, <2>2, <2>3 DEF Boot, Run, SetManager, ShowLed, Records, Steps
  <2>4. CASE DidExecuteDFU \/ HomeJump
    BY <2>1, <2>4 DEF DidExecuteDFU, HomeJump, Steps
  <2>5. CASE Reload
    <3>1. SetExamMode(Off, call.previous) \/ SetExamMode(manager.mode, call.previous) \/ Goto("loop")
      BY <2>5 DEF Reload, Reloads
    <3> QED
      BY <1>3, <2>1, <2>2, <3>1 DEF Steps
  <2>6. CASE Confirm
    BY <1>3, <2>2, <2>6 DEF Confirm
  <2>7. OpenDFU => call' \in CallType
    BY <1>3 DEF OpenDFU, CallType, Steps
  <2> QED
    BY <2>3, <2>4, <2>5, <2>6, <2>7 DEF Create, DisplayPopUp, ClosePopUp, UsbEnumeration,
       DfuBetweenEvents, HostWrites
<1> QED
  BY <1>1, <1>2, <1>4, <1>5, <1>6, IdleKeepsFlash

LEMMA OtherStepsKeepFlash ==
  ASSUME KInv, PowerOn \/ SetWithoutBytes \/ FirmwareReset \/ ResetButton PROVE KInv'
<1>1. CASE PowerOn
  <2>1. /\ call' \in CallType /\ writing' = NoWrite
        /\ UNCHANGED <<register, manager, popUp>>
    BY <1>1, Went DEF KInv, PowerOn, Registers!Restart, Steps
  <2> QED
    BY <2>1, NoWriteIdle DEF KInv
<1>2. CASE SetWithoutBytes
  <2>1. CASE CoreReset
    BY <2>1, PowerOffKeepsFlash DEF CoreReset
  <2>2. CASE ~CoreReset
    <3>1. Goto("records") /\ UNCHANGED <<register, writing, manager, popUp>>
      BY <1>2, <2>2 DEF SetWithoutBytes
    <3>2. call' \in CallType
      BY <3>1, Went DEF KInv, Steps
    <3>3. writing \notin Writes
      BY <1>2 DEF KInv, SetWithoutBytes
    <3> QED
      BY <3>1, <3>2, <3>3, IdleKeepsFlash DEF KInv
  <2> QED
    BY <2>1, <2>2
<1>3. CASE FirmwareReset \/ ResetButton
  BY <1>3, PowerOffKeepsFlash DEF FirmwareReset, CoreReset, ResetButton
<1> QED
  BY <1>1, <1>2, <1>3

\* What a write of the persisting bytes under way is for, in every state, with the home
\* key and any computer.
THEOREM FlashInvariance == Spec => []KInv
<1>1. Init => KInv
  <2>1. Off \in Raw /\ NoPopUp \in Raw
    BY Modes DEF Mode
  <2> QED
    BY <2>1, NoWriteIdle DEF Init, KInv, CallType, Steps
<1>2. KInv /\ [Next]_vars => KInv'
  <2> SUFFICES ASSUME KInv, [Next]_vars PROVE KInv'
    OBVIOUS
  <2>1. UNCHANGED vars => KInv'
    BY DEF vars, KInv, Kept, Bytes
  <2> QED
    BY <2>1, WriteKeepsFlash, QuietStepsKeepFlash, OtherStepsKeepFlash DEF Next, Continue
<1> QED
  BY <1>1, <1>2, PTL DEF Spec

\* An exam leaves the flash only when setExamMode ends it, or when a reset hits the
\* move of the bytes at the beginning of one: whatever a computer does and wherever the home
\* key interrupts.
THEOREM ExamLeavesFlashOnPurpose == Spec => OnlySettingEndsExam
<1> DEFINE Ends == call.at = "writing" /\ (~IsActive(call.target) \/ writing.moving)
<1>1. ASSUME KInv, Next, clearance = "NumWorks", Kept(Bytes), ~IsActive(Bytes')
      PROVE  Ends
  <2> USE <1>1
  <2>1. register' # register
    BY DEF Bytes, Kept, IsActive
  <2>2. writing \in Writes => call.at = "writing" /\ writing.data = call.target
    BY DEF KInv
  <2>3. CASE Repair \/ SetBytes
    <3>1. writing \notin Writes
      BY <2>3, NoWriteIdle DEF Repair, SetBytes, KInv
    <3>2. register' = register
      BY <2>3, <3>1 DEF Repair, SetBytes, Registers!Start, Registers!Completed, Registers!Writes, Writes, Raw
    <3> QED
      BY <2>1, <3>2
  <2>4. CASE Repaired \/ MoveBytes \/ BytesSet
    <3>1. writing \in Writes /\ Bytes' = writing.data
      BY <2>4 DEF KInv, Repaired, MoveBytes, BytesSet, Registers!Move, Registers!Finish,
         Registers!Completed, Registers!Writes, Writes, Raw, Bytes
    <3> QED
      BY <2>2, <3>1 DEF IsActive
  <2>5. CASE PowerOff
    <3>1. CASE writing \in Writes /\ ~writing.moving
      <4>1. PICK v \in Raw : /\ v = register[writing.entry] \/ writing.data \subseteq v
                             /\ register' = [register EXCEPT ![writing.entry] = v]
        BY <2>5, <3>1, NoWriteIdle DEF PowerOff, Registers!Reset, Registers!Writes, Writes, Raw
      <4>2. Bytes' = v /\ register[writing.entry] = Bytes
        BY <3>1, <4>1 DEF Bytes, KInv, Writes
      <4>3. writing.data = {}
        BY <4>1, <4>2 DEF Kept, IsActive, Off
      <4> QED
        BY <2>2, <3>1, <4>3 DEF IsActive, Off
    <3>2. CASE writing \in Writes /\ writing.moving
      BY <2>2, <3>2
    <3>3. CASE writing \notin Writes
      BY <2>1, <2>5, <3>3 DEF PowerOff, Registers!Reset, Registers!Writes, Writes, Raw
    <3> QED
      BY <3>1, <3>2, <3>3
  <2>6. CASE UNCHANGED register
    BY <2>1, <2>6
  <2> QED
    BY <2>3, <2>4, <2>5, <2>6 DEF Next, Continue, PowerOn, Boot, Run, SetManager, SetWithoutBytes,
       FirmwareReset, ShowLed, Records, DidExecuteDFU, Reload, ResetButton, CoreReset, Create,
       DisplayPopUp, ClosePopUp, Confirm, UsbEnumeration, DfuBetweenEvents, HostWrites, HomeJump,
       Registers!Restart
<1>2. KInv /\ [Next]_vars =>
        [ clearance = "NumWorks" /\ IsActive(Bytes) /\ ~IsUninitialized(Bytes) /\ ~IsActive(Bytes')
          => call.at = "writing" /\ (~IsActive(call.target) \/ writing.moving) ]_vars
  BY <1>1 DEF Kept
<1> QED
  BY <1>2, FlashInvariance, PTL DEF Spec, OnlySettingEndsExam

-----------------------------------------------------------------------------
(* The end of an exam *)

\* All of what the user had is hidden, or nothing is.
HiddenOK == hidden \in {earlier, {}}

LEMMA HiddenKept ==
  ASSUME IInv, HiddenOK, Quiet, [Next]_vars PROVE HiddenOK'
<1>1. CASE SetManager
  <2>1. IsActive(call.target) /\ ~IsActive(call.previous) => hidden = {}
    BY <1>1, Modes DEF IInv, CallOK, SetManager, IsActive
  <2> QED
    BY <1>1, <2>1 DEF SetManager, HiddenOK
<1>2. CASE Records
  <2>1. CASE call.target = call.previous
    <3>1. IsActive(call.target)
      BY <1>2, <2>1 DEF IInv, CallOK, Records, IsActive
    <3> QED
      BY <1>2, <2>1, <3>1 DEF Records, HiddenOK
  <2>2. CASE call.target # call.previous /\ IsActive(call.target)
    <3>1. hidden = {} /\ (visible = {} \/ earlier = visible)
      BY <1>2, <2>2 DEF IInv, CallOK, Records, IsActive, Empty
    <3>2. hidden' = visible
      BY <1>2, <2>2, <3>1 DEF Records, Disable
    <3> QED
      BY <1>2, <2>2, <3>1, <3>2 DEF Records, HiddenOK
  <2>3. CASE call.target # call.previous /\ ~IsActive(call.target)
    BY <1>2, <2>3 DEF Records, Restore, HiddenOK
  <2> QED
    BY <2>1, <2>2, <2>3
<1>3. CASE PowerOff
  BY <1>3 DEF PowerOff, HiddenOK
<1>4. \A f \in File : Create(f) => HiddenOK'
  BY DEF Create, HiddenOK
<1>5. CASE UNCHANGED <<hidden, earlier>>
  BY <1>5 DEF HiddenOK
<1> QED
  BY <1>1, <1>2, <1>3, <1>4, <1>5 DEF Next, Continue, PowerOn, Boot, Repair, Repaired, Run,
     SetWithoutBytes, SetBytes, MoveBytes, BytesSet, FirmwareReset, ShowLed, DidExecuteDFU, Reload,
     ResetButton, CoreReset, DisplayPopUp, ClosePopUp, Confirm, UsbEnumeration, DfuBetweenEvents,
     HostWrites, HomeJump, vars

\* When an exam ends the user gets back all there was before it, or nothing if room
\* had to be made, and never what was entered during it.
THEOREM DataAlwaysComesBack == Quiet => (Spec => DataComesBack)
<1> SUFFICES ASSUME Quiet PROVE Spec => DataComesBack
  OBVIOUS
<1>1. Init => HiddenOK
  BY DEF Init, HiddenOK
<1>2. ASSUME IInv, HiddenOK, Next, call.at = "records", call'.at = "loop", ~IsActive(call.target)
      PROVE  visible' \in {earlier, {}}
  <2> USE <1>2
  <2>1. CASE Records
    <3>1. call.target # call.previous
      BY DEF IInv, CallOK, IsActive
    <3> QED
      BY <2>1, <3>1 DEF Records, Restore, HiddenOK
  <2>2. CASE PowerOff
    BY <2>2, Types, Went DEF PowerOff, IInv, Steps
  <2>3. CASE call' = call
    BY <2>3
  <2>4. ~HomeJump
    BY DEF Quiet, HomeJump
  <2>5. writing \notin Writes
    BY DEF IInv, WritingOK
  <2> QED
    BY <2>1, <2>2, <2>3, <2>4, <2>5 DEF Next, Continue, PowerOn, Boot, Repair, Repaired, Run, SetManager,
       SetWithoutBytes, SetBytes, MoveBytes, BytesSet, FirmwareReset, ShowLed, DidExecuteDFU, Reload,
       ResetButton, CoreReset, Create, DisplayPopUp, ClosePopUp, Confirm, UsbEnumeration,
       DfuBetweenEvents, HostWrites
<1>3. IInv /\ HiddenOK /\ [Next]_vars =>
        [ call.at = "records" /\ call'.at = "loop" /\ ~IsActive(call.target)
          => visible' \in {earlier, {}} ]_vars
  BY <1>2
<1> QED
  BY <1>1, <1>3, HiddenKept, ExamInvariance, PTL DEF Spec, DataComesBack

=============================================================================
