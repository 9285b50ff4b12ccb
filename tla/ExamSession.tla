---------------------------- MODULE ExamSession ----------------------------
(***************************************************************************)
(* The exam mode, from the event loop to the flash (exam_mode.cpp,         *)
(* exam_mode_manager.h, apps_container.cpp).                               *)
(*                                                                         *)
(* The mode in force is kept in the persisting bytes, which                *)
(* PersistentRegisters describes, and copied in a record of the storage    *)
(* when the calculator boots.  The records the user had before an exam are *)
(* hidden during it.  setExamMode changes the three one after the other,   *)
(* and a reset may come at any point.                                      *)
(***************************************************************************)
EXTENDS Naturals

CONSTANTS
  DataBit,         \* bits of the data of a configuration
  Configurable,    \* the bit Bits::Configurable
  Cleared,         \* the bit Bits::Cleared
  Preset,          \* the data of the active rulesets but PressToTest
  Uninitialized,   \* the data of Ruleset::Uninitialized
  Lit,             \* the rulesets, among Preset, that have a color
  File,            \* records of the user
  Exam,            \* the entry of the persisting bytes
  NoWrite, Unpowered,
  HostSwitches,    \* the computer may replace an exam mode by another one
  HomeJumps,       \* the home key may interrupt setExamMode
  MaxResets        \* bound: resets

Bit == DataBit \cup {Configurable, Cleared}
Raw == SUBSET Bit

\* Configuration(Ruleset::Off)
Off == {}

ASSUME ExamAssumption ==
  /\ Configurable # Cleared /\ {Configurable, Cleared} \cap DataBit = {}
  /\ Preset \subseteq SUBSET DataBit /\ Off \notin Preset
  /\ Uninitialized \in SUBSET DataBit /\ Uninitialized \notin Preset \cup {Off}
  /\ Lit \subseteq Preset
  /\ NoWrite \notin [entry : {Exam}, data : Raw, moving : BOOLEAN]
  /\ Unpowered \notin [entry : {Exam}, data : Raw, moving : BOOLEAN]
  /\ NoWrite # Unpowered
  /\ HostSwitches \in BOOLEAN /\ HomeJumps \in BOOLEAN
  /\ MaxResets \in Nat

VARIABLES
  register,  \* the persisting bytes
  writing,   \* the write under way
  clearance, \* Authentication::clearanceLevel, kept by the kernel
  manager,   \* ExamModeManager: m_examMode and m_forceExamModeReload
  visible,   \* records of the user that are accessible
  hidden,    \* records that disableAllRecords has hidden
  led,       \* the LED is locked for the exam
  popUp,     \* the mode the exam pop-up asks for, or NoPopUp
  call,      \* where the program is, and the arguments of setExamMode
  earlier,   \* history: what the user had when the exam began
  resets     \* history: their number

vars == <<register, writing, clearance, manager, visible, hidden, led, popUp, call, earlier, resets>>

-----------------------------------------------------------------------------
(* Configurations *)

Configuration == {Off} \cup Preset \cup {{Configurable} \cup flags : flags \in SUBSET DataBit}

IsUninitialized(raw) == Cleared \in raw \/ raw = Uninitialized
IsActive(raw) == raw # Off
HasColor(raw) == raw \in Lit

\* Mutant: the LED is never unlocked
LedOn(raw) == led \/ HasColor(raw)
\* updateLed leaves the LED alone when the color is black.
Led(raw) == IF IsActive(raw) THEN led \/ HasColor(raw) ELSE FALSE

-----------------------------------------------------------------------------

NoPopUp == {Cleared}
Steps == {"off", "boot", "run", "loop", "dfu", "reload", "set", "bytes", "writing", "records"}

TypeOK ==
  /\ register \in [{Exam} -> Raw]
  /\ writing \in [entry : {Exam}, data : Raw, moving : BOOLEAN] \cup {NoWrite, Unpowered}
  /\ clearance \in {"NumWorks", "NumWorksAndThirdPartyApps", "ThirdParty"}
  /\ manager \in [mode : {raw \in Raw : ~IsUninitialized(raw)}, force : BOOLEAN]
  /\ visible \subseteq File /\ hidden \subseteq File /\ earlier \subseteq File
  /\ led \in BOOLEAN
  /\ popUp \in Raw
  /\ call \in [at : Steps, target : Raw, previous : Raw]
  /\ resets \in 0..MaxResets

Registers == INSTANCE PersistentRegisters WITH
  Entry <- {Exam}, Bit <- Bit, NoWrite <- NoWrite, Off <- Unpowered,
  register <- register, writing <- writing

-----------------------------------------------------------------------------
(* ExamMode::get *)

Bytes == register[Exam]

\* Mutant: no exam survives a reset
GetRepairsExam == clearance # "ThirdParty" /\ IsActive(Bytes)
GetRepairs ==
  /\ clearance # "ThirdParty"
  /\ IsUninitialized(Bytes) \/ (clearance # "NumWorks" /\ IsActive(Bytes))

GetValue == IF clearance = "ThirdParty" \/ GetRepairs THEN Off ELSE Bytes

Goto(step) == call' = [call EXCEPT !.at = step]

\* The write of set(Off) in get.
Repair ==
  /\ call.at \in {"boot", "dfu"}
  /\ writing = NoWrite
  /\ GetRepairs
  /\ Registers!Start(Exam, Off)
  /\ UNCHANGED <<clearance, manager, visible, hidden, led, popUp, call, earlier, resets>>

\* ExternalApps::updateClearanceLevel: there may be external applications, and
\* they are hidden during an exam.
ClearanceWithApps(active) ==
  IF active \/ clearance = "ThirdParty" THEN {clearance}
  ELSE {clearance, "NumWorksAndThirdPartyApps"}

Repaired ==
  /\ call.at \in {"boot", "dfu"}
  /\ Registers!Finish
  /\ led' = FALSE
  /\ clearance' \in ClearanceWithApps(FALSE)
  /\ UNCHANGED <<manager, visible, hidden, popUp, call, earlier, resets>>

-----------------------------------------------------------------------------
(* Resets and boot *)

\* Both the button and Reset::core: the memory is lost.
PowerOff ==
  /\ Registers!Reset
  /\ Goto("off")
  /\ visible' = {} /\ hidden' = {} /\ earlier' = {}
  /\ led' = FALSE
  /\ popUp' = NoPopUp
  /\ manager' = [mode |-> Off, force |-> FALSE]

ResetButton ==
  /\ call.at # "off"
  /\ resets < MaxResets
  /\ resets' = resets + 1
  /\ PowerOff
  /\ clearance' \in {"NumWorks", "NumWorksAndThirdPartyApps", "ThirdParty"}

\* "The device will reset on official firmware"
CoreReset ==
  /\ PowerOff
  /\ clearance' = "NumWorks"
  /\ UNCHANGED resets

PowerOn ==
  /\ call.at = "off"
  /\ Registers!Restart
  /\ Goto("boot")
  /\ UNCHANGED <<clearance, manager, visible, hidden, led, popUp, earlier, resets>>

\* start() and ExamModeManager::Init
Boot ==
  /\ call.at = "boot"
  /\ writing = NoWrite
  /\ ~GetRepairs
  /\ manager' = [mode |-> GetValue, force |-> FALSE]
  /\ led' = IF clearance = "ThirdParty" THEN led ELSE Led(Bytes)
  /\ Goto("run")
  /\ UNCHANGED <<register, writing, clearance, visible, hidden, popUp, earlier, resets>>

SetExamMode(target, previous) ==
  call' = [at |-> "set", target |-> target, previous |-> previous]

Run ==
  /\ call.at = "run"
  /\ IF IsActive(manager.mode) THEN SetExamMode(manager.mode, Uninitialized) ELSE Goto("loop")
  /\ UNCHANGED <<register, writing, clearance, manager, visible, hidden, led, popUp, earlier, resets>>

-----------------------------------------------------------------------------
(* AppsContainer::setExamMode *)

\* The pop-up is dismissed, and ExamModeManager::SetExamMode begins.
SetManager ==
  /\ call.at = "set"
  /\ manager' = [mode |-> call.target, force |-> FALSE]
  /\ popUp' = NoPopUp
  /\ earlier' = IF IsActive(call.target) /\ ~IsActive(call.previous) THEN visible ELSE earlier
  /\ Goto("bytes")
  /\ UNCHANGED <<register, writing, clearance, visible, hidden, led, resets>>

SetWithoutBytes ==
  /\ call.at = "bytes"
  /\ clearance = "ThirdParty"
  /\ IF IsActive(call.target)
     THEN CoreReset
     ELSE /\ Goto("records")
          /\ UNCHANGED <<register, writing, clearance, manager, visible, hidden, led, popUp, earlier, resets>>

SetBytes ==
  /\ call.at = "bytes"
  /\ clearance # "ThirdParty"
  /\ Registers!Start(Exam, call.target)
  /\ Goto("writing")
  /\ UNCHANGED <<clearance, manager, visible, hidden, led, popUp, earlier, resets>>

\* A write of the persisting bytes may have to move them.
MoveBytes ==
  /\ Registers!Move
  /\ ~writing.moving
  /\ UNCHANGED <<clearance, manager, visible, hidden, led, popUp, call, earlier, resets>>

BytesSet ==
  /\ call.at = "writing"
  /\ writing # NoWrite
  /\ Registers!Finish
  /\ UNCHANGED <<clearance, manager, visible, hidden, led, popUp, call, earlier, resets>>

\* Mutant: goes on with an exam on any firmware
NeedsNoFirmware == FALSE
NeedsOfficialFirmware == IsActive(call.target) /\ clearance # "NumWorks"

FirmwareReset ==
  /\ call.at = "writing"
  /\ writing = NoWrite
  /\ NeedsOfficialFirmware
  /\ CoreReset

ShowLed ==
  /\ call.at = "writing"
  /\ writing = NoWrite
  /\ ~NeedsOfficialFirmware
  /\ led' = Led(call.target)
  /\ clearance' \in ClearanceWithApps(IsActive(call.target))
  /\ Goto("records")
  /\ UNCHANGED <<register, writing, manager, visible, hidden, popUp, earlier, resets>>

\* Mutants: what was entered during the exam stays; the hidden records are only copied
RestoreOnly ==
  /\ visible' = visible \cup hidden
  /\ hidden' = {}
RestoreCopy ==
  /\ visible' = hidden
  /\ UNCHANGED hidden
\* destroyAllRecords, then restoreDisabledRecords
Restore ==
  /\ visible' = hidden
  /\ hidden' = {}

\* Mutant: the records are only copied
DisableCopy ==
  /\ hidden' = visible
  /\ UNCHANGED visible
\* disableAllRecords.  When records are hidden already, which it asserts is not
\* so, those it hides overwrite some of them.
Disable ==
  /\ visible' = {}
  /\ IF visible = {} THEN hidden' = hidden
     ELSE \E kept \in SUBSET hidden : hidden' = kept \cup visible

Records ==
  /\ call.at = "records"
  /\ \/ /\ call.target = call.previous
        /\ visible' = {}
        /\ UNCHANGED hidden
     \/ call.target # call.previous /\ IsActive(call.target) /\ Disable
     \/ call.target # call.previous /\ ~IsActive(call.target) /\ Restore
  /\ earlier' = IF IsActive(call.target) THEN earlier ELSE {}
  /\ Goto("loop")
  /\ UNCHANGED <<register, writing, clearance, manager, led, popUp, resets>>

-----------------------------------------------------------------------------
(* The event loop *)

\* Room may be made for a record at the expense of those hidden.
Create(f) ==
  /\ call.at = "loop"
  /\ f \notin visible \cup hidden \cup earlier
  /\ visible' = visible \cup {f}
  /\ hidden' \in {hidden, {}}
  /\ UNCHANGED <<register, writing, clearance, manager, led, popUp, call, earlier, resets>>

\* The modes the settings offer: that in force again, unless it is PressToTest,
\* or any if there is none.
\* Mutant: those of the country, whatever is in force
OfferedToAll == Configuration \ {Off}
Offered ==
  IF IsActive(manager.mode) THEN {manager.mode} \cap {raw \in Raw : Configurable \notin raw}
  ELSE Configuration \ {Off}

DisplayPopUp(target) ==
  /\ call.at = "loop"
  /\ popUp = NoPopUp
  /\ target \in Offered
  /\ popUp' = target
  /\ UNCHANGED <<register, writing, clearance, manager, visible, hidden, led, call, earlier, resets>>

ClosePopUp ==
  /\ call.at = "loop"
  /\ popUp # NoPopUp
  /\ popUp' = NoPopUp
  /\ UNCHANGED <<register, writing, clearance, manager, visible, hidden, led, call, earlier, resets>>

\* ExamPopUpController::handleButton
Confirm ==
  /\ call.at = "loop"
  /\ popUp # NoPopUp
  /\ SetExamMode(popUp, manager.mode)
  /\ UNCHANGED <<register, writing, clearance, manager, visible, hidden, led, popUp, earlier, resets>>

OpenDFU == call' = [call EXCEPT !.at = "dfu", !.previous = manager.mode]

\* The event USBEnumeration: the application the pop-up belongs to is left, or
\* the pop-up asks to end the exam.
UsbEnumeration ==
  /\ call.at = "loop"
  /\ IF IsActive(manager.mode)
     THEN popUp' = Off /\ UNCHANGED call
     ELSE popUp' = NoPopUp /\ OpenDFU
  /\ UNCHANGED <<register, writing, clearance, manager, visible, hidden, led, earlier, resets>>

\* listenToExternalEvents, while the pop-up that ends the exam is displayed.
DfuBetweenEvents ==
  /\ call.at = "loop"
  /\ popUp = Off
  /\ OpenDFU
  /\ UNCHANGED <<register, writing, clearance, manager, visible, hidden, led, popUp, earlier, resets>>

-----------------------------------------------------------------------------
(* DFU: the computer writes in the storage *)

HostModes ==
  {Off, call.previous} \cup IF HostSwitches \/ ~IsActive(call.previous) THEN Configuration ELSE {}

\* The reload flag is for an exam mode.
HostWrites ==
  /\ call.at = "dfu"
  /\ writing = NoWrite
  /\ \E mode \in HostModes, force \in BOOLEAN :
       /\ force => IsActive(mode)
       /\ manager' = [mode |-> mode, force |-> force]
  /\ visible' \in SUBSET (File \ (hidden \cup earlier))
  /\ clearance' \in {clearance} \cup IF clearance = "NumWorks" THEN {"NumWorksAndThirdPartyApps"} ELSE {}
  /\ UNCHANGED <<register, writing, hidden, led, popUp, call, earlier, resets>>

\* didExecuteDFU
DidExecuteDFU ==
  /\ call.at = "dfu"
  /\ writing = NoWrite
  /\ ~GetRepairs
  /\ led' = IF clearance = "ThirdParty" THEN led ELSE Led(Bytes)
  /\ clearance' \in ClearanceWithApps(IsActive(GetValue))
  /\ Goto("reload")
  /\ UNCHANGED <<register, writing, manager, visible, hidden, popUp, earlier, resets>>

\* Mutant: only what the computer wrote matters
EndsNever == FALSE
EndsUnauthenticated == IsActive(call.previous) /\ clearance # "NumWorks"
Reloads == ~EndsUnauthenticated /\ (manager.mode # call.previous \/ manager.force)

\* The end of openDFU
Reload ==
  /\ call.at = "reload"
  /\ CASE EndsUnauthenticated -> SetExamMode(Off, call.previous)
       [] Reloads -> SetExamMode(manager.mode, call.previous)
       [] OTHER -> Goto("loop")
  /\ UNCHANGED <<register, writing, clearance, manager, visible, hidden, led, popUp, earlier, resets>>

-----------------------------------------------------------------------------

\* The home key between two calls of setExamMode; there is no checkpoint yet at boot.
HomeJump ==
  /\ HomeJumps
  /\ call.at \in {"bytes", "records"}
  /\ call.previous # Uninitialized
  /\ popUp' = NoPopUp
  /\ Goto("loop")
  /\ UNCHANGED <<register, writing, clearance, manager, visible, hidden, led, earlier, resets>>

Init ==
  /\ register \in [{Exam} -> {Off}]
  /\ writing = NoWrite
  /\ clearance = "NumWorks"
  /\ manager = [mode |-> Off, force |-> FALSE]
  /\ visible = {} /\ hidden = {} /\ earlier = {}
  /\ led = FALSE
  /\ popUp = NoPopUp
  /\ call = [at |-> "boot", target |-> Off, previous |-> Off]
  /\ resets = 0

\* What goes on by itself.
Continue ==
  \/ PowerOn \/ Boot \/ Repair \/ Repaired \/ Run
  \/ SetManager \/ SetWithoutBytes \/ SetBytes \/ BytesSet \/ FirmwareReset \/ ShowLed \/ Records
  \/ DidExecuteDFU \/ Reload

Next ==
  \/ Continue \/ MoveBytes \/ ResetButton
  \/ \E f \in File : Create(f)
  \/ \E target \in Configuration : DisplayPopUp(target)
  \/ ClosePopUp \/ Confirm \/ UsbEnumeration \/ DfuBetweenEvents
  \/ HostWrites
  \/ HomeJump

Spec == Init /\ [][Next]_vars /\ WF_vars(Continue)

-----------------------------------------------------------------------------
(* Properties *)

\* In the event loop the record of ExamModeManager and the persisting bytes hold
\* the same mode, whatever resets, repairs and writes of a computer came before.
CopiesAgree ==
  call.at = "loop" /\ clearance # "ThirdParty" => manager = [mode |-> Bytes, force |-> FALSE]

\* "All your existing data will be unavailable during exam mode"
\* (shared.en.i18n:6).
ExistingDataUnavailable ==
  call.at = "loop" /\ IsActive(manager.mode) => visible \cap earlier = {}

\* "All data entered during exam mode will be deleted" (shared.en.i18n:42), and
\* what was there before comes back, or none of it if room had to be made.
DataComesBack ==
  [][ call.at = "records" /\ call'.at = "loop" /\ ~IsActive(call.target)
      => visible' \in {earlier, {}} ]_vars

\* Records are hidden during an exam only.
HiddenOnlyDuringExam ==
  call.at = "loop" /\ ~IsActive(manager.mode) => hidden = {}

\* The assertion of disableAllRecords (file_system.cpp:327).
DisablesOnce ==
  call.at = "records" /\ call.target # call.previous /\ IsActive(call.target) => hidden = {}

\* An exam goes on with the official firmware alone, without external applications.
ExamOnOfficialFirmware ==
  call.at = "loop" /\ IsActive(manager.mode) => clearance = "NumWorks"

\* The LED is locked exactly when the mode in force has a color.
LedShowsExam ==
  call.at = "loop" => led = HasColor(manager.mode)

\* The second assertion of openDFU (apps_container.cpp:528): nothing touched the
\* persisting bytes when the computer has changed the mode.
ReloadsWhatWas == call.at = "reload" /\ Reloads => GetValue = call.previous

\* With the official firmware, what the flash holds stops to be an exam only because
\* setExamMode ends it, or begins it while the bytes are moved: neither a reset
\* elsewhere, which may tear a write, nor the boot, a computer or the home key does it.
OnlySettingEndsExam ==
  [][ clearance = "NumWorks" /\ IsActive(Bytes) /\ ~IsUninitialized(Bytes) /\ ~IsActive(Bytes')
      => call.at = "writing" /\ (~IsActive(call.target) \/ writing.moving) ]_vars

\* A reset does not end an exam: official firmware that boots goes on with it.
ExamGoesOn ==
  /\ call.at = "boot" /\ writing = NoWrite /\ clearance = "NumWorks"
  /\ IsActive(Bytes) /\ ~IsUninitialized(Bytes)
  ~>
  \/ call.at = "loop" /\ IsActive(manager.mode)
  \/ call.at = "off"

=============================================================================
