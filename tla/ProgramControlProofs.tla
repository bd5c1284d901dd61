------------------------- MODULE ProgramControlProofs -------------------------
(***************************************************************************)
(* Theorems about ProgramControl, for any number of connections and banks. *)
(* The order of the argument: the types; then Ownership, which is          *)
(* inductive by itself; then the area a holder works in; then, for the     *)
(* mode in which console output does not run the network, that programming *)
(* and running exclude each other, and that the firmware implements        *)
(* ProgramStore.                                                           *)
(***************************************************************************)
EXTENDS ProgramControl, TLAPS

USE BanksAssumption, OwnersAssumption, ModeAssumption, BootsAssumption

(* The state after power-up satisfies the type invariant.                  *)
LEMMA InitTypeOK == Init => TypeOK
<1> SUFFICES ASSUME Init PROVE TypeOK
  OBVIOUS
<1> USE DEF Init
<1>1. program_space \in Owner \union {NoOwner} /\ area \in Area
  BY DEF Owner, Area
<1>2. console \in ConsolePoint /\ cur_flash_bank_number \in Bank /\ script \in Bank
  BY DEF ConsolePoint
<1>3. basic_running \in BOOLEAN /\ run_basic \in BOOLEAN /\ pause_basic \in BOOLEAN
  OBVIOUS
<1>4. /\ tcp \in [Conns -> ConnState]
      /\ step \in [Conns -> Step]
      /\ special \in [Conns -> Special]
      /\ boots \in Nat
  BY DEF ConnState, Step, Special
<1> QED
  BY <1>1, <1>2, <1>3, <1>4 DEF TypeOK

(* So does the state after a reset.                                        *)
LEMMA RebootTypeOK == TypeOK /\ Reboot => TypeOK'
<1> SUFFICES ASSUME TypeOK, Reboot PROVE TypeOK'
  OBVIOUS
<1> USE DEF Reboot, deallocate_program_space
<1>1. (program_space \in Owner \union {NoOwner} /\ area \in Area)'
  BY DEF Owner, Area
<1>2. (console \in ConsolePoint /\ cur_flash_bank_number \in Bank /\ script \in Bank)'
  BY DEF ConsolePoint
<1>3. (basic_running \in BOOLEAN /\ run_basic \in BOOLEAN /\ pause_basic \in BOOLEAN)'
  OBVIOUS
<1>4. (/\ tcp \in [Conns -> ConnState]
       /\ step \in [Conns -> Step]
       /\ special \in [Conns -> Special])'
  BY DEF ConnState, Step, Special
<1>5. boots' \in Nat
  BY DEF TypeOK
<1> QED
  BY <1>1, <1>2, <1>3, <1>4, <1>5 DEF TypeOK

(* A step of the console keeps the types.                                  *)
LEMMA ConsoleTypeOK == TypeOK /\ ConsoleNext => TypeOK'
<1> SUFFICES ASSUME TypeOK, ConsoleNext PROVE TypeOK'
  OBVIOUS
<1> USE DEF TypeOK, Owner, Area, NoArea, ConfigurationSpace, Bank, ConsolePoint,
            flags, banks, space, net
<1>1. ASSUME NEW a \in Area, ConsoleOpen(a) PROVE TypeOK'
  BY <1>1 DEF ConsoleOpen, allocate_program_space
<1>2. CASE ConsolePrompt
  BY <1>2 DEF ConsolePrompt, allocate_program_space
<1>3. CASE ConsoleAim
  BY <1>3 DEF ConsoleAim
<1>4. CASE ConsoleClose
  BY <1>4 DEF ConsoleClose, deallocate_program_space
<1>5. ASSUME NEW bank \in Bank, ChangeBank(bank) PROVE TypeOK'
  BY <1>5 DEF ChangeBank, select_bank_number
<1>6. CASE ConsoleReboot
  BY <1>6, RebootTypeOK DEF ConsoleReboot
<1>7. CASE RunRequested
  BY <1>7 DEF RunRequested
<1>8. CASE RunRefused \/ StartRun \/ StartFails \/ FinishWaitOver \/ RunOver
  BY <1>8 DEF RunRefused, StartRun, StartFails, FinishWaitOver, RunOver
<1>9. CASE Loop
  BY <1>9 DEF Loop, BeginStatement, EndStatement, ProgramEnds, RunStopped
<1> QED
  BY <1>1, <1>2, <1>3, <1>4, <1>5, <1>6, <1>7, <1>8, <1>9 DEF ConsoleNext

(* A step of the stack or of the web server keeps the types.               *)
LEMMA ConnTypeOK ==
  ASSUME NEW c \in Conns, TypeOK, Stack(c) \/ Request(c) \/ Serve(c)
  PROVE  TypeOK'
<1> USE DEF TypeOK, Owner, Area, NoArea, ConfigurationSpace, Bank,
            ConnState, Step, Page, Granted, Special, flags, banks, space,
            At, Goto
<1>1. CASE Syn(c)
  BY <1>1 DEF Syn
<1>2. CASE Connected(c)
  BY <1>2 DEF Connected
<1>3. CASE PeerGone(c)
  BY <1>3 DEF PeerGone, cleanup_special_state, deallocate_program_space
<1>4. CASE SilentClose(c)
  BY <1>4 DEF SilentClose
<1>5. CASE TimerAbort(c)
  BY <1>5 DEF TimerAbort, cleanup_special_state, deallocate_program_space
<1>6. ASSUME NEW a \in Area, NEW body \in BOOLEAN, NEW denied \in BOOLEAN,
             RequestUpload(c, a, body, denied)
      PROVE TypeOK'
  BY <1>6 DEF RequestUpload, allocate_program_space
<1>7. CASE RequestUploadRefused(c)
  BY <1>7 DEF RequestUploadRefused
<1>8. ASSUME NEW page \in Page \union {"message"}, RequestPage(c, page)
      PROVE TypeOK'
  BY <1>8 DEF RequestPage
<1>9. CASE UploadDone(c)
  BY <1>9 DEF UploadDone
<1>10. CASE RedirectSent(c)
  BY <1>10 DEF RedirectSent, cleanup_special_state, deallocate_program_space
<1>11. CASE ListStarts(c)
  BY <1>11 DEF ListStarts, allocate_program_space
<1>12. CASE ListRefused(c)
  BY <1>12 DEF ListRefused
<1>13. CASE ListDone(c)
  BY <1>13 DEF ListDone, cleanup_special_state, deallocate_program_space
<1>14. CASE RunPage(c) \/ StopPage(c) \/ PausePage(c)
  BY <1>14 DEF RunPage, StopPage, PausePage
<1>15. CASE RunGranted(c) \/ ResumeGranted(c) \/ StopGranted(c) \/ PauseGranted(c)
  BY <1>15 DEF RunGranted, ResumeGranted, StopGranted, PauseGranted
<1>16. ASSUME NEW bank \in Bank \union {-1, NumBanks}, BankPage(c, bank) PROVE TypeOK'
  BY <1>16 DEF BankPage, CanSelect, select_bank_number
<1>17. CASE ResetPage(c)
  BY <1>17, RebootTypeOK DEF ResetPage
<1>18. CASE PageSent(c)
  BY <1>18 DEF PageSent
<1> QED
  BY <1>1, <1>2, <1>3, <1>4, <1>5, <1>6, <1>7, <1>8, <1>9, <1>10, <1>11, <1>12,
     <1>13, <1>14, <1>15, <1>16, <1>17, <1>18 DEF Stack, Request, Serve

(* Every reachable state has the declared types; in particular the bank a  *)
(* configuration file or a URL asks for is clamped to one that exists.     *)
THEOREM TypeCorrect == Spec => []TypeOK
<1>1. TypeOK /\ [Next]_vars => TypeOK'
  <2>1. TypeOK /\ UNCHANGED vars => TypeOK'
    BY DEF TypeOK, vars
  <2> QED
    BY <2>1, ConsoleTypeOK, ConnTypeOK DEF Next
<1>2. Init => TypeOK
  BY InitTypeOK
<1> QED
  BY <1>1, <1>2, PTL DEF Spec

-------------------------------------------------------------------------------
(* Ownership.  A space is allocated only while nobody holds it, and given  *)
(* back only by a user who holds it, hence by its owner.                   *)

(* A step of the console keeps Ownership.                                  *)
LEMMA ConsoleOwnership == TypeOK /\ Ownership /\ ConsoleNext => Ownership'
<1> SUFFICES ASSUME TypeOK, Ownership, ConsoleNext PROVE Ownership'
  OBVIOUS
<1> USE DEF Ownership, HoldsSpace, Owner, net, space
<1>1. ASSUME NEW a \in Area, ConsoleOpen(a) PROVE Ownership'
  BY <1>1 DEF ConsoleOpen, allocate_program_space
<1>2. CASE ConsolePrompt
  BY <1>2 DEF ConsolePrompt, allocate_program_space
<1>3. CASE ConsoleAim
  BY <1>3 DEF ConsoleAim
<1>4. CASE ConsoleClose
  <2>1. program_space = Console
    BY <1>4 DEF ConsoleClose
  <2> QED
    BY <1>4, <2>1 DEF ConsoleClose, deallocate_program_space
<1>5. ASSUME NEW bank \in Bank, ChangeBank(bank) PROVE Ownership'
  BY <1>5 DEF ChangeBank
<1>6. CASE ConsoleReboot
  BY <1>6 DEF ConsoleReboot, Reboot, Holding
<1>7. CASE RunRequested \/ RunRefused \/ StartRun \/ StartFails
  BY <1>7 DEF RunRequested, RunRefused, StartRun, StartFails
<1>8. CASE Loop \/ FinishWaitOver \/ RunOver
  BY <1>8 DEF Loop, BeginStatement, EndStatement, ProgramEnds, RunStopped,
              FinishWaitOver, RunOver
<1> QED
  BY <1>1, <1>2, <1>3, <1>4, <1>5, <1>6, <1>7, <1>8 DEF ConsoleNext

(* The cleanup of a connection frees only a space that is its own.         *)
LEMMA CleanupOwnership ==
  ASSUME NEW c \in Conns, TypeOK, Ownership, cleanup_special_state(c),
         UNCHANGED console
  PROVE  Ownership'
<1> USE DEF Ownership, HoldsSpace, Owner, TypeOK, cleanup_special_state
<1>1. CASE special[c] \in Holding
  <2>1. program_space = c
    BY <1>1
  <2>2. \A o \in Owner : HoldsSpace(o) => o = c
    BY <2>1
  <2> QED
    BY <1>1, <2>2 DEF deallocate_program_space, Holding
<1>2. CASE special[c] \notin Holding
  BY <1>2 DEF Holding, space
<1> QED
  BY <1>1, <1>2

(* A step of the stack or of the web server keeps Ownership.               *)
LEMMA ConnOwnership ==
  ASSUME NEW c \in Conns, TypeOK, Ownership, Stack(c) \/ Request(c) \/ Serve(c)
  PROVE  Ownership'
<1>1. CASE PeerGone(c) \/ TimerAbort(c) \/ RedirectSent(c) \/ ListDone(c)
  BY <1>1, CleanupOwnership DEF PeerGone, TimerAbort, RedirectSent, ListDone
<1> USE DEF TypeOK, Ownership, HoldsSpace, Owner, space
<1>2. CASE Syn(c) \/ SilentClose(c) \/ PageSent(c)
  BY <1>2 DEF Syn, SilentClose, PageSent
<1>3. CASE Connected(c)
  BY <1>3 DEF Connected, Holding
<1>4. ASSUME NEW a \in Area, NEW body \in BOOLEAN, NEW denied \in BOOLEAN,
             RequestUpload(c, a, body, denied)
      PROVE Ownership'
  BY <1>4 DEF RequestUpload, allocate_program_space
<1>5. CASE RequestUploadRefused(c)
  BY <1>5 DEF RequestUploadRefused
<1>6. ASSUME NEW page \in Page \union {"message"}, RequestPage(c, page)
      PROVE Ownership'
  BY <1>6 DEF RequestPage
<1>7. CASE UploadDone(c) \/ ListRefused(c)
  BY <1>7 DEF UploadDone, ListRefused
<1>8. CASE ListStarts(c)
  BY <1>8 DEF ListStarts, allocate_program_space
<1>9. CASE RunPage(c) \/ StopPage(c) \/ PausePage(c)
  BY <1>9 DEF RunPage, StopPage, PausePage
<1>10. CASE RunGranted(c) \/ ResumeGranted(c) \/ StopGranted(c) \/ PauseGranted(c)
  BY <1>10 DEF RunGranted, ResumeGranted, StopGranted, PauseGranted
<1>11. ASSUME NEW bank \in Bank \union {-1, NumBanks}, BankPage(c, bank)
       PROVE Ownership'
  BY <1>11 DEF BankPage
<1>12. CASE ResetPage(c)
  BY <1>12 DEF ResetPage, Reboot, Holding
<1> QED
  BY <1>1, <1>2, <1>3, <1>4, <1>5, <1>6, <1>7, <1>8, <1>9, <1>10, <1>11, <1>12
     DEF Stack, Request, Serve

(* No cleanup, abort, close or reset frees a space somebody else works in, *)
(* and two users never hold it at once.                                    *)
THEOREM OwnershipSafe == Spec => []Ownership
<1>1. Init => Ownership
  BY DEF Init, Ownership, HoldsSpace, Owner, Holding
<1>2. TypeOK /\ Ownership /\ [Next]_vars => Ownership'
  <2>1. TypeOK /\ Ownership /\ UNCHANGED vars => Ownership'
    BY DEF Ownership, HoldsSpace, vars
  <2> QED
    BY <2>1, ConsoleOwnership, ConnOwnership DEF Next
<1> QED
  BY <1>1, <1>2, TypeCorrect, PTL DEF Spec

-------------------------------------------------------------------------------
(* The bank a user works in, and the bank a run executes.  Both rest on    *)
(* what a step may do to the three variables that tie them together.       *)

(* The space is left alone, given back, or taken and aimed while nothing   *)
(* runs; the selected bank moves only while the space is free and nothing  *)
(* runs, or in a reset, which empties both.                                *)
SpaceStep ==
  \/ UNCHANGED <<program_space, area, script>>
  \/ program_space' = NoOwner /\ UNCHANGED script
  \/ ~basic_running /\ UNCHANGED script /\ area' \in {script, ConfigurationSpace, NoArea}
  \/ console = "prompt" /\ UNCHANGED script /\ area' = script
  \/ ~basic_running /\ program_space = NoOwner /\ UNCHANGED space
  \/ program_space' = NoOwner /\ ~basic_running'

(* Every step of the console is a SpaceStep.                               *)
LEMMA ConsoleSpaceStep == ConsoleNext => SpaceStep
<1> SUFFICES ASSUME ConsoleNext PROVE SpaceStep
  OBVIOUS
<1> USE DEF SpaceStep, space, banks
<1>1. ASSUME NEW a \in Area, ConsoleOpen(a) PROVE SpaceStep
  BY <1>1 DEF ConsoleOpen, allocate_program_space
<1>2. CASE ConsolePrompt
  BY <1>2 DEF ConsolePrompt, allocate_program_space
<1>3. CASE ConsoleAim
  BY <1>3 DEF ConsoleAim
<1>4. CASE ConsoleClose
  BY <1>4 DEF ConsoleClose, deallocate_program_space
<1>5. ASSUME NEW bank \in Bank, ChangeBank(bank) PROVE SpaceStep
  BY <1>5 DEF ChangeBank, select_bank_number, CanSelect
<1>6. CASE ConsoleReboot
  BY <1>6 DEF ConsoleReboot, Reboot, deallocate_program_space
<1>7. CASE RunRequested \/ RunRefused \/ StartRun \/ StartFails
  BY <1>7 DEF RunRequested, RunRefused, StartRun, StartFails
<1>8. CASE Loop \/ FinishWaitOver \/ RunOver
  BY <1>8 DEF Loop, BeginStatement, EndStatement, ProgramEnds, RunStopped,
              FinishWaitOver, RunOver
<1> QED
  BY <1>1, <1>2, <1>3, <1>4, <1>5, <1>6, <1>7, <1>8 DEF ConsoleNext

(* So is every step of the stack or of the web server.                     *)
LEMMA ConnSpaceStep ==
  ASSUME NEW c \in Conns, Stack(c) \/ Request(c) \/ Serve(c)
  PROVE  SpaceStep
<1> USE DEF SpaceStep, space, banks
<1>1. CASE PeerGone(c) \/ TimerAbort(c) \/ RedirectSent(c) \/ ListDone(c)
  BY <1>1 DEF PeerGone, TimerAbort, RedirectSent, ListDone,
              cleanup_special_state, deallocate_program_space
<1>2. CASE Syn(c) \/ Connected(c) \/ SilentClose(c) \/ PageSent(c)
  BY <1>2 DEF Syn, Connected, SilentClose, PageSent
<1>3. ASSUME NEW a \in Area, NEW body \in BOOLEAN, NEW denied \in BOOLEAN,
             RequestUpload(c, a, body, denied)
      PROVE SpaceStep
  BY <1>3 DEF RequestUpload, allocate_program_space
<1>4. CASE RequestUploadRefused(c) \/ UploadDone(c) \/ ListRefused(c)
  BY <1>4 DEF RequestUploadRefused, UploadDone, ListRefused
<1>5. ASSUME NEW page \in Page \union {"message"}, RequestPage(c, page)
      PROVE SpaceStep
  BY <1>5 DEF RequestPage
<1>6. CASE ListStarts(c)
  BY <1>6 DEF ListStarts, allocate_program_space
<1>7. CASE RunPage(c) \/ StopPage(c) \/ PausePage(c)
  BY <1>7 DEF RunPage, StopPage, PausePage
<1>8. CASE RunGranted(c) \/ ResumeGranted(c) \/ StopGranted(c) \/ PauseGranted(c)
  BY <1>8 DEF RunGranted, ResumeGranted, StopGranted, PauseGranted
<1>9. ASSUME NEW bank \in Bank \union {-1, NumBanks}, BankPage(c, bank)
      PROVE SpaceStep
  BY <1>9 DEF BankPage, CanSelect
<1>10. CASE ResetPage(c)
  BY <1>10 DEF ResetPage, Reboot, deallocate_program_space
<1> QED
  BY <1>1, <1>2, <1>3, <1>4, <1>5, <1>6, <1>7, <1>8, <1>9, <1>10
     DEF Stack, Request, Serve

(* Every step of the specification is a SpaceStep.                         *)
LEMMA NextSpaceStep == [Next]_vars => SpaceStep
<1>1. UNCHANGED vars => SpaceStep
  BY DEF vars, SpaceStep
<1> QED
  BY <1>1, ConsoleSpaceStep, ConnSpaceStep DEF Next

(* The bank somebody reads or rewrites stays the selected one.             *)
THEOREM AreaSafe == Spec => []AreaIsSelected
<1>1. Init => AreaIsSelected
  BY DEF Init, AreaIsSelected
<1>2. TypeOK /\ AreaIsSelected /\ SpaceStep => AreaIsSelected'
  <2> SUFFICES ASSUME TypeOK, AreaIsSelected, SpaceStep PROVE AreaIsSelected'
    OBVIOUS
  <2>1. ConfigurationSpace \notin Bank /\ NoArea \notin Bank
    BY DEF ConfigurationSpace, NoArea, Bank
  <2>2. Bank' = Bank
    BY DEF Bank
  <2> QED
    BY <2>1, <2>2 DEF AreaIsSelected, SpaceStep, space
<1> QED
  BY <1>1, <1>2, TypeCorrect, NextSpaceStep, PTL DEF Spec

(* The program being executed is never switched for another.               *)
THEOREM ScriptSafe == Spec => RunningScriptStable
<1>1. SpaceStep => [basic_running /\ basic_running' => script' = script]_vars
  BY DEF SpaceStep
<1> QED
  BY <1>1, NextSpaceStep, PTL DEF Spec, RunningScriptStable

-------------------------------------------------------------------------------
(* Programming and running exclude each other when console output does not *)
(* run the network.  The strengthening says what the console knows at each *)
(* of its points: between the check of RunRequested and StartRun nobody    *)
(* can have come, and the flag tells the points of the run loop.           *)

QuietInv ==
  /\ Exclusion
  /\ console = "starting" => program_space = NoOwner
  /\ basic_running <=> console \in {"running", "statement", "finished"}

(* A step of the console keeps the strengthening.                          *)
LEMMA ConsoleQuiet == QuietInv /\ ConsoleNext => QuietInv'
<1> SUFFICES ASSUME QuietInv, ConsoleNext PROVE QuietInv'
  OBVIOUS
<1> USE DEF QuietInv, Exclusion, space, flags
<1>1. ASSUME NEW a \in Area, ConsoleOpen(a) PROVE QuietInv'
  BY <1>1 DEF ConsoleOpen, allocate_program_space
<1>2. CASE ConsolePrompt \/ ConsoleAim \/ ConsoleClose
  BY <1>2 DEF ConsolePrompt, ConsoleAim, ConsoleClose, allocate_program_space,
              deallocate_program_space
<1>3. ASSUME NEW bank \in Bank, ChangeBank(bank) PROVE QuietInv'
  BY <1>3 DEF ChangeBank
<1>4. CASE ConsoleReboot
  BY <1>4 DEF ConsoleReboot, Reboot, deallocate_program_space
<1>5. CASE RunRequested \/ RunRefused \/ StartRun \/ StartFails
  BY <1>5 DEF RunRequested, RunRefused, StartRun, StartFails
<1>6. CASE Loop \/ FinishWaitOver \/ RunOver
  BY <1>6 DEF Loop, BeginStatement, EndStatement, ProgramEnds, RunStopped,
              FinishWaitOver, RunOver
<1> QED
  BY <1>1, <1>2, <1>3, <1>4, <1>5, <1>6 DEF ConsoleNext

(* What a step of the network may do to the console's view: leave the run  *)
(* alone, and take the space only while the console is not in a write.     *)
NetStep ==
  \/ UNCHANGED <<program_space, basic_running, console>>
  \/ program_space' = NoOwner /\ UNCHANGED <<basic_running, console>>
  \/ NetRuns /\ ~basic_running /\ UNCHANGED <<basic_running, console>>
  \/ program_space' = NoOwner /\ ~basic_running' /\ console' = "menu"

(* Every step of the network is a NetStep.                                 *)
LEMMA ConnNetStep ==
  ASSUME NEW c \in Conns, Stack(c) \/ Request(c) \/ Serve(c)
  PROVE  NetStep
<1> USE DEF NetStep, space, flags
<1>1. CASE PeerGone(c) \/ TimerAbort(c) \/ RedirectSent(c) \/ ListDone(c)
  BY <1>1 DEF PeerGone, TimerAbort, RedirectSent, ListDone,
              cleanup_special_state, deallocate_program_space
<1>2. CASE Syn(c) \/ Connected(c) \/ SilentClose(c) \/ PageSent(c)
  BY <1>2 DEF Syn, Connected, SilentClose, PageSent
<1>3. ASSUME NEW a \in Area, NEW body \in BOOLEAN, NEW denied \in BOOLEAN,
             RequestUpload(c, a, body, denied)
      PROVE NetStep
  BY <1>3 DEF RequestUpload, allocate_program_space, At
<1>4. CASE RequestUploadRefused(c) \/ UploadDone(c) \/ ListRefused(c)
  BY <1>4 DEF RequestUploadRefused, UploadDone, ListRefused
<1>5. ASSUME NEW page \in Page \union {"message"}, RequestPage(c, page)
      PROVE NetStep
  BY <1>5 DEF RequestPage
<1>6. CASE ListStarts(c)
  BY <1>6 DEF ListStarts, allocate_program_space, At
<1>7. CASE RunPage(c) \/ StopPage(c) \/ PausePage(c)
  BY <1>7 DEF RunPage, StopPage, PausePage
<1>8. CASE RunGranted(c) \/ ResumeGranted(c) \/ StopGranted(c) \/ PauseGranted(c)
  BY <1>8 DEF RunGranted, ResumeGranted, StopGranted, PauseGranted
<1>9. ASSUME NEW bank \in Bank \union {-1, NumBanks}, BankPage(c, bank)
      PROVE NetStep
  BY <1>9 DEF BankPage
<1>10. CASE ResetPage(c)
  BY <1>10 DEF ResetPage, Reboot, deallocate_program_space
<1> QED
  BY <1>1, <1>2, <1>3, <1>4, <1>5, <1>6, <1>7, <1>8, <1>9, <1>10
     DEF Stack, Request, Serve

(* Without a telnet session the strengthening is an invariant.             *)
LEMMA QuietInvariant == ~OutputYields => (Spec => []QuietInv)
<1> SUFFICES ASSUME ~OutputYields PROVE Spec => []QuietInv
  OBVIOUS
<1>1. Init => QuietInv
  BY DEF Init, QuietInv, Exclusion
<1>2. QuietInv /\ NetStep => QuietInv'
  BY DEF QuietInv, Exclusion, NetStep, NetRuns, Writing
<1>3. QuietInv /\ UNCHANGED vars => QuietInv'
  BY DEF QuietInv, Exclusion, vars
<1>4. QuietInv /\ [Next]_vars => QuietInv'
  BY <1>2, <1>3, ConsoleQuiet, ConnNetStep DEF Next
<1> QED
  BY <1>1, <1>4, PTL DEF Spec

(* While a program runs nobody holds the program space.                    *)
THEOREM ExclusionQuiet == ~OutputYields => (Spec => []Exclusion)
<1>1. QuietInv => Exclusion
  BY DEF QuietInv
<1> QED
  BY <1>1, QuietInvariant, PTL

-------------------------------------------------------------------------------
(* The firmware implements ProgramStore.  Each step keeps the abstract     *)
(* store, or is one of its operations.                                     *)

(* Taking the space acquires the store.                                    *)
LEMMA AllocateAcquires ==
  ASSUME NEW u \in Owner, NEW a, allocate_program_space(u, a),
         UNCHANGED <<basic_running, banks, boots>>
  PROVE  Store!Next
<1>1. Store!Acquire(u)
  BY DEF Store!Acquire, allocate_program_space, banks, Owner
<1> QED
  BY <1>1 DEF Store!Next

(* Giving it back releases the store, provided nothing runs.               *)
LEMMA DeallocateReleases ==
  ASSUME NEW u \in Owner, program_space = u, ~basic_running,
         deallocate_program_space, UNCHANGED <<basic_running, banks, boots>>
  PROVE  Store!Next
<1>1. Store!Release
  BY DEF Store!Release, deallocate_program_space, banks, Owner
<1> QED
  BY <1>1 DEF Store!Next

(* Selecting a bank is a selection of the store, or nothing.               *)
LEMMA SelectSelects ==
  ASSUME NEW bank, NEW shown, select_bank_number(bank, shown),
         UNCHANGED <<program_space, basic_running, boots>>
  PROVE  Store!Next \/ UNCHANGED Store!storeVars
<1>1. CASE CanSelect
  <2>1. Store!Select
    BY <1>1 DEF Store!Select, select_bank_number, CanSelect, Bank
  <2> QED
    BY <2>1 DEF Store!Next
<1>2. CASE ~CanSelect
  BY <1>2 DEF Store!storeVars, select_bank_number
<1> QED
  BY <1>1, <1>2

(* A reset resets the store.                                               *)
LEMMA RebootResets == Reboot => Store!Next
<1> SUFFICES ASSUME Reboot PROVE Store!Next
  OBVIOUS
<1>1. Store!Reset
  BY DEF Store!Reset, Reboot, deallocate_program_space, Bank
<1> QED
  BY <1>1 DEF Store!Next

(* Steps that touch none of the mapped variables stutter.                  *)
LEMMA StoreStutters ==
  UNCHANGED <<program_space, basic_running, script, boots>>
    => UNCHANGED Store!storeVars
BY DEF Store!storeVars

(* A step of the console implements the store.                             *)
LEMMA ConsoleImplements ==
  ASSUME TypeOK, Ownership, QuietInv, ConsoleNext
  PROVE  Store!Next \/ UNCHANGED Store!storeVars
<1> USE DEF space, flags, banks
<1>1. ASSUME NEW a \in Area, ConsoleOpen(a) PROVE Store!Next \/ UNCHANGED Store!storeVars
  BY <1>1, AllocateAcquires DEF ConsoleOpen, Owner
<1>2. CASE ConsolePrompt
  BY <1>2, AllocateAcquires DEF ConsolePrompt, Owner
<1>3. CASE ConsoleAim
  BY <1>3, StoreStutters DEF ConsoleAim
<1>4. CASE ConsoleClose
  <2>1. program_space = Console /\ ~basic_running
    BY <1>4 DEF ConsoleClose, Ownership, HoldsSpace, Owner, QuietInv
  <2> QED
    BY <1>4, <2>1, DeallocateReleases DEF ConsoleClose, Owner
<1>5. ASSUME NEW bank \in Bank, ChangeBank(bank) PROVE Store!Next \/ UNCHANGED Store!storeVars
  BY <1>5, SelectSelects DEF ChangeBank
<1>6. CASE ConsoleReboot
  BY <1>6, RebootResets DEF ConsoleReboot
<1>7. CASE RunRequested \/ RunRefused \/ StartFails \/ RunOver \/ BeginStatement \/ EndStatement
  BY <1>7, StoreStutters DEF RunRequested, RunRefused, StartFails, RunOver, BeginStatement, EndStatement
<1>8. CASE StartRun
  <2>1. program_space = NoOwner /\ ~basic_running
    BY <1>8 DEF StartRun, QuietInv
  <2>2. Store!Start
    BY <1>8, <2>1 DEF StartRun, Store!Start
  <2> QED
    BY <2>2 DEF Store!Next
<1>9. CASE ProgramEnds \/ RunStopped \/ FinishWaitOver
  <2>1. program_space = NoOwner /\ basic_running
    BY <1>9 DEF ProgramEnds, RunStopped, FinishWaitOver, QuietInv, Exclusion
  <2>2. CASE basic_running'
    BY <1>9, <2>1, <2>2, StoreStutters DEF ProgramEnds, RunStopped, FinishWaitOver
  <2>3. CASE ~basic_running'
    <3>1. Store!Finish
      BY <1>9, <2>1, <2>3 DEF ProgramEnds, RunStopped, FinishWaitOver, Store!Finish
    <3> QED
      BY <3>1 DEF Store!Next
  <2> QED
    BY <2>2, <2>3
<1> QED
  BY <1>1, <1>2, <1>3, <1>4, <1>5, <1>6, <1>7, <1>8, <1>9 DEF ConsoleNext, Loop

(* A cleanup releases the store or stutters.                               *)
LEMMA CleanupImplements ==
  ASSUME NEW c \in Conns, Ownership, QuietInv, cleanup_special_state(c),
         UNCHANGED <<basic_running, banks, boots>>
  PROVE  Store!Next \/ UNCHANGED Store!storeVars
<1>1. CASE special[c] \in Holding
  <2>1. program_space = c
    BY <1>1 DEF Ownership, HoldsSpace, Owner
  <2>2. ~basic_running
    BY <2>1 DEF QuietInv, Exclusion
  <2> QED
    BY <1>1, <2>1, <2>2, DeallocateReleases DEF cleanup_special_state, Owner
<1>2. CASE special[c] \notin Holding
  BY <1>2, StoreStutters DEF cleanup_special_state, space, banks
<1> QED
  BY <1>1, <1>2

(* A step of the network implements the store.                             *)
LEMMA ConnImplements ==
  ASSUME NEW c \in Conns, TypeOK, Ownership, QuietInv,
         Stack(c) \/ Request(c) \/ Serve(c)
  PROVE  Store!Next \/ UNCHANGED Store!storeVars
<1> USE DEF flags, space, banks
<1>1. CASE PeerGone(c) \/ TimerAbort(c) \/ RedirectSent(c) \/ ListDone(c)
  BY <1>1, CleanupImplements DEF PeerGone, TimerAbort, RedirectSent, ListDone
<1>2. CASE Syn(c) \/ Connected(c) \/ SilentClose(c) \/ PageSent(c)
  BY <1>2, StoreStutters DEF Syn, Connected, SilentClose, PageSent
<1>3. ASSUME NEW a \in Area, NEW body \in BOOLEAN, NEW denied \in BOOLEAN,
             RequestUpload(c, a, body, denied)
      PROVE Store!Next \/ UNCHANGED Store!storeVars
  BY <1>3, AllocateAcquires DEF RequestUpload, Owner
<1>4. CASE RequestUploadRefused(c) \/ UploadDone(c) \/ ListRefused(c)
  BY <1>4, StoreStutters DEF RequestUploadRefused, UploadDone, ListRefused
<1>5. ASSUME NEW page \in Page \union {"message"}, RequestPage(c, page)
      PROVE Store!Next \/ UNCHANGED Store!storeVars
  BY <1>5, StoreStutters DEF RequestPage
<1>6. CASE ListStarts(c)
  <2>1. PICK a \in {script, ConfigurationSpace} : allocate_program_space(c, a)
    BY <1>6 DEF ListStarts
  <2> QED
    BY <1>6, <2>1, AllocateAcquires DEF ListStarts, Owner
<1>7. CASE RunPage(c) \/ StopPage(c) \/ PausePage(c)
  BY <1>7, StoreStutters DEF RunPage, StopPage, PausePage
<1>8. CASE RunGranted(c) \/ ResumeGranted(c) \/ StopGranted(c) \/ PauseGranted(c)
  BY <1>8, StoreStutters DEF RunGranted, ResumeGranted, StopGranted, PauseGranted
<1>9. ASSUME NEW bank \in Bank \union {-1, NumBanks}, BankPage(c, bank)
      PROVE Store!Next \/ UNCHANGED Store!storeVars
  <2>1. UNCHANGED <<space, basic_running, boots>>
    BY <1>9 DEF BankPage
  <2>2. select_bank_number(bank, cur_flash_bank_number) \/ UNCHANGED banks
    BY <1>9 DEF BankPage
  <2> QED
    BY <2>1, <2>2, StoreStutters, SelectSelects DEF space
<1>10. CASE ResetPage(c)
  BY <1>10, RebootResets DEF ResetPage
<1> QED
  BY <1>1, <1>2, <1>3, <1>4, <1>5, <1>6, <1>7, <1>8, <1>9, <1>10
     DEF Stack, Request, Serve

(* Without a telnet session the firmware keeps the promise of ProgramStore:*)
(* one user or the interpreter at a time, and no bank switched under them. *)
THEOREM RefinementQuiet == ~OutputYields => (Spec => StoreSpec)
<1> SUFFICES ASSUME ~OutputYields PROVE Spec => StoreSpec
  OBVIOUS
<1>1. Init => Store!Init
  BY DEF Init, Store!Init, Bank
<1>2. TypeOK /\ Ownership /\ QuietInv /\ [Next]_vars
        => Store!Next \/ UNCHANGED Store!storeVars
  <2>1. UNCHANGED vars => UNCHANGED Store!storeVars
    BY StoreStutters DEF vars
  <2> QED
    BY <2>1, ConsoleImplements, ConnImplements DEF Next
<1> QED
  BY <1>1, <1>2, TypeCorrect, OwnershipSafe, QuietInvariant, PTL
     DEF Spec, StoreSpec, Store!Spec
===============================================================================
