---------------------------- MODULE DesktopShell ----------------------------
(***************************************************************************)
(* The desktop shell (runtimes/desktop/src-tauri/src/lib.rs, config.rs,    *)
(* permissions.rs): one process that loads the bundled specification,      *)
(* opens a hidden blank view, and in a closure on the UI thread installs   *)
(* the permission policy, arms the navigation filter, navigates and shows  *)
(* the view. What the user and the page do comes between its steps.        *)
(*                                                                         *)
(* exit(n) asks the event loop to end; handlers may run before it does.    *)
(* Every system call may fail; on other systems than Windows installing    *)
(* the policy always does. Downloads and new windows are refused without a *)
(* change of state and are left out, as is the text of the main window.    *)
(***************************************************************************)
EXTENDS SpecRules

CONSTANTS
  Pages,      \* URLs that pages and users try to go to
  Blank,      \* about:blank
  None        \* no specification

ASSUME ShellAssumption == Blank \notin Pages /\ None \notin AppSpecV1

VARIABLES
  config,     \* the RuntimeSpec of this process
  pc,         \* how far setup and its closure are
  policy,     \* is the PermissionRequested handler installed?
  ready,      \* the flag the navigation filter reads
  loading,    \* has navigate() been called and the filter not asked yet?
  page,       \* what the view shows
  shown,      \* is the view's window visible?
  main,       \* the window of the bundled page: open, hidden or closed
  exiting,    \* was exit() called?
  granted     \* has a page ever been given a permission?

shellVars ==
  <<config, pc, policy, ready, loading, page, shown, main, exiting, granted>>

Closure == {"policy", "arm", "navigate", "show", "reveal"}
Alive == pc \in Closure \cup {"running", "gaveUp"}

ShellTypeOK ==
  /\ pc \in Closure \cup {"off", "running", "gaveUp", "ended"}
  /\ policy \in BOOLEAN /\ ready \in BOOLEAN /\ loading \in BOOLEAN
  /\ shown \in BOOLEAN /\ exiting \in BOOLEAN /\ granted \in BOOLEAN
  /\ main \in {"open", "hidden", "closed"}
  /\ Alive => config # None

ShellInit ==
  /\ config = None /\ pc = "off" /\ page = Blank /\ main = "closed"
  /\ policy = FALSE /\ ready = FALSE /\ loading = FALSE
  /\ shown = FALSE /\ exiting = FALSE /\ granted = FALSE

-----------------------------------------------------------------------------
(* Seeded faults.                                                          *)

IgnoresFailure == pc' = "arm" /\ UNCHANGED exiting
ReturnsOnly == pc' = "gaveUp" /\ UNCHANGED exiting

-----------------------------------------------------------------------------
(* A process starts. Without an acceptable specification, or a window, it  *)
(* panics.                                                                 *)
Launch(resource) ==
  /\ pc \in {"off", "ended"}
  /\ \/ RuntimeAccepts(resource) /\ config' = resource /\ pc' = "policy" /\ main' = "open"
     \/ config' = None /\ pc' = "ended" /\ main' = "closed"
  /\ page' = Blank
  /\ policy' = FALSE /\ ready' = FALSE /\ loading' = FALSE
  /\ shown' = FALSE /\ exiting' = FALSE /\ granted' = FALSE

(* The closure stops: exit(1), and return.                                 *)
GiveUp == pc' = "gaveUp" /\ exiting' = TRUE
PolicyRefused == GiveUp

InstallPolicy ==
  /\ pc = "policy"
  /\ \/ policy' = TRUE /\ pc' = "arm" /\ UNCHANGED exiting
     \/ policy' = policy /\ PolicyRefused
  /\ UNCHANGED <<config, ready, loading, page, shown, main, granted>>

Arm ==
  /\ pc = "arm"
  /\ ready' = TRUE /\ pc' = "navigate"
  /\ UNCHANGED <<config, policy, loading, page, shown, main, exiting, granted>>

Navigate ==
  /\ pc = "navigate"
  /\ \/ loading' = TRUE /\ pc' = "show" /\ UNCHANGED exiting
     \/ loading' = loading /\ GiveUp
  /\ UNCHANGED <<config, policy, ready, page, shown, main, granted>>

Show ==
  /\ pc = "show"
  /\ \/ shown' = TRUE /\ pc' = "reveal" /\ UNCHANGED exiting
     \/ shown' = shown /\ GiveUp
  /\ UNCHANGED <<config, policy, ready, loading, page, main, granted>>

(* The main window is told and hidden, if it is still there; hiding may    *)
(* fail, and that is ignored.                                              *)
Reveal ==
  /\ pc = "reveal"
  /\ main' \in IF main = "open" THEN {"open", "hidden"} ELSE {main}
  /\ pc' = "running"
  /\ UNCHANGED <<config, policy, ready, loading, page, shown, exiting, granted>>

ClosureStep == InstallPolicy \/ Arm \/ Navigate \/ Show \/ Reveal

-----------------------------------------------------------------------------
(* on_navigation: where the view may go.                                   *)
Admits(u) == u # Blank => ready /\ NavigationAllowed(config, u)

StartArrives ==
  /\ Alive /\ loading
  /\ loading' = FALSE
  /\ page' = IF Admits(config.source.start.url) THEN config.source.start.url ELSE page
  /\ UNCHANGED <<config, pc, policy, ready, shown, main, exiting, granted>>

PageNavigates(u) ==
  /\ Alive /\ Admits(u)
  /\ page' = u
  /\ UNCHANGED <<config, pc, policy, ready, loading, shown, main, exiting, granted>>

(* The handler denies, or aborts the process if it cannot; without it the  *)
(* browser would ask the user.                                             *)
AsksPermission ==
  /\ Alive /\ page # Blank
  /\ IF policy THEN granted' = granted /\ pc' \in {pc, "ended"}
               ELSE granted' = TRUE /\ pc' = pc
  /\ UNCHANGED <<config, policy, ready, loading, page, shown, main, exiting>>

(* CloseRequested on the view: exit(0).                                    *)
CloseView ==
  /\ Alive /\ shown
  /\ shown' = FALSE /\ exiting' = TRUE
  /\ UNCHANGED <<config, pc, policy, ready, loading, page, main, granted>>

CloseMain ==
  /\ Alive /\ main = "open"
  /\ main' = "closed"
  /\ UNCHANGED <<config, pc, policy, ready, loading, page, shown, exiting, granted>>

LoopEnds ==
  /\ Alive /\ exiting
  /\ pc' = "ended"
  /\ UNCHANGED <<config, policy, ready, loading, page, shown, main, exiting, granted>>

ShellNext ==
  \/ ClosureStep \/ StartArrives \/ AsksPermission \/ CloseView \/ CloseMain \/ LoopEnds
  \/ \E u \in Pages \cup {Blank} : PageNavigates(u)

(* Tauri runs what is queued on the UI thread, and ends when asked to.     *)
ShellFairness == WF_shellVars(ClosureStep) /\ WF_shellVars(LoopEnds)

-----------------------------------------------------------------------------
(* A remote page is shown only under the permission policy and after the   *)
(* filter was armed, at an origin of the configuration that this process   *)
(* loaded, and no page is ever granted a permission: whatever the page,    *)
(* the user and failing calls do between the steps of setup.               *)
RemoteOnlyGuarded ==
  Alive =>
    /\ ~granted
    /\ page # Blank => policy /\ ready /\ NavigationAllowed(config, page)

(* A process that has no visible view gets one or ends: no failure of the  *)
(* setup, and no closed window, leaves an invisible process behind.        *)
LaunchSettles == (Alive /\ ~shown) ~> (shown \/ ~Alive)
=============================================================================
