-------------------------------- MODULE Startup --------------------------------
(***************************************************************************)
(* What the program does before it relays anything: the disclaimer, the    *)
(* Wintun loader, the setup wizard, the command line, the TUN device       *)
(* (src/src/main.rs, disclaimer.rs, win_wintun.rs, config.rs), start after *)
(* start.  The files that the loader and the wizard write and what they    *)
(* change in the operating system outlive a start, and a start may be      *)
(* killed anywhere, in the middle of a write too: fs::write creates (or    *)
(* empties) the file, then fills it, and may fail in between.              *)
(*                                                                         *)
(* Of the questions only the ones that have an effect here are kept:       *)
(* consent, mode, tuning, capabilities.  Standard input is a terminal,     *)
(* which may be closed at any time, or empty, as it is when systemd starts *)
(* the program for script/ntors.service (on Linux).                        *)
(***************************************************************************)
EXTENDS Naturals

CONSTANT MaxStarts   \* bound of the model: how often the program is started

ASSUME BoundAssumption == MaxStarts \in Nat

VARIABLES
  system,     \* "linux" or "windows"
  config,     \* ndcode_config.json: "none", "partial" or "saved"
  tuned,      \* the network parameters have been changed
  capable,    \* the executable has been given CAP_NET_ADMIN
  dll,        \* wintun.dll: "none", "partial" or "whole"
  accepted,   \* history: the disclaimer was accepted in this start or before
  pc,         \* where main is
  setup,      \* --setup is on the command line
  stdin,      \* "terminal" or "empty"
  by,         \* who started the program: a "user" or the "service" manager
  consented,  \* history: the disclaimer was accepted in this start
  exit,       \* how the last start ended
  starts      \* how many starts there were

host == <<config, tuned, capable, dll>>
start == <<setup, stdin, by, consented, accepted, starts>>
starting == <<system, host, pc, start, exit>>

StartupInit ==
  /\ system \in {"linux", "windows"}
  /\ config = "none" /\ tuned = FALSE /\ capable = FALSE /\ dll = "none"
  /\ pc = "off" /\ exit = "none" /\ starts = 0
  /\ setup = FALSE /\ stdin = "empty" /\ by = "user" /\ consented = FALSE
  /\ accepted = FALSE

Goes(from, to) == pc = from /\ pc' = to /\ UNCHANGED <<system, start, exit>>
Exits(how) == pc' = "off" /\ exit' = how /\ UNCHANGED <<system, start>>
Answered == stdin = "terminal"
-------------------------------------------------------------------------------
(* Slip: the disclaimer is left for later.                                 *)
FirstIsCheck == "check"

First == "disclaimer"

StartBy(who, s, input) ==
  /\ pc = "off" /\ pc' = First
  /\ starts < MaxStarts /\ starts' = starts + 1
  /\ setup' = s /\ stdin' = input /\ by' = who /\ consented' = FALSE
  /\ UNCHANGED <<system, host, accepted, exit>>

Start(s, input) == StartBy("user", s, input)

\* systemctl start, or the manager's restart after a failure.
ServiceStarts == system = "linux" /\ StartBy("service", FALSE, "empty")

\* The end of the input is read as an empty answer.
TerminalCloses ==
  /\ pc # "off" /\ stdin = "terminal" /\ stdin' = "empty"
  /\ UNCHANGED <<system, host, pc, setup, by, consented, accepted, exit, starts>>

Killed == pc # "off" /\ Exits("killed") /\ UNCHANGED host
-------------------------------------------------------------------------------
(* print_and_confirm_disclaimer: it always asks.                           *)
Consents ==
  /\ pc = "disclaimer" /\ Answered /\ consented' = TRUE /\ accepted' = TRUE
  /\ pc' = IF system = "windows" THEN "dll" ELSE "check"
  /\ UNCHANGED <<system, host, setup, stdin, by, exit, starts>>

\* Any other answer, the empty one among them.
Declines == pc = "disclaimer" /\ Exits("declined") /\ UNCHANGED host

\* read_line failed (input that is no text, say): the error leaves main.
PromptFails ==
  /\ pc \in {"disclaimer", "choose", "tuning", "capabilities"}
  /\ Exits("error") /\ UNCHANGED host
-------------------------------------------------------------------------------
(* ensure_wintun_embedded, on Windows.  A file that exists is not looked   *)
(* into.                                                                   *)
DllFound == dll # "none" /\ Goes("dll", "check") /\ UNCHANGED host

DllCreated ==
  /\ dll = "none" /\ Goes("dll", "write")
  /\ dll' = "partial" /\ UNCHANGED <<config, tuned, capable>>

DllFilled ==
  /\ Goes("write", "check")
  /\ dll' = "whole" /\ UNCHANGED <<config, tuned, capable>>

\* Before the creation or after it: a part that was written stays.
DllFails == pc \in {"dll", "write"} /\ Exits("error") /\ UNCHANGED host

Loader == DllFound \/ DllCreated \/ DllFilled \/ DllFails
-------------------------------------------------------------------------------
(* run_interactive_setup_wizard, if it is needed.                          *)
WizardStarts == (setup \/ config = "none") /\ Goes("check", "choose") /\ UNCHANGED host

(* Slip: only --setup starts the wizard.                                   *)
WizardLeftOut == ~setup /\ Goes("check", "parse") /\ UNCHANGED host

WizardSkipped == ~setup /\ config # "none" /\ Goes("check", "parse") /\ UNCHANGED host

\* prompt_choice asks until it gets a number: without a terminal, for ever.
Chooses == Answered /\ Goes("choose", "tuning") /\ UNCHANGED host

Tuned == IF system = "linux" THEN "capabilities" ELSE "save"

\* apply_os_network_tuning reports no failure.
Tunes ==
  /\ Answered /\ Goes("tuning", Tuned)
  /\ tuned' = TRUE /\ UNCHANGED <<config, capable, dll>>

TuningDeclined == Goes("tuning", Tuned) /\ UNCHANGED host

\* apply_linux_capabilities: setcap may fail, the wizard goes on.
SetsCapabilities(success) ==
  /\ Answered /\ Goes("capabilities", "save")
  /\ capable' = (capable \/ success) /\ UNCHANGED <<config, tuned, dll>>

(* Slip: without the capabilities there is no way on.                      *)
CapabilitiesRequired == capable /\ Goes("capabilities", "save") /\ UNCHANGED host

CapabilitiesDeclined == Goes("capabilities", "save") /\ UNCHANGED host

\* current_exe failed, or its path is no text: the error leaves main.
CapabilitiesFail == pc = "capabilities" /\ Answered /\ Exits("error") /\ UNCHANGED host

\* The settings of an earlier start are gone with the creation.
ConfigCreated ==
  /\ Goes("save", "fill")
  /\ config' = "partial" /\ UNCHANGED <<tuned, capable, dll>>

ConfigFilled ==
  /\ Goes("fill", "parse")
  /\ config' = "saved" /\ UNCHANGED <<tuned, capable, dll>>

SaveFails == pc \in {"save", "fill"} /\ Exits("error") /\ UNCHANGED host

Wizard ==
  \/ WizardStarts \/ WizardSkipped \/ Chooses
  \/ Tunes \/ TuningDeclined
  \/ (\E success \in BOOLEAN : SetsCapabilities(success)) \/ CapabilitiesDeclined
  \/ CapabilitiesFail \/ ConfigCreated \/ ConfigFilled \/ SaveFails
-------------------------------------------------------------------------------
(* AppConfig::parse_args reads the command line, and nothing else.  It has *)
(* no --setup: clap reports a usage error and exits.                       *)
ParseFails == pc = "parse" /\ setup /\ Exits("usage") /\ UNCHANGED host
Parses == ~setup /\ Goes("parse", "tun") /\ UNCHANGED host

\* The tun crate loads wintun.dll, which it cannot if a part is missing.
TunCreated ==
  /\ system = "windows" => dll = "whole"
  /\ Goes("tun", "relay") /\ UNCHANGED host

TunFails == pc = "tun" /\ Exits("error") /\ UNCHANGED host

\* run_client_mode or run_server_mode has returned.
RelayReturns(how) == pc = "relay" /\ Exits(how) /\ UNCHANGED host

Launch == ParseFails \/ Parses \/ TunCreated \/ TunFails

StartupNext ==
  \/ \E s \in BOOLEAN, input \in {"terminal", "empty"} : Start(s, input)
  \/ ServiceStarts \/ TerminalCloses \/ Killed
  \/ Consents \/ Declines \/ PromptFails \/ Loader \/ Wizard \/ Launch
  \/ \E how \in {"ok", "error"} : RelayReturns(how)

StartupSpec == StartupInit /\ [][StartupNext]_starting

(* The program runs, its user answers each question of the wizard or       *)
(* closes the terminal, and nobody has to answer the end of the input.     *)
(* Nobody has to start the program, and nothing ends the relay.            *)
FairStartupSpec ==
  /\ StartupSpec
  /\ WF_starting(Loader \/ Wizard \/ Launch)
  /\ WF_starting(stdin = "empty" /\ Declines)
-------------------------------------------------------------------------------
Past ==
  {"check", "choose", "tuning", "capabilities", "save", "fill", "parse", "tun", "relay"}

StartupTypeOK ==
  /\ system \in {"linux", "windows"}
  /\ config \in {"none", "partial", "saved"} /\ dll \in {"none", "partial", "whole"}
  /\ tuned \in BOOLEAN /\ capable \in BOOLEAN
  /\ setup \in BOOLEAN /\ consented \in BOOLEAN /\ accepted \in BOOLEAN
  /\ pc \in {"off", "disclaimer", "dll", "write"} \cup Past
  /\ stdin \in {"terminal", "empty"} /\ by \in {"user", "service"}
  /\ exit \in {"none", "killed", "declined", "usage", "error", "ok"}
  /\ starts \in 0..MaxStarts

(* A start gets past the wizard only if there is a settings file, finished *)
(* or not: a start that was killed in the wizard before it created the     *)
(* file leaves the wizard to the next one, even though what it changed in  *)
(* the system has stayed; one that was killed, or failed, while filling it *)
(* does not (main.rs:36, 111).                                             *)
WizardUntilFile ==
  /\ pc \in {"parse", "tun", "relay"} => config # "none"
  /\ pc = "fill" => config = "partial"

(* On Windows a start is past the loader only with a wintun.dll, whole or  *)
(* in part (win_wintun.rs:46-57).                                          *)
LoaderUntilFile ==
  /\ system = "windows" /\ pc \in Past => dll # "none"
  /\ pc = "write" => dll = "partial"

(* Nobody types at a program that the service manager starts, and whatever *)
(* is beyond the disclaimer was consented to.                              *)
Unattended == by = "service" => stdin = "empty"
AskedFirst == pc \notin {"off", "disclaimer"} => consented

(* What is changed on the host, by any start before this one, was changed  *)
(* after somebody had accepted the disclaimer.                             *)
ChangedWithConsent ==
  /\ config # "none" \/ dll # "none" \/ tuned \/ capable => accepted
  /\ consented => accepted

StartupInv ==
  /\ StartupTypeOK /\ WizardUntilFile /\ LoaderUntilFile
  /\ Unattended /\ AskedFirst /\ ChangedWithConsent
-------------------------------------------------------------------------------
(* Properties.                                                             *)

(* Until the disclaimer has been accepted in this very start, nothing is   *)
(* changed on the host and no TUN device is created (main.rs:26 comes      *)
(* first), whatever earlier starts have left behind.                       *)
NothingBeforeConsent ==
  [][<<config, tuned, capable, dll>>' # <<config, tuned, capable, dll>> \/ pc' = "relay"
       => consented]_starting

(* A start that nobody has to be waited for comes to relaying or to its    *)
(* end; only prompt_choice, which takes the end of the input for a wrong   *)
(* answer, waits for ever (main.rs:209-220).                               *)
StartSettles ==
  pc \in {"dll", "check"} \/ (pc = "disclaimer" /\ stdin = "empty")
    ~> pc \in {"relay", "off"} \/ (pc = "choose" /\ stdin = "empty")
===============================================================================
