----------------------------- MODULE DeviceTrust -----------------------------
(***************************************************************************)
(* Which devices a machine has sealed a handoff to, and which of them its  *)
(* user has been told of (pushHandoff in src/src/sync/handoffSync.ts).     *)
(*                                                                         *)
(* The windows of the machine share the file of pinned devices.  The list  *)
(* of devices comes from the portal and may be anything.  A device is the  *)
(* key id derived from the key; the machine's own device, which is always  *)
(* sealed to and never new, is left out.                                   *)
(*                                                                         *)
(* The pins are written before the warning is printed: a process that dies *)
(* in between leaves devices pinned that nobody was told of, and no later  *)
(* push names them.  `unheard` holds these devices.                        *)
(***************************************************************************)
CONSTANTS
  Window,    \* server processes of the machine
  Device     \* keys the portal may list

VARIABLES
  pins,        \* known-sync-devices.json
  registered,  \* windows that have registered the machine's own device
  push,        \* per window: the push in progress
  warned,      \* history: devices that a push has named as new
  unheard      \* history: devices whose push died before it named them

told      == <<warned, unheard>>
trustVars == <<pins, registered, push, told>>

NoPush == [at |-> "idle", targets |-> {}, known |-> {}, sealed |-> FALSE]
Push   == [at : {"idle", "registering", "listing", "sending", "accepted", "done"},
           targets : SUBSET Device, known : SUBSET Device, sealed : BOOLEAN]

TrustTypeOK ==
  /\ pins \subseteq Device
  /\ registered \subseteq Window
  /\ push \in [Window -> Push]
  /\ \A w \in Window : push[w].sealed => push[w].at \in {"sending", "accepted", "done"}
  /\ warned \subseteq Device /\ unheard \subseteq Device

TrustInit ==
  /\ pins = {} /\ registered = {} /\ warned = {} /\ unheard = {}
  /\ push = [w \in Window |-> NoPush]

-----------------------------------------------------------------------------

Pushing(w, place) == push[w].at = place

\* A save of a handoff starts a push that nothing waits for.
BeginPush(w) ==
  /\ Pushing(w, "idle")
  /\ push' = [push EXCEPT ![w].at = IF w \in registered THEN "listing" ELSE "registering"]
  /\ UNCHANGED <<pins, registered, told>>

\* ensureRegistered.
RegisterDevice(w) ==
  /\ Pushing(w, "registering")
  /\ registered' = registered \cup {w}
  /\ push' = [push EXCEPT ![w].at = "listing"]
  /\ UNCHANGED <<pins, told>>

\* Mutant: what is sealed to is pinned before it is sent.
ListDevicesAndPin(w) ==
  /\ Pushing(w, "listing")
  /\ \E targets \in SUBSET Device, known \in {pins, {}} :
       /\ push' = [push EXCEPT ![w] = [at |-> "sending", targets |-> targets, known |-> known, sealed |-> FALSE]]
       /\ pins' = known \cup targets
  /\ UNCHANGED <<registered, told>>

\* The portal lists any devices; then the pins are read, or cannot be (another
\* window is writing the file).
ListDevices(w) ==
  /\ Pushing(w, "listing")
  /\ \E targets \in SUBSET Device, known \in {pins, {}} :
       push' = [push EXCEPT ![w] = [at |-> "sending", targets |-> targets, known |-> known, sealed |-> FALSE]]
  /\ UNCHANGED <<pins, registered, told>>

\* The relay has stored the blob: every one of its devices can read it.
Stored(w) ==
  /\ Pushing(w, "sending") /\ ~push[w].sealed
  /\ push' = [push EXCEPT ![w].sealed = TRUE]
  /\ UNCHANGED <<pins, registered, told>>

NewDevices(w) == push[w].targets \ push[w].known

\* The answer arrives: the new devices are pinned, or the file cannot be written.
Accepted(w) ==
  /\ Pushing(w, "sending") /\ push[w].sealed
  /\ pins' \in IF NewDevices(w) = {} THEN {pins} ELSE {pins, push[w].known \cup NewDevices(w)}
  /\ push' = [push EXCEPT ![w].at = "accepted"]
  /\ UNCHANGED <<registered, told>>

\* Back in the caller of the push, the new devices are named.
Warn(w) ==
  /\ Pushing(w, "accepted")
  /\ warned' = warned \cup NewDevices(w)
  /\ push' = [push EXCEPT ![w].at = "done"]
  /\ UNCHANGED <<pins, registered, unheard>>

\* Or the process dies before, and another one takes its place.
DieUnheard(w) ==
  /\ Pushing(w, "accepted")
  /\ unheard' = unheard \cup NewDevices(w)
  /\ push' = [push EXCEPT ![w] = NoPush]
  /\ registered' = registered \ {w}
  /\ UNCHANGED <<pins, warned>>

\* Mutant: the state of the push is not reset.
PushFailsInPlace(w) ==
  /\ push[w].at \in {"registering", "listing", "sending"}
  /\ push' = [push EXCEPT ![w].at = "idle"]
  /\ registered' \in {registered, registered \ {w}}
  /\ UNCHANGED <<pins, told>>

\* A request is refused or times out, whatever became of it; or the process
\* dies, and another one takes its place.
PushFails(w) ==
  /\ push[w].at \in {"registering", "listing", "sending"}
  /\ push' = [push EXCEPT ![w] = NoPush]
  /\ registered' \in {registered, registered \ {w}}
  /\ UNCHANGED <<pins, told>>

\* The result is returned.
EndPush(w) ==
  /\ Pushing(w, "done")
  /\ push' = [push EXCEPT ![w] = NoPush]
  /\ UNCHANGED <<pins, registered, told>>

TrustNext ==
  \E w \in Window : \/ BeginPush(w) \/ RegisterDevice(w) \/ ListDevices(w) \/ Stored(w)
                    \/ Accepted(w) \/ Warn(w) \/ DieUnheard(w) \/ PushFails(w) \/ EndPush(w)

TrustSpec == TrustInit /\ [][TrustNext]_trustVars

-----------------------------------------------------------------------------
(* Properties.                                                             *)

\* Devices that some window has pinned and is about to name.
AboutToHear == UNION {NewDevices(w) : w \in {v \in Window : Pushing(v, "accepted")}}

\* A push that succeeded has sealed to no device that is kept from the user: some
\* push of any window named it, is about to, or died on the way.  A push that
\* failed, a lost update of the file or an unreadable one repeat a warning and
\* never swallow it; only that death does, and then for good.
NoSilentDevice ==
  \A w \in Window : Pushing(w, "done") => push[w].targets \subseteq warned \cup AboutToHear \cup unheard
=============================================================================
