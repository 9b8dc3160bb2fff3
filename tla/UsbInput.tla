------------------------------ MODULE UsbInput ------------------------------
(***************************************************************************)
(* USB keyboards and mice (usb_input.c): the HID driver's task announces a *)
(* device through a queue, usb_event_task opens it, and from then on its   *)
(* reports arrive in the driver's task, where they are compared with the   *)
(* last one and become key events of the guest.                            *)
(*                                                                         *)
(* The USB host library is external: it announces a device once, forgets a *)
(* handle when its device is pulled and may use it again for the next one, *)
(* and refuses what is asked of a device that is gone or already open.     *)
(***************************************************************************)
EXTENDS Integers, Sequences, SequencesExt, FiniteSets

CONSTANTS
    Handle, NoHandle,
    QueueLen,   \* events the queue takes (16)
    KeyMax,     \* keys of a boot report (HID_KEYBOARD_KEY_MAX)
    Usage,      \* usages a keyboard reports as keys, and
    Modifiers,  \* those of the bits of the modifier byte, from the lowest
    Code,       \* [usage -> keycode]: hid_usage_to_linux_keycode, 0 if unknown
    Bytes,      \* first and second byte of a mouse report
    MaxUsb      \* plugs, pulls and reports in a behaviour

VARIABLES
    setup,      \* where usb_setup is
    host,       \* usb_lib_task has installed the host library
    device,     \* [Handle -> "gone", "idle", "open" or "started"]
    kind,       \* [Handle -> [proto, boot]]
    queue,      \* s_app_event_queue
    handling,   \* the device usb_event_task works on, and where it is
    kbd,        \* globals.kbd and globals.mouse are set
    prev_keys, prev_mod,
    held,       \* keycodes the guest has seen go down and not up
    mouse,      \* last event of the PS/2 mouse
    dropped,    \* ghost: devices whose event found the queue full
    report,     \* ghost: keys and modifiers of the last report that counted
    tidy,       \* ghost: every key event has changed the state of its key
    pulled,     \* ghost: a device has been pulled
    uses

setupVars == <<setup, host>>
deviceVars == <<device, kind, queue, handling, dropped, pulled>>
keyVars == <<prev_keys, prev_mod, held, report, tidy>>
usbVars == <<setupVars, deviceVars, keyVars, kbd, mouse, uses>>

UsbSizes ==
    /\ {QueueLen, KeyMax} \subseteq Nat \ {0} /\ NoHandle \notin Handle
    /\ Modifiers \in Seq(Range(Modifiers)) /\ IsInjective(Modifiers)
    /\ Usage \cap Range(Modifiers) = {} /\ {"none", "rollover"} \cap Usage = {}
    /\ Bytes \subseteq 0..255
    /\ \A u, v \in Usage \union Range(Modifiers) : Code[u] = Code[v] => u = v \/ Code[u] = 0

Use == uses < MaxUsb /\ uses' = uses + 1
Kind(p, b) == [proto |-> p, boot |-> b]
Alive == setup # "abort"
Idle == [at |-> NoHandle, step |-> "receive", kind |-> Kind("none", FALSE)]

-----------------------------------------------------------------------------
(* usb_setup and the task of the host library.                             *)

\* The queue and usb_lib_task are made, or usb_setup gives up.
Create == setup = "start" /\ setup' \in {"wait", "off"} /\ UNCHANGED host
\* usb_host_install
InstallHost == setup \in {"wait", "hid", "run", "deaf"} /\ ~host /\ host' = TRUE /\ UNCHANGED setup
\* After the notification, or two seconds: hid_host_install.
InstallHid == setup = "wait" /\ setup' = (IF host THEN "hid" ELSE "abort") /\ UNCHANGED host
\* usb_event_task may not start: then the driver runs and nobody opens a device.
StartTask == setup = "hid" /\ setup' \in {"run", "deaf"} /\ UNCHANGED host

Setup == (Create \/ InstallHid \/ StartTask) /\ UNCHANGED <<deviceVars, keyVars, kbd, mouse, uses>>
Library == InstallHost /\ UNCHANGED <<deviceVars, keyVars, kbd, mouse, uses>>
Driver == setup \in {"hid", "run", "deaf"}

\* pc_main publishes the guest's keyboard and mouse.
SetKbd == Alive /\ ~kbd /\ kbd' = TRUE /\ UNCHANGED <<setupVars, deviceVars, keyVars, mouse, uses>>

-----------------------------------------------------------------------------
(* Devices.                                                                *)

Abort == setup' = "abort" /\ UNCHANGED host

Kinds == {Kind("keyboard", TRUE), Kind("keyboard", FALSE), Kind("mouse", TRUE), Kind("none", FALSE)}

\* hid_driver_cb: the driver does not wait for room in the queue.
Plug(h, k) ==
    /\ Driver /\ device[h] = "gone" /\ Use
    /\ device' = [device EXCEPT ![h] = "idle"] /\ kind' = [kind EXCEPT ![h] = k]
    /\ IF Len(queue) < QueueLen THEN queue' = Append(queue, h) /\ UNCHANGED dropped
       ELSE dropped' = dropped \union {h} /\ UNCHANGED queue
    /\ UNCHANGED <<setupVars, keyVars, handling, kbd, mouse, pulled>>

\* A device that was opened is closed by hid_iface_cb; its keys stay as they are.
Pull(h) ==
    /\ Driver /\ device[h] # "gone" /\ Use
    /\ device' = [device EXCEPT ![h] = "gone"] /\ dropped' = dropped \ {h} /\ pulled' = TRUE
    /\ UNCHANGED <<setupVars, keyVars, kind, queue, handling, kbd, mouse>>

\* Mutant: the event is taken while another device is being opened.
Receive_Overtake ==
    /\ setup = "run" /\ queue # <<>>
    /\ queue' = Tail(queue)
    /\ LET h == Head(queue)
       IN  handling' = IF device[h] = "gone" \/ kind[h].proto = "none" THEN Idle
                       ELSE [at |-> h, step |-> "open", kind |-> kind[h]]
    /\ UNCHANGED <<setupVars, device, kind, dropped, pulled>>

\* xQueueReceive and hid_host_device_get_params
Receive ==
    /\ setup = "run" /\ handling = Idle /\ queue # <<>>
    /\ queue' = Tail(queue)
    /\ LET h == Head(queue)
       IN  handling' = IF device[h] = "gone" \/ kind[h].proto = "none" THEN Idle
                       ELSE [at |-> h, step |-> "open", kind |-> kind[h]]
    /\ UNCHANGED <<setupVars, device, kind, dropped, pulled>>

\* hid_host_device_open: what it refuses ends in an abort.
Open ==
    /\ setup = "run" /\ handling.step = "open"
    /\ IF device[handling.at] = "idle"
       THEN /\ device' = [device EXCEPT ![handling.at] = "open"]
            /\ handling' = [handling EXCEPT !.step = "start"] /\ dropped' = dropped \ {handling.at}
            /\ UNCHANGED setupVars
       ELSE Abort /\ UNCHANGED <<device, handling, dropped>>
    /\ UNCHANGED <<kind, queue, pulled>>

\* Mutant: usb_event_task does not come back to the queue.
StartReports_NoLoop ==
    /\ setup = "run" /\ handling.step = "start"
    /\ IF device[handling.at] = "open"
       THEN /\ device' = [device EXCEPT ![handling.at] = "started"]
            /\ handling' = [handling EXCEPT !.step = "end"] /\ UNCHANGED setupVars
       ELSE Abort /\ UNCHANGED <<device, handling>>
    /\ UNCHANGED <<kind, queue, dropped, pulled>>

\* The class requests, of boot devices only, and hid_host_device_start.
StartReports ==
    /\ setup = "run" /\ handling.step = "start"
    /\ IF device[handling.at] = "open"
       THEN device' = [device EXCEPT ![handling.at] = "started"] /\ handling' = Idle /\ UNCHANGED setupVars
       ELSE Abort /\ UNCHANGED <<device, handling>>
    /\ UNCHANGED <<kind, queue, dropped, pulled>>

EventTask == (Receive \/ Open \/ StartReports) /\ UNCHANGED <<keyVars, kbd, mouse, uses>>

-----------------------------------------------------------------------------
(* Reports.                                                                *)

\* send_key_event, on [down, ok]: keys held and whether all events meant one.
send_key_event(g, e) ==
    LET code == Code[e.usage]
    IN  IF code = 0 THEN g
        ELSE [down |-> IF e.press THEN g.down \union {code} ELSE g.down \ {code},
              ok |-> g.ok /\ (e.press # (code \in g.down))]

Event(u, p) == [usage |-> u, press |-> p]
Key(u) == u \in Usage          \* > HID_KEY_ERROR_UNDEFINED
key_found(keys, u) == \E i \in 1..KeyMax : keys[i] = u

\* A bit of the modifier byte, compared with the one before.
CompareBit(g, u, mods) ==
    IF (u \in mods) # (u \in prev_mod) THEN send_key_event(g, Event(u, u \in mods)) ELSE g

\* Mutant: only the same place of the old report is looked at.
ComparePlace_ByPlace(g, i, keys) ==
    LET up == IF Key(prev_keys[i]) /\ prev_keys[i] # keys[i]
              THEN send_key_event(g, Event(prev_keys[i], FALSE)) ELSE g
    IN  IF Key(keys[i]) /\ keys[i] # prev_keys[i] THEN send_key_event(up, Event(keys[i], TRUE)) ELSE up

\* A place of both reports: the old key is up unless the new report has it
\* somewhere, the new one goes down unless the old report had it.
ComparePlace(g, i, keys) ==
    LET up == IF Key(prev_keys[i]) /\ ~key_found(keys, prev_keys[i])
              THEN send_key_event(g, Event(prev_keys[i], FALSE)) ELSE g
    IN  IF Key(keys[i]) /\ ~key_found(prev_keys, keys[i]) THEN send_key_event(up, Event(keys[i], TRUE)) ELSE up

\* The rounds of its two loops, over the bits and then over the places.
Rounds == Len(Modifiers) + KeyMax
Round(g, n, keys, mods) ==
    IF n <= Len(Modifiers) THEN CompareBit(g, Modifiers[n], mods)
    ELSE ComparePlace(g, n - Len(Modifiers), keys)
Compared(keys, mods) ==
    LET after[n \in 0..Rounds] ==
          IF n = 0 THEN [down |-> held, ok |-> tidy] ELSE Round(after[n - 1], n, keys, mods)
    IN  after[Rounds]

\* What a keyboard may send: the keys that are down, each once and in any place,
\* or an error in every place.
Reports ==
    {k \in [1..KeyMax -> Usage \union {"none"}] : \A i, j \in 1..KeyMax : k[i] = k[j] => i = j \/ k[i] = "none"}
    \union {[i \in 1..KeyMax |-> "rollover"]}

\* hid_keyboard_report_cb
KeyReport(h, keys, mods) ==
    /\ Alive /\ device[h] = "started" /\ Use
    /\ IF kbd /\ kind[h] = Kind("keyboard", TRUE)
       THEN LET after == Compared(keys, mods)
            IN  /\ held' = after.down /\ tidy' = after.ok
                /\ prev_keys' = keys /\ prev_mod' = mods
                /\ report' = {u \in Usage : key_found(keys, u)} \union mods
       ELSE UNCHANGED keyVars
    /\ UNCHANGED <<setupVars, deviceVars, kbd, mouse>>

\* (int8_t) of a byte.
Signed(b) == IF b >= 128 THEN b - 256 ELSE b

\* Mutant: any negative step counts.
MouseMoves_Right(dx) == Signed(dx) <= 80
MouseMoves(dx) == Signed(dx) <= 80 /\ Signed(dx) >= -80

\* hid_mouse_report_cb, in one direction; a packet that moves too far is ignored
\* with its buttons.
MouseReport(h, buttons, dx) ==
    /\ Alive /\ device[h] = "started" /\ kind[h] = Kind("mouse", TRUE) /\ Use
    /\ mouse' = IF kbd /\ MouseMoves(dx)
                THEN [buttons |-> buttons % 8, dx |-> Signed(dx), sent |-> <<buttons, dx>>] ELSE mouse
    /\ UNCHANGED <<setupVars, deviceVars, keyVars, kbd>>

-----------------------------------------------------------------------------

UsbInit ==
    /\ setup = "start" /\ host = FALSE
    /\ device = [h \in Handle |-> "gone"] /\ kind = [h \in Handle |-> Idle.kind]
    /\ queue = <<>> /\ handling = Idle /\ dropped = {} /\ pulled = FALSE
    /\ kbd = FALSE /\ prev_keys = [i \in 1..KeyMax |-> "none"] /\ prev_mod = {}
    /\ held = {} /\ report = {} /\ tidy = TRUE
    /\ mouse = [buttons |-> 0, dx |-> 0, sent |-> <<0, 0>>] /\ uses = 0

UsbNext ==
    \/ Setup \/ Library \/ SetKbd \/ EventTask
    \/ \E h \in Handle :
         \/ Pull(h) \/ \E k \in Kinds : Plug(h, k)
         \/ \E keys \in Reports, mods \in SUBSET Range(Modifiers) : KeyReport(h, keys, mods)
         \/ \E buttons, dx \in Bytes : MouseReport(h, buttons, dx)

\* usb_event_task waits for the queue only.
UsbSpec == UsbInit /\ [][UsbNext]_usbVars /\ WF_usbVars(EventTask)

-----------------------------------------------------------------------------

\* The keys the guest takes to be down are those of the last report, whichever
\* keyboard sent it and wherever in it they stand, and no key goes down twice.
KeysExact == held = {Code[u] : u \in report} \ {0} /\ tidy

\* A device nobody has opened is still announced, being opened, or was dropped
\* by a full queue.
Announced ==
    \A h \in Handle : device[h] = "idle" /\ kind[h].proto # "none" /\ Alive =>
        h \in Range(queue) \/ h = handling.at \/ h \in dropped

\* Plugging in, however fast, does not restart the chip: only a device that is
\* pulled while it is opened does, or a host library that took too long.
SurvivesPlugging == setup = "abort" /\ host => pulled

\* A device waits to be opened.
Waiting(h) == device[h] = "idle" /\ kind[h].proto # "none" /\ setup = "run" /\ h \notin dropped
\* None waits for ever.
AllOpened == \A h \in Handle : Waiting(h) ~> ~Waiting(h)

\* The pointer moves as the mouse did.
MouseExact == mouse.dx \in -80..80 /\ (mouse.dx - mouse.sent[2]) % 256 = 0

\* Devices and pointer of the guest are those of the user, whenever they come
\* and go (hid_driver_cb, usb_event_task, hid_mouse_report_cb).
DevicesSound == Announced /\ SurvivesPlugging /\ MouseExact
=============================================================================
