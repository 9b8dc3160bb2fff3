------------------------------ MODULE MCFirmware ------------------------------
(***************************************************************************)
(* Small instances of the firmware around the interpreter in one run: a    *)
(* behaviour is one of Startup, DebugconRing, PcPorts, UsbInput or of the  *)
(* VGA's memory, modes and ports, chosen by `unit', and leaves the         *)
(* variables of the others alone.                                          *)
(***************************************************************************)
EXTENDS Startup, VgaModes, DebugconRing, PcPorts, UsbInput, VgaMemory, VgaPorts, TLC

VARIABLE unit

\* Texts of the same shape, but shorter.
Boot == <<"B", "o", "o">>
Shutdown == <<"S", "h", "u">>

\* x is a key the table does not know.
Codes == ("a" :> 30) @@ ("b" :> 48) @@ ("x" :> 0) @@ ("shift" :> 42)
Shifts == <<"shift">>

\* Register files: every write mode and function, both read modes, chain-4 and
\* odd/even addressing, with all planes enabled and with some.
Gr(p) == p @@ [sr |-> {}, enable |-> {}, compare |-> {}, care |-> 0..3, rotate |-> 0, func |-> 0, plane |-> 0,
               mode |-> 0, read1 |-> FALSE, oddeven |-> FALSE, map |-> 0, mask |-> 0 .. Bits - 1]
File(m, c4, b, g) == [sr |-> [mask |-> m, chain4 |-> c4], gr |-> Gr(g), bank |-> b]
Some == {0..3, {0, 3}}
Files ==
  {File({0, 3}, FALSE, 0, [enable |-> e, sr |-> {0, 1}, rotate |-> 1, func |-> f, mask |-> {1, 2}]) :
      e \in {{}, {1, 3}}, f \in 0..3}
  \cup {File(m, FALSE, 0, [mode |-> 1]) : m \in Some}
  \cup {File({1}, FALSE, 0, [mode |-> 2, func |-> f, mask |-> {0, 3}]) : f \in {0, 3}}
  \cup {File(0..3, FALSE, 0, [mode |-> 3, sr |-> {0, 2}, rotate |-> 1, func |-> f, mask |-> {0, 3}]) : f \in {0, 2}}
  \cup {File(0..3, FALSE, 0, [read1 |-> TRUE, compare |-> {0, 2}, care |-> d]) : d \in {0..3, {0, 1}}}
  \cup {File(m, TRUE, Span \div 2, [map |-> p]) : m \in {0..3, {}, {0, 1}}, p \in {0, 1, 3}}
  \cup {File(m, FALSE, b, [oddeven |-> TRUE, plane |-> 2, map |-> 1]) : m \in Some, b \in {0, Span \div 2}}
Shades == {{0}, {1, 3}}
Picture == [c \in 0 .. RamSize - 1 |-> {(c * 3 + 1) % 4, (c * c) % 4}]

\* Values of the display registers: valid, to be rounded, and out of bounds.
VbeValues == [xres |-> {0, 9, 640}, yres |-> {0, 480, 768}, bpp |-> {4, 3, 15, 16},
              vwidth |-> {0, 20, 1024}, vheight |-> {9}, xoff |-> {0, 12}, yoff |-> {0, 3}, bank |-> {1, 3}]

ASSUME RingSizes /\ PortTexts /\ UsbSizes /\ VideoSizes /\ ModesSizes /\ PortsSizes

around == <<ringVars, boardVars, usbVars, vgaVars, modeVars, portVars>>

-------------------------------------------------------------------------------
Units == {"tasks", "ring", "board", "usb", "video", "modes", "dac", "attributes"}

\* A part that does not run stays in one of its initial states.
FirmwareInit ==
  /\ unit \in Units
  /\ Init /\ RingInit /\ BoardInit /\ UsbInit /\ ModesInit
  /\ VgaInit /\ (unit = "video" \/ (gr = Gr([mode |-> 1]) /\ sr.mask = 0..3))
  /\ PortsInit /\ (unit \in {"dac", "attributes"} \/ (sub = 0 /\ flip = 0 /\ msr))

TasksStep(A) == unit = "tasks" /\ A /\ UNCHANGED <<unit, around>>
RingStep(A) == unit = "ring" /\ A /\ UNCHANGED <<unit, vars, boardVars, usbVars, vgaVars, modeVars, portVars>>
UsbStep(A) == unit = "usb" /\ A /\ UNCHANGED <<unit, vars, ringVars, boardVars, vgaVars, modeVars, portVars>>

FirmwareNext ==
  \/ TasksStep(Next) \/ RingStep(RingNext) \/ UsbStep(UsbNext)
  \/ unit = "board" /\ BoardNext /\ UNCHANGED <<unit, vars, ringVars, usbVars, vgaVars, modeVars, portVars>>
  \/ unit = "video" /\ VgaNext /\ UNCHANGED <<unit, vars, ringVars, boardVars, usbVars, modeVars, portVars>>
  \/ unit = "modes" /\ ModesNext /\ UNCHANGED <<unit, vars, ringVars, boardVars, usbVars, vgaVars, portVars>>
  \/ /\ \/ unit = "dac" /\ DacNext
        \/ unit = "attributes" /\ AttrNext
     /\ UNCHANGED <<unit, vars, ringVars, boardVars, usbVars, vgaVars, modeVars>>

\* The fairness of the parts that have one.
FirmwareSpec ==
  /\ FirmwareInit /\ [][FirmwareNext]_<<unit, vars, around>>
  /\ WF_vars(TasksStep(App)) /\ WF_vars(TasksStep(I386))
  /\ WF_vars(TasksStep(I2s)) /\ WF_vars(TasksStep(Vga))
  /\ WF_ringVars(RingStep(Reader))
  /\ WF_ringVars(RingStep(WriteDrop \/ WritePut \/ WritePublish))
  /\ WF_usbVars(UsbStep(EventTask))

-------------------------------------------------------------------------------

\* A guest that boots is shown: pc_main tells vga_task before it leaves its loop.
GuestShown == unit = "tasks" /\ seen ~> (Drawing \/ at["app"] = "panic")

\* The tasks do not wait for each other in a circle: the guest gets to run, or
\* its configuration is bad, or a step fails and the chip restarts.
AllStart == unit = "tasks" /\ at["app"] = "start" ~> (at["i386"] \in {"step", "gone"} \/ at["app"] = "panic")
===============================================================================
