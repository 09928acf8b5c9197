----------------------------- MODULE MCController -----------------------------
(***************************************************************************)
(* Instances of Controller: a memory switch lamp, a switch fan that reports*)
(* output l1, a button bell and a binary sensor door.  The lists contain   *)
(* every type of action, an ignored error, and outputs that change before  *)
(* a later action of the same list fails.                                  *)
(***************************************************************************)
EXTENDS Controller

CONSTANTS lamp, fan, bell, door, l1

Gpio(l, v) == [type |-> "gpio", line |-> l, value |-> v, ignore |-> FALSE]
Other(t, i) == [type |-> t, line |-> Nothing, value |-> FALSE, ignore |-> i]

AllActions ==
    [e \in {lamp, fan, bell} |->
        CASE e = lamp -> [ON |-> <<Other("delay", FALSE), Other("command", FALSE)>>,
                          OFF |-> <<Other("command", TRUE), Other("mqtt", FALSE)>>]
          [] e = fan -> [ON |-> <<Gpio(l1, TRUE), Other("command", FALSE)>>,
                         OFF |-> <<Gpio(l1, FALSE)>>]
          [] e = bell -> [PRESS |-> <<Other("delay", FALSE), Other("mqtt", FALSE)>>]]

FanLine == [s \in GpioSwitch |-> l1]

InitiallyOff == [s \in MemorySwitch |-> FALSE]

LampAndDoor == <<lamp, door>>
FanAlone == <<fan>>
=============================================================================
