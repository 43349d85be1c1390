---------------------------- MODULE MCGimbalCore ----------------------------
(***************************************************************************)
(* Small instances of GimbalCore.  A turn is four angle units, one wire    *)
(* count is two units of rate: a rate of one unit rounds up to a count, a  *)
(* ceiling of three to two counts.                                         *)
(***************************************************************************)
EXTENDS GimbalCore

CONSTANTS
  Tilt,      \* the angles of commands and of telemetry
  Pace,      \* the rates of commands
  Settings,  \* names of the configurations
  Delays     \* the ages of telemetry samples

FullTurn == -1 .. 2        \* every wrapped angle
FewTilts == {0, 2}
AllPaces == {-4, 0, 1}

(* The inputs of the roll axis, which only has to differ from the other.    *)
FewOnRoll(inputs, few) ==
  {v \in inputs : "roll" \in Axes => v["roll"] \in few}

(* Small configurations over the axes of the instance. *)
On(x) == [a \in Axes |-> x]
Plain ==
  [maxRate |-> On(3), limitMin |-> On(-1), limitMax |-> On(1), invert |-> On(FALSE),
   enforceLimits |-> TRUE, rollLocked |-> FALSE,
   commandTimeout |-> 1, angleFresh |-> 1, slew |-> 2]
Tight   == [Plain EXCEPT !.maxRate = On(1), !.limitMin = On(0), !.rollLocked = TRUE,
                         !.invert = On(TRUE)]
Free    == [Plain EXCEPT !.enforceLimits = FALSE, !.rollLocked = TRUE]
Reversed == [Plain EXCEPT !.limitMin = On(1), !.limitMax = On(-1)]
Broken   == [Plain EXCEPT !.maxRate = On(NaN), !.limitMin = On(NaN)]

MCDefaults == Plain
MCConfigs ==
  LET all == [plain |-> Plain, tight |-> Tight, free |-> Free,
              reversed |-> Reversed, broken |-> Broken]
  IN  {all[name] : name \in Settings}
MCRates    ==
  FewOnRoll([Axes -> Pace], {1}) \cup {On(NaN)}
MCAngles   ==
  FewOnRoll([Axes -> Tilt], {2}) \cup {On(NaN)}
MCReports  == [valid : {TRUE}, angle : FewOnRoll([Axes -> Tilt], FewTilts), age : Delays]
              \cup {[valid |-> FALSE, angle |-> On(0), age |-> 0],
                    [valid |-> TRUE, angle |-> On(NaN), age |-> 0],
                    [valid |-> TRUE, angle |-> On(0), age |-> NaN]}
=============================================================================
