--------------------------- MODULE MCOperatorConsole ---------------------------
(***************************************************************************)
(* OperatorConsole with the connections all there, one of them in trouble  *)
(* or two, and snapshots on both sides of every threshold.                 *)
(***************************************************************************)
EXTENDS OperatorConsole

CONSTANTS r1, r2

Healthy == [c \in Components |-> "healthy"]
Lost(lost) == [c \in Components \ lost |-> "healthy"]
MCLinks ==
  {Healthy}
  \cup {[Healthy EXCEPT ![c] = s] : c \in Components, s \in {"degraded", "down"}}
  \cup {Lost({c}) : c \in Components}
  \cup {Lost(Components), [Lost({"RISK"}) EXCEPT !["DB"] = "down"]}

Flags == {<<TRUE, TRUE, TRUE>>, <<FALSE, TRUE, TRUE>>, <<TRUE, FALSE, TRUE>>,
          <<TRUE, TRUE, FALSE>>}
Quotes == {<<Unknown, Unknown, 10>>, <<400, Unknown, 10>>, <<Unknown, 500, 10>>,
           <<400, 430, 10>>, <<400, 450, 10>>, <<400, 451, 1>>, <<400, 900, 100>>,
           <<400, 901, 100>>}
Depths == {<<Unknown, Unknown, Unknown>>, <<5, Unknown, Unknown>>, <<0, 5, Unknown>>,
           <<5, 50, Unknown>>, <<6, 50, Unknown>>, <<4, 5, Unknown>>, <<50, 5, 4>>,
           <<9, 9, 10>>}
Times == {<<Unknown, 0, 0>>, <<14, 0, 0>>, <<15, 4, 0>>, <<60, 14, 3>>, <<120, 15, 0>>,
          <<Unknown, Unknown, 0>>, <<-5, 5, 4>>, <<119, 0, 1>>}

MCSnapshots ==
  {[active |-> f[1], accepting |-> f[2], available |-> f[3],
    bid |-> q[1], ask |-> q[2], tick |-> q[3], minSize |-> 5,
    bidDepth |-> d[1], askDepth |-> d[2], topDepth |-> d[3],
    expiry |-> t[1], idle |-> t[2], gaps |-> t[3]] :
     f \in Flags, q \in Quotes, d \in Depths, t \in Times}

=============================================================================
