----------------------------- MODULE MCPathSum -----------------------------
(***************************************************************************)
(* Every circuit of one qubit to depth 5 and of two qubits to depth 4, and *)
(* longer circuits as trials of the empty register.                        *)
(***************************************************************************)
EXTENDS PathSum

G(op, q) == Gate(op, q, 0)
Rz(q, ticks) == Gate("rz", q, ticks)
CX(control, target) == Gate("cx", target, control)
Circuit(ops, q) == [i \in 1..Len(ops) |-> G(ops[i], q)]

MCGates(n) ==
  IF n = 1 THEN {G(op, 0) : op \in {"x", "h", "sx", "t", "s"}} \cup {Rz(0, 1)}
  ELSE {G(op, q) : op \in {"h", "t", "s"}, q \in 0..1} \cup {G("x", 0), CX(0, 1), CX(1, 0)}
MCDepth(n) == IF n = 1 THEN 5 ELSE 4

\* The families of test_gauge_canonicalization_completeness: H = RZ SX RZ, X
\* flips the sign of RZ, gates on two qubits commute.
Local(n) ==
  UNION {{<< <<G("h", q)>>, <<Rz(q, 4), G("sx", q), Rz(q, 4)>> >>}
         \cup {<< <<Rz(q, k), G("x", q)>>, <<G("x", q), Rz(q, Turn - k)>> >> : k \in {1, 2, 5}} :
         q \in 0..n-1}
Disjoint ==
  {<< <<G(a, 0), G(b, 1)>>, <<G(b, 1), G(a, 0)>> >> :
     a \in {"h", "sx", "t", "s", "x"}, b \in {"h", "t", "s", "x"}}

\* One operator through other path variables: Z H for H X, a body that ties
\* the variables, and the H that hide them behind new ones in either order.
Flipped(q) == {Circuit(<<"z", "h">>, q), Circuit(<<"h", "x">>, q)}
Hide == {<<G("h", 0), G("h", 1)>>, <<G("h", 1), G("h", 0)>>}
Hidden(body) == {f \o g \o body \o h : f \in Flipped(0), g \in Flipped(1), h \in Hide}
Pairs(circuits) == {<<c, d>> : c \in {CHOOSE c \in circuits : TRUE}, d \in circuits}

Apart(k) == <<Rz(0, 1), Rz(1, k), CX(0, 1), Rz(1, 2)>>
Tied == <<Rz(0, 2), Rz(1, 1), CX(0, 1), Rz(1, 2)>>

\* Runs out of variables.
Crowded == Circuit(<<"h", "t", "h", "t", "h", "t", "h", "t", "h", "t", "h", "x">>, 0)

MCRewrites(n, left) ==
  IF left = 1 THEN {}
  ELSE IF left < MCDepth(n) THEN Local(n) \cup (IF n = 1 THEN {} ELSE Disjoint)
  ELSE IF n = 1 THEN Local(n) \cup {<<Crowded, Crowded>>}
  ELSE Pairs(Hidden(Apart(1))) \cup Pairs(Hidden(Apart(7))) \cup {<<c, c>> : c \in Hidden(Tied)}

\* The trials of PathSumTies: two of the three parities have the same angle.
TiesGates(n) == {}
TiesDepth(n) == 1
TiesRewrites(n, left) ==
  {<< <<G("h", 0), G("h", 1)>> \o Tied \o h, <<G("h", 0), G("h", 1)>> \o Tied \o k>> :
     h \in Hide, k \in Hide}
=============================================================================
