-------------------------- MODULE MCRocrailLayout --------------------------
(* Small layouts for TLC: two rows of three cells in which every curve,      *)
(* buffer and switch has its neighbours, and single rows of two cells in     *)
(* which it may not.                                                        *)
EXTENDS RocrailLayout

Empty == [kind |-> "empty", sides |-> {}]

\* Contacts lie north-south here and plain straights east-west.
Tiles == {Empty} \cup {piece \in Pieces : /\ piece.kind = "straight" => piece.sides = {E, W}
                                          /\ piece.kind = "feedback" => piece.sides = {N, S}}

Fits(a, sideA, b, sideB) ==
    a # Empty /\ b # Empty => (sideA \in a.sides <=> sideB \in b.sides)

Fixed(a) == a.kind \notin Known \cup {"empty"}

\* No curve, buffer or switch of the row opens to the west or east on nothing.
Closed(row, width) ==
    \A x \in 1..width : Fixed(row[x]) =>
        /\ W \in row[x].sides => (x > 1 /\ row[x - 1] # Empty)
        /\ E \in row[x].sides => (x < width /\ row[x + 1] # Empty)

Rows(width) == {row \in [1..width -> Tiles] :
                    \A x \in 1..(width - 1) : Fits(row[x], E, row[x + 1], W)}

ClosedRows == {row \in Rows(3) : Closed(row, 3)}

Stacks(upper, lower) ==
    \A x \in 1..3 :
        /\ Fits(upper[x], S, lower[x], N)
        /\ Fixed(upper[x]) =>
              (N \notin upper[x].sides /\ (S \in upper[x].sides => lower[x] # Empty))
        /\ Fixed(lower[x]) =>
              (S \notin lower[x].sides /\ (N \in lower[x].sides => upper[x] # Empty))

Placed(rows, width, height) ==
    LET taken == {p \in (1..width) \X (1..height) : rows[p[2]][p[1]] # Empty}
    IN  [p \in taken |-> rows[p[2]][p[1]]]

MCLayouts ==
    {Placed(<<pair[1], pair[2]>>, 3, 2) :
        pair \in {q \in ClosedRows \X ClosedRows : Stacks(q[1], q[2])}}
      \cup {Placed(<<row>>, 2, 1) : row \in Rows(2)}
=============================================================================
