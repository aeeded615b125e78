--------------------------- MODULE RocrailLayout ---------------------------
(***************************************************************************)
(* gateway/rocrail_layout.py: how the pieces of one Rocrail level get their  *)
(* direction from the pieces around them.  Rocrail's plan says which kind of *)
(* piece lies in a cell; the sides it connects on are found out in the order *)
(* in which the plan happens to list the pieces, curves and buffers first,   *)
(* then switches, and each choice is seen by the later ones.                 *)
(*                                                                          *)
(* `track` is the layout as it lies, well laid: a piece connects where, and  *)
(* only where, its neighbour connects back.  The code sees of it the kinds   *)
(* of the pieces, the direction of straights and the hand of switches; what  *)
(* Rocrail says of the direction of the others (`ori`) may be anything.      *)
(***************************************************************************)
EXTENDS Integers

CONSTANT Layouts   \* the layouts considered: functions from positions to Pieces

VARIABLES
    track,     \* the layout as it lies
    resolved,  \* positions whose _Cell.ports is not None
    ports,     \* _Cell.ports of those; {} for the others
    toe, branch,  \* _Cell.toe, _Cell.branch of switches; None until resolved
    settled    \* history: pieces whose direction the neighbours settled

vars == <<track, resolved, ports, toe, branch, settled>>

\* SIDES = "NESW", clockwise, as numbers.
N == 0
E == 1
S == 2
W == 3
Sides == 0..3
None  == -1

Opposite(side) == (side + 2) % 4

\* Mutant: turns the other way round.
Cw(side, quarter_turns) == (side + quarter_turns) % 4

Ccw(side, quarter_turns) == (side - quarter_turns) % 4

\* The position next to p on a side (_DELTA): y grows to the south.
Beside(p, side) ==
    CASE side = N -> <<p[1], p[2] - 1>>
      [] side = E -> <<p[1] + 1, p[2]>>
      [] side = S -> <<p[1], p[2] + 1>>
      [] side = W -> <<p[1] - 1, p[2]>>

-----------------------------------------------------------------------------
(* The pieces; a block is a run of straights.                               *)
Lines   == {{N, S}, {E, W}}
Corners == {{N, E}, {E, S}, {S, W}, {W, N}}

Clockwise(side) == (side + 1) % 4

\* A left switch with its toe in the south branches to the west.
BranchOf(toe_side, hand) ==
    IF hand = "left" THEN Clockwise(toe_side) ELSE Opposite(Clockwise(toe_side))

Through(toe_side, branch_side) == {toe_side, Opposite(toe_side), branch_side}

Pieces ==
    [kind : {"straight", "feedback"}, sides : Lines]
      \cup [kind : {"curve"}, sides : Corners]
      \cup [kind : {"buffer"}, sides : {{side} : side \in Sides}]
      \cup {[kind |-> "switch", toe |-> t, hand |-> h, sides |-> Through(t, BranchOf(t, h))] :
                t \in Sides, h \in {"left", "right"}}

ASSUME LayoutAssumption ==
    \A t \in Layouts : \A p \in DOMAIN t : p \in Int \X Int /\ t[p] \in Pieces

WellLaid(t) ==
    \A p \in DOMAIN t : \A side \in Sides :
        Beside(p, side) \in DOMAIN t =>
            (side \in t[p].sides <=> Opposite(side) \in t[Beside(p, side)].sides)

Positions == DOMAIN track
Kind(p) == track[p].kind
Known == {"straight", "feedback"}

-----------------------------------------------------------------------------
(* parse_pages has put the level's pieces into its grid.                    *)
Init ==
    /\ track \in Layouts
    /\ WellLaid(track)
    /\ resolved = {p \in Positions : Kind(p) \in Known}
    /\ ports = [p \in Positions |-> IF Kind(p) \in Known THEN track[p].sides ELSE {}]
    /\ toe = [p \in Positions |-> None]
    /\ branch = [p \in Positions |-> None]
    /\ settled = {}

\* Mutant: neighbours that have no ports yet are left out.
AcceptingResolved(p) ==
    {side \in Sides : /\ Beside(p, side) \in resolved
                      /\ Opposite(side) \in ports[Beside(p, side)]}

\* _accepting_sides
AcceptingSides(p) ==
    {side \in Sides : /\ Beside(p, side) \in Positions
                      /\ \/ Beside(p, side) \notin resolved
                         \/ Opposite(side) \in ports[Beside(p, side)]}

Resolves(p, sides) ==
    /\ resolved' = resolved \cup {p}
    /\ ports' = [ports EXCEPT ![p] = sides]

\* A piece that the neighbours settle, or that takes any of the directions
\* Rocrail's `ori` may name.
Settles(p, sides) ==
    /\ Resolves(p, sides)
    /\ settled' = settled \cup {p}
    /\ UNCHANGED <<track, toe, branch>>

Falls(p, choices) ==
    /\ \E sides \in choices : Resolves(p, sides)
    /\ UNCHANGED <<track, toe, branch, settled>>

(* _resolve, first loop: two accepting sides, not opposite; one of them.     *)
ResolveCurve(p) ==
    /\ Kind(p) = "curve" /\ p \notin resolved
    /\ IF AcceptingSides(p) \in Corners
       THEN Settles(p, AcceptingSides(p))
       ELSE Falls(p, Corners)

Stubs == {{side} : side \in Sides}

ResolveBuffer(p) ==
    /\ Kind(p) = "buffer" /\ p \notin resolved
    /\ IF AcceptingSides(p) \in Stubs
       THEN Settles(p, AcceptingSides(p))
       ELSE Falls(p, Stubs)

(* _resolve_switch, second loop.  Three accepting sides: the one without an  *)
(* opposite is the branch; a two-sided piece there leans away from the toe.  *)
TracksDone == \A p \in Positions : Kind(p) \in {"curve", "buffer"} => p \in resolved

IsBranch(p, b) == AcceptingSides(p) = Sides \ {Opposite(b)}

\* Mutant: the toe is where the branch leans to.
LeansFromToe(p, b, t) ==
    /\ IsBranch(p, b)
    /\ Beside(p, b) \in resolved
    /\ ports[Beside(p, b)] = {Opposite(b), t}
    /\ t \in AcceptingSides(p) \ {b}

Leans(p, b, t) ==
    /\ IsBranch(p, b)
    /\ Beside(p, b) \in resolved
    /\ ports[Beside(p, b)] = {Opposite(b), Opposite(t)}
    /\ Opposite(t) \in AcceptingSides(p) \ {b}

Directs(p, t, b) ==
    /\ Resolves(p, Through(t, b))
    /\ toe' = [toe EXCEPT ![p] = t]
    /\ branch' = [branch EXCEPT ![p] = b]
    /\ UNCHANGED track

SwitchSettled(p) ==
    /\ Kind(p) = "switch" /\ p \notin resolved /\ TracksDone
    /\ \E b, t \in Sides : Leans(p, b, t) /\ Directs(p, t, b)
    /\ settled' = settled \cup {p}

\* The toe is assumed in the west.
SwitchAssumed(p) ==
    /\ Kind(p) = "switch" /\ p \notin resolved /\ TracksDone
    /\ ~ \E b, t \in Sides : Leans(p, b, t)
    /\ Directs(p, W, IF track[p].hand = "right" THEN S ELSE N)
    /\ UNCHANGED settled

Resolve(p) == ResolveCurve(p) \/ ResolveBuffer(p) \/ SwitchSettled(p) \/ SwitchAssumed(p)

Next == \E p \in Positions : Resolve(p)

Spec == Init /\ [][Next]_vars

-----------------------------------------------------------------------------
(* _element: the tile drawn for a resolved cell.                            *)
Rotations == 0..3

BufferRotation(sides) == (N - (CHOOSE stub \in sides : TRUE)) % 4

\* The first that fits.
CurveRotation(sides) ==
    LET turned == {r \in Rotations : {Ccw(E, r), Ccw(S, r)} = sides}
    IN  IF turned = {} THEN 0 ELSE CHOOSE r \in turned : \A q \in turned : r <= q

Element(p) ==
    LET upright  == IF N \in ports[p] THEN 1 ELSE 0
        rotation == (S - toe[p]) % 4
    IN  CASE Kind(p) = "straight" -> [typ |-> "gerade", rotation |-> upright]
          [] Kind(p) = "feedback" -> [typ |-> "s88kontakt", rotation |-> upright]
          [] Kind(p) = "buffer"   -> [typ |-> "prellbock", rotation |-> BufferRotation(ports[p])]
          [] Kind(p) = "curve"    -> [typ |-> "bogen", rotation |-> CurveRotation(ports[p])]
          [] Kind(p) = "switch"   -> [typ |-> IF branch[p] = Ccw(W, rotation) THEN "linksweiche"
                                                                             ELSE "rechtsweiche",
                                      rotation |-> rotation]

\* TrainControl's port table (TilePorts.java), as the module's docstring gives
\* it: the sides at rotation 0, turned counter-clockwise.
TilePorts(tile) ==
    LET at_rest == CASE tile.typ \in {"gerade", "s88kontakt"} -> {E, W}
                     [] tile.typ = "bogen"        -> {E, S}
                     [] tile.typ = "prellbock"    -> {N}
                     [] tile.typ = "linksweiche"  -> {S, N, W}
                     [] tile.typ = "rechtsweiche" -> {S, N, E}
    IN  {Ccw(side, tile.rotation) : side \in at_rest}

-----------------------------------------------------------------------------
(* Every variable has its type; a switch has its toe and branch when it is   *)
(* resolved, and nothing else has.                                          *)
TypeOK ==
    /\ resolved \subseteq Positions
    /\ ports \in [Positions -> SUBSET Sides]
    /\ toe \in [Positions -> Sides \cup {None}]
    /\ branch \in [Positions -> Sides \cup {None}]
    /\ \A p \in Positions :
          (p \in resolved /\ Kind(p) = "switch") <=> (toe[p] # None /\ branch[p] # None)
    /\ settled \subseteq resolved

(* The tile drawn for a piece, turned as written, connects on the sides the  *)
(* piece was resolved to, whatever its kind and whether its direction was    *)
(* settled or assumed (rocrail_layout.py: "Tile geometry comes from          *)
(* TrainControl's own port table").                                         *)
DrawnAsResolved == \A p \in resolved : TilePorts(Element(p)) = ports[p]

\* What the neighbours can settle: every side has a neighbour, and no
\* neighbour that does not connect still accepts everything when its turn
\* comes.
Recoverable ==
    \A p \in Positions : Kind(p) \notin Known =>
        /\ \A side \in track[p].sides : Beside(p, side) \in Positions
        /\ \A side \in Sides \ track[p].sides :
              Beside(p, side) \in Positions =>
                  Kind(Beside(p, side)) \in
                      Known \cup (IF Kind(p) = "switch" THEN {"curve", "buffer"} ELSE {})
        /\ Kind(p) = "switch" =>
              Kind(Beside(p, BranchOf(track[p].toe, track[p].hand))) = "curve"

(* The layout comes out as it lies, in whatever order the plan lists its     *)
(* pieces and whatever Rocrail says of their orientation ("derived from      *)
(* which neighbouring cells connect to them", rocrail_layout.py).            *)
Reconstructed == Recoverable => \A p \in resolved : ports[p] = track[p].sides

(* A switch whose diverging route leans away from its toe is drawn with its  *)
(* toe where it lies, and with the hand Rocrail knows it by.                 *)
DivergesForward(p) ==
    LET b == BranchOf(track[p].toe, track[p].hand)
    IN  Opposite(track[p].toe) \in track[Beside(p, b)].sides

SwitchDirected ==
    Recoverable => \A p \in resolved :
        Kind(p) = "switch" /\ DivergesForward(p) =>
            /\ toe[p] = track[p].toe
            /\ Element(p).typ = IF track[p].hand = "left" THEN "linksweiche" ELSE "rechtsweiche"
=============================================================================
