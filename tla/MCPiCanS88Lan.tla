--------------------------- MODULE MCPiCanS88Lan ---------------------------
(* Values for the constants of PiCanS88Lan that a .cfg cannot write.         *)
EXTENDS PiCanS88Lan, TLC

Symmetry == Permutations(Clients)

Frame(id, name) == [id |-> id, resp |-> FALSE, body |-> Body(name)]
Page(digits) == [id |-> "config", resp |-> FALSE, body |-> [name |-> "gbs-", digits |-> digits]]
Compressed(n) == [k \in 1..n |-> (37 * k + 200) % 256]

MCBusFrames == {Frame("other", "a"), Standard}
MCDatagrams == {Frame("pong", "b"), Short}
MCTcpFrames ==
    {Frame("other", "c"), Frame("config", "loks"), Frame("copy", "c"), Frame("ms1", "c"),
     Page(<<0, 1>>), Page(<<0, 2>>), Page(<<0, 7>>)}

\* Two writes of frames; exactly one packet; too large.
MCFiles == [n \in {"lokomotive.cs2", "magnetartikel.cs2", "gleisbild.cs2", "station"} |->
              CASE n = "lokomotive.cs2" -> [size |-> 300, deflated |-> Compressed(17)]
                [] n = "magnetartikel.cs2" -> [size |-> 5, deflated |-> Compressed(4)]
                [] n = "gleisbild.cs2" -> [size |-> 90000, deflated |-> Compressed(24)]
                [] n = "station" -> [size |-> 70, deflated |-> Compressed(11)]]

\* A name before the first page, a page 0 without an id, a page 2, one past the array.
MCTrackFile == << <<"name", "plan">>, <<"seite">>, <<"name", "station">>,
                  <<"seite">>, <<"id", 2>>, <<"name", "yard">>,
                  <<"seite">>, <<"id", 5>>, <<"name", "attic">> >>

\* Below every index, and past the word after the table.
MCGarbage == {-7, MaxConn + 1}
=============================================================================
