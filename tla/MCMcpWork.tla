--------------------------- MODULE MCMcpWork ---------------------------
(* Bounds for model checking McpWork.                                     *)
EXTENDS McpWork

CONSTANTS c1, c2, w1, w2

(* McpControl: the write path and the bridge share the grants; each        *)
(* behaviour has much of one of them.                                      *)
Budget(clients, writes, changes, edits, starts, crashes, script) ==
    [clients |-> clients, writes |-> writes, changes |-> changes, edits |-> edits,
     starts |-> starts, crashes |-> crashes, script |-> script]

MCBudgets ==
    {Budget({c1}, {w1, w2}, 2, 1, 0, 0, FALSE),   \* two requests, one place in the list
     Budget({c1}, {w1}, 3, 2, 0, 1, TRUE),        \* one request and all that overtakes it
     Budget({c1}, {}, 3, 1, 2, 1, FALSE),         \* the bridge, started again
     Budget({c1, c2}, {}, 3, 0, 2, 0, FALSE)}     \* the bridge, bound to another client

(* McpServer: connections that compete for permits, and a batch that is    *)
(* handled while desktops come and go.                                     *)
Request(method, path, holds, origin, version, json, accepts) ==
    [method |-> method, path |-> path, token |-> holds, origin |-> origin,
     version |-> version, json |-> json, accepts |-> accepts]
Post(holds) == Request("POST", TRUE, holds, TRUE, TRUE, TRUE, {"json"})
Stream == Request("GET", TRUE, TRUE, TRUE, TRUE, TRUE, {"sse"})
Odd == {Request("GET", TRUE, TRUE, TRUE, TRUE, TRUE, {"json"}),
        Request("POST", TRUE, TRUE, FALSE, TRUE, TRUE, {"json"}),
        Request("POST", TRUE, TRUE, TRUE, TRUE, FALSE, {"json"}),
        Request("POST", FALSE, TRUE, TRUE, TRUE, TRUE, {"json"})}
Item(is, id) == [is |-> is, id |-> id]

MCLoads ==
    {[conns |-> {"a", "b"}, desktops |-> {"d"}, envelopes |-> {<<Item("write", TRUE)>>},
      requests |-> {Post(TRUE), Stream}],
     [conns |-> {"a"}, desktops |-> {"d", "e"}, requests |-> {Post(TRUE)},
      envelopes |-> {<<Item("write", TRUE)>>, <<Item("read", TRUE)>>}],
     [conns |-> {"a"}, desktops |-> {}, requests |-> {Post(TRUE), Post(FALSE)} \cup Odd,
      envelopes |-> {<<>>, <<Item("malformed", FALSE), Item("write", TRUE)>>,
                     <<Item("read", TRUE), Item("local", TRUE)>>,
                     <<Item("local", TRUE), Item("local", TRUE), Item("local", TRUE)>>}]}

(* ContentUpload: two processes of one client or of two. *)
MCAssignments == {[p \in {"p", "q"} |-> "c"], [p \in {"p", "q"} |-> IF p = "p" THEN "c" ELSE "d"]}

(* HttpFraming: bodies of every form, data that looks like a line end, and *)
(* what is wrong with them.                                                *)
MCMessages ==
    {m \in [chunked : BOOLEAN, trailers : 0..2, extra : {<<>>, <<"x">>}, head : {1, 3},
            broken : {"none", "size", "end", "trailer"}, authorized : BOOLEAN,
            parts : {<<>>, <<<<"a">>>>, <<<<"a", "cr">>, <<"lf">>>>,
                     <<<<"a", "b", "a">>, <<"b">>>>}] :
        /\ ~m.chunked => m.broken = "none" /\ m.trailers = 0
        /\ m.broken = "trailer" => m.trailers > 0
        /\ m.broken \in {"size", "end"} => m.parts # <<>>}
============================================================================
