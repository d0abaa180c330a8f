----------------------------- MODULE MCConsole -----------------------------
(* Two CPUs: a reader and a writer with a full transmit buffer; two readers  *)
(* with every kind of key and an input buffer that fills and wraps; kernel   *)
(* printing against the echo.                                                *)
EXTENDS Console

Machines == {
    [calls |-> <<consoleread(2), consolewrite(<<"a", "b", "a">>)>>, keys |-> <<"\n">>],
    [calls |-> <<consoleread(2) \o consoleread(1), <<>> >>, keys |-> <<"a", "D", "b", "\n">>],
    [calls |-> <<consoleread(1), consoleread(1)>>, keys |-> <<"a", "H", "b", "\n">>],
    [calls |-> <<consoleread(2) \o consoleread(2), <<>> >>, keys |-> <<"\n", "a", "U", "H", "b", "a", "b">>],
    [calls |-> <<printf, consolewrite(<<"b">>)>>, keys |-> <<"P", "a">>]}
=============================================================================
