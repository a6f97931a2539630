-------------------------- MODULE MCSymbolRegistry --------------------------
(* An instance of SymbolRegistry for TLC: three sites in the program, one   *)
(* in a library that may be unloaded at exit, one in [vdso].  Two sites of  *)
(* the program are in one function.                                         *)
EXTENDS SymbolRegistry

MCText == STRING

MCSite == {11, 12, 13, 21, 31}

Mapping(lower, upper, file, elf) ==
    [lower |-> lower, upper |-> upper, file |-> file, elf |-> elf]

MCProcMaps == {
    <<Mapping(10, 13, "a.out", TRUE), Mapping(13, 15, "a.out", TRUE),
      Mapping(20, 25, "lib.so", TRUE), Mapping(30, 35, "[vdso]", FALSE)>>,
    <<Mapping(10, 15, "a.out", TRUE), Mapping(30, 35, "[vdso]", FALSE)>>}

MCdebugFunction ==
    11 :> "main" @@ 12 :> "main" @@ 13 :> "run" @@ 21 :> "solve" @@ 31 :> "vdso"

MCdebugFile ==
    11 :> "main.c" @@ 12 :> "main.c" @@ 13 :> "main.c" @@ 21 :> "solve.c" @@ 31 :> "vdso.c"

(* backtrace_symbols knows exported symbols, and the address otherwise.     *)
MCdynamicSymbol ==
    2 :> "[0x2]" @@ 11 :> "a.out [11]" @@ 12 :> "a.out [12]" @@ 13 :> "run"
        @@ 21 :> "solve" @@ 31 :> "__vdso_time"

=============================================================================
