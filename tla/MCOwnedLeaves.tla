--------------------------- MODULE MCOwnedLeaves ---------------------------
(* OwnedLeaves on one server table s with both transports, its arguments,  *)
(* approvals and a key of the user's, and one container t of two settings. *)
EXTENDS OwnedLeaves, TLC

MCLeaves == {"cmd", "url", "args", "x", "y"}
MCOrder == <<"args", "cmd", "url", "x", "y">>
MCTables == {"ms", "s", "t"}
MCAbove ==
  [x \in {"cmd", "url", "args", "tools", "env"} |-> {"ms", "s"}]
    @@ [x \in {"x", "y"} |-> {"t"}]
    @@ [x \in {"ms", "t"} |-> {}]
    @@ ("s" :> {"ms"})

Declared(f) == f @@ [l \in MCLeaves |-> None]
MCCatalogs ==
  {Declared(<<>>),
   Declared("cmd" :> "v1" @@ "args" :> "v1" @@ "x" :> "v1"),
   Declared("cmd" :> "v2" @@ "y" :> "v1"),
   Declared("url" :> "v1")}

Present(f) == f @@ [x \in MCLeaves \cup MCTables \cup {"tools", "env"} |-> None]
MCExisting ==
  {Present(<<>>),
   Present("ms" :> "table" @@ "s" :> "table" @@ "cmd" :> "v1" @@ "args" :> "v1"
             @@ "tools" :> "own"),
   Present("ms" :> "table" @@ "s" :> "table" @@ "url" :> "v1" @@ "args" :> "empty"
             @@ "t" :> "table" @@ "x" :> "own")}
=============================================================================
