------------------------------ MODULE MCPanels ------------------------------
EXTENDS Panels

CONSTANTS s1, s2

MCScripts == {s1, s2}

Small == {<< >>, <<0>>, <<1>>, <<0, 1>>}
MCContents ==
    [p \in {"templates", "analysis", "compare", "search", "find", "scan", "strings", "rows"} |->
        CASE p \in {"search", "strings", "rows"} -> {<< >>}
          [] p = "find"   -> {<<0>>, <<0, 0>>, <<0, 1>>}
          [] p = "scan"   -> UNION {[1 .. n -> {0, 1}] : n \in 1 .. 5}
          [] p = "templates" -> Small \ {<<1>>}
          [] OTHER            -> Small]
MCPatterns == {<<0>>, <<0, 0>>}
MCScanPatterns == {<<0>>, <<0, 0>>, <<0, 1>>, <<0, 1, 0>>}

Words(letters, n) == UNION {[1 .. k -> letters] : k \in 1 .. n}
MCSamples ==
    [encoding \in {"ascii", "utf8", "utf16"} |->
        CASE encoding = "ascii" -> Words({"p", "n"}, 5)
          [] encoding = "utf8"  -> Words({"p", "n", "c", "d", "t"}, 4)
          [] encoding = "utf16" -> Words({"p", "n"}, 7)]

MCMaxChanges == [p \in DOMAIN MCContents |-> IF p = "find" THEN 1 ELSE 2]

=============================================================================
