------------------------------ MODULE MCSessions ------------------------------
EXTENDS Sessions

Text(kind, text, side) == [kind |-> kind, text |-> text, side |-> side, sorted |-> FALSE]

\* Titled by the user and then by the CLI; a meta prompt first; a sidechain.
Titled == <<Text("custom-title", 10, FALSE), Text("prompt", 11, FALSE), Text("ai-title", 12, FALSE),
            Text("reply", 13, FALSE)>>
Caveat == <<Text("meta", 14, FALSE), Text("prompt", 15, FALSE), Text("last-prompt", 16, FALSE)>>
Side   == <<Text("prompt", 17, TRUE), Text("prompt", 18, FALSE)>>

One(lines) == "s1" :> lines @@ "s2" :> <<>>
In(main, tree, other) == "main" :> One(main) @@ "tree" :> One(tree) @@ "other" :> One(other)
Starts == {In(Titled, <<>>, <<>>), In(Titled, Caveat, <<>>), In(Side, Titled, <<>>), In(<<>>, Caveat, Titled)}
Listed == <<"main", "other", "tree">>
Worktrees == <<"tree", "main">>
=============================================================================
