---------------------------- MODULE MCAgentCalls ----------------------------
EXTENDS AgentCalls

(* Every line of up to five chunks out of those a parser has to tell apart. *)
Chunks == {"x", "A=", "*", Blank, Single, Double, Escape, "|", "dollar", "newline"}
Quoted == BoundedSeq(Chunks, 5)

(* Lines of words, each program with the words its rules look at.          *)
Spaced(words) == FoldLeft(LAMBDA line, w : IF line = <<>> THEN w ELSE line \o <<Blank>> \o w, <<>>, words)
Sub == {<<"logs">>, <<"run">>, <<"exec">>, <<"watch">>, <<"-f">>, <<"-n">>, <<"x">>}
Args(program) ==
    CASE program = "docker" -> BoundedSeq({<<"compose">>, <<"logs">>, <<"run">>, <<"up">>, <<"-f">>}, 3)
      [] program = "npm" -> BoundedSeq({<<"run">>, <<"dev">>, <<"-n">>, <<"x">>}, 3)
      [] program = "python" ->
            BoundedSeq({<<"-m">>, <<"-i">>, <<"http.server">>, <<".", Slash, "manage.py">>, <<"runserver">>}, 2)
      [] program = "node" -> BoundedSeq({<<"--watch">>, <<"x">>}, 2)
      [] OTHER -> BoundedSeq(Sub, 2)
Programs == {"docker", "npm", "python", "node", "docker-compose", "kubectl", "cargo", "tail", "less", "ls"}
Worded ==
    UNION {{Spaced(before \o <<program>> \o args) :
               before \in {<<>>, <<<<"env">>>>, <<<<"A=", "x">>>>, <<<<"env">>, <<"A=", "x">>>>},
               program \in {<<p>>, <<".", Slash, p>>, <<p, Slash>>, <<p, Slash, ".">>, <<p, Slash, "..">>}, args \in Args(p)} : p \in Programs}

MCLines == Quoted \cup Worded
MCMatchers == <<"mcp", "Bash">>
MCAssigning == {"A="}
MCGlobbing == {"*"}
MCDashed == {"-f", "-n", "-m", "-i", "--follow", "--watch"}
MCNaming == {"x"}
=============================================================================
