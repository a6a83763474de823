---------------------------- MODULE MCPipeline ----------------------------
(* Pipeline for TLC: a few pipelines that between them have every shape    *)
(* the code tells apart: single, chained, built in, with two links, with   *)
(* two links from one descriptor, and with redirections over pipes.        *)
EXTENDS Pipeline

Stage(redirections, links) == [builtin |-> FALSE, redirs |-> redirections, links |-> links]
Builtin(links) == [builtin |-> TRUE, redirs |-> <<>>, links |-> links]
Bar   == [to |-> 0, from |-> {1}]
Both  == [to |-> 0, from |-> {1, 2}]
Third == [to |-> 3, from |-> {1}]
Err   == [to |-> 3, from |-> {2}]

MCCommands ==
  { << Stage(<< {1} >>, {}) >>,
    << Stage(<<>>, {Bar}), Stage(<< {0} >>, {}) >>,
    << Stage(<<>>, {Both}), Stage(<<>>, {Bar}), Stage(<< {1}, {1, 2} >>, {}) >>,
    << Builtin({Bar}), Stage(<<>>, {Bar, Err}), Stage(<<>>, {}) >>,
    << Stage(<< {1} >>, {Bar, Third}), Builtin({Bar}), Stage(<<>>, {}) >> }
=============================================================================
