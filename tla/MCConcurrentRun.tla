-------------------------- MODULE MCConcurrentRun --------------------------
\* Three commands of two programs.  The first setup has scopes that list one
\* program, or none and replace the environment, and allow(); the others have
\* the rest of the registrations and of a scope's fields, under one limit and mode each.
EXTENDS ConcurrentRun

MCTasks == {0, 1, 2, 3}
MCCatalogues == [tools |-> {"p", "q"}]

MCSetups == {
  [limits |-> {0, 1, 2}, hooked |-> {1}, modes |-> BOOLEAN,
   managers |-> {[Plain EXCEPT !.listed = TRUE, !.progs = {"p"}, !.set = "k" :> "v", !.after = <<"a">>],
                 [Plain EXCEPT !.listed = TRUE, !.replace = TRUE, !.before = <<"b">>, !.after = <<"c">>]},
   handles |-> {[Plain EXCEPT !.kind = "allow", !.progs = {"p", "q"}]}],
  [limits |-> {1}, hooked |-> {1}, modes |-> {TRUE},
   managers |-> {CatalogueScope("tools")},
   handles |-> {Env(<<"k" :> "v", "k" :> "unset">>, FALSE),
                [Plain EXCEPT !.kind = "logging", !.before = <<"on_start">>, !.after = <<"on_exit">>]}],
  [limits |-> {1}, hooked |-> {}, modes |-> {FALSE},
   managers |-> {[Plain EXCEPT !.timeout = 2, !.bind = "p" :> "/opt/p", !.observe = <<"o">>]},
   handles |-> {[Plain EXCEPT !.kind = "bind", !.bind = "p" :> "/usr/p"],
                [Plain EXCEPT !.kind = "observe", !.observe = <<"r">>]}],
  [limits |-> {2}, hooked |-> {}, modes |-> {TRUE},
   managers |-> {[Plain EXCEPT !.timeout = 1, !.before = <<"s">>, !.after = <<"t">>]},
   handles |-> {[Plain EXCEPT !.kind = "before", !.before = <<"b">>],
                [Plain EXCEPT !.kind = "after", !.after = <<"a">>]}]}

MCMaxBlocks == [t \in MCTasks |-> IF t = 0 THEN 2 ELSE 1]
MCProgramOf == <<"p", "p", "q">>
=============================================================================
