--------------------------- MODULE ScopedContext ---------------------------
(***************************************************************************)
(* The execution policy a task runs under and the blocks that change it:   *)
(* cuprum/context (state.py, scoped.py, core.py, _policy.py, _hooks.py,    *)
(* env_overlay.py, executable_overlay.py, registration.py),                *)
(* _scope_registration.py and the paired hooks of logging_hooks.py.        *)
(*                                                                         *)
(* The policy is an immutable value in a context variable.  A task starts  *)
(* with a copy of its creator's context variables, so everything here is   *)
(* kept per task.  scoped() pushes a (manager, token) pair on a second     *)
(* context variable, which the task copies as well; the registrations keep *)
(* their tokens in the handle, logging_hook() two of them.  A token restores *)
(* the value it replaced, and only in the context that made it.            *)
(***************************************************************************)
EXTENDS Naturals, Sequences, SequencesExt

CONSTANTS Tasks,       \* the tasks that may open and leave blocks
          Programs,    \* program names
          Keys,        \* environment variables
          Executables, \* paths a program can be bound to
          Catalogues,  \* the programs of each named catalogue
          Setups,      \* what a program's code opens (managers and handles), in which tasks
          MaxBlocks    \* bound for each task: the blocks of its own it has open

VARIABLES ctx,       \* _current_context of each task
          entries,   \* _scoped_entries of each task
          blocks,    \* the with blocks a task's code is inside of, outermost first
          setup      \* the member of Setups, fixed

scopeVars == <<ctx, entries, blocks, setup>>

(***************************************************************************)
(* A configuration: the allowlist it gives (listed: None or a set), how it *)
(* changes the environment (set: keys to "v" or "unset"; replace), what it *)
(* adds to the before, after and observe hooks, the executables it binds,  *)
(* and the default timeout (0: None) and catalogue it names.  kind says    *)
(* who installs it: scoped(), or one of the registrations.                 *)
(***************************************************************************)
Registrations == {"allow", "env", "before", "after", "observe", "bind", "logging"}
Overlays(K, V) == UNION {[k -> V] : k \in SUBSET K}

ScopeConfig == [kind : {"scope"} \cup Registrations, listed : BOOLEAN, progs : SUBSET Programs,
                set : Overlays(Keys, {"v", "unset"}), replace : BOOLEAN,
                before : Seq(STRING), after : Seq(STRING), observe : Seq(STRING),
                bind : Overlays(Programs, Executables), timeout : Nat,
                catalogue : DOMAIN Catalogues \cup {"none"}]

Plain == [kind |-> "scope", listed |-> FALSE, progs |-> {}, set |-> <<>>, replace |-> FALSE,
          before |-> <<>>, after |-> <<>>, observe |-> <<>>, bind |-> <<>>,
          timeout |-> 0, catalogue |-> "none"]

\* What a registration of each kind carries; the rest of its fields are Plain's.
Carries == [allow |-> {"progs"}, env |-> {"set", "replace"}, before |-> {"before"},
            after |-> {"after"}, observe |-> {"observe"}, bind |-> {"bind"},
            logging |-> {"before", "after"}]

ASSUME ConfigAssumption ==
    \A u \in Setups :
        /\ u.managers \cup u.handles \subseteq ScopeConfig
        /\ \A m \in u.managers : m.kind = "scope"
        /\ \A h \in u.handles :
              /\ h.kind \in Registrations
              /\ \A f \in DOMAIN Plain \ (Carries[h.kind] \cup {"kind"}) : h[f] = Plain[f]

MergeOverlays(parent, child) ==
    [k \in DOMAIN parent \cup DOMAIN child |->
        IF k \in DOMAIN child THEN child[k] ELSE parent[k]]

\* scoped(catalogue=c): its programs are the allowlist, and it becomes the
\* catalogue commands are built from.
CatalogueScope(c) == [Plain EXCEPT !.listed = TRUE, !.progs = Catalogues[c], !.catalogue = c]

\* env(*overlays): later mappings win, and keywords come last.
Env(overlays, replaces) == [Plain EXCEPT !.kind = "env", !.replace = replaces,
                                         !.set = FoldLeft(MergeOverlays, <<>>, overlays)]

DefaultContext == [allow |-> {}, restricted |-> FALSE, set |-> <<>>, replace |-> FALSE,
                   before |-> <<>>, after |-> <<>>, observe |-> <<>>, bind |-> <<>>,
                   timeout |-> 0, catalogue |-> "none"]

\* _resolve_env_policy: REPLACE forgets what the parent set, and stays in
\* force for the scopes inside it.
ResolveEnv(c, b) == [set |-> IF b.replace THEN b.set ELSE MergeOverlays(c.set, b.set),
                     replace |-> b.replace \/ c.replace]

NarrowAllowlist(c, b) ==
    CASE ~b.listed -> c.allow
      [] b.listed /\ c.restricted /\ c.allow = {} -> c.allow
      [] b.listed /\ c.allow # {} -> c.allow \cap b.progs
      [] b.listed /\ ~c.restricted /\ c.allow = {} -> b.progs

NarrowedIsRestricted(c, b) == c.restricted \/ b.listed

NarrowedTimeout(c, b) == IF b.timeout = 0 THEN c.timeout ELSE b.timeout

NarrowedCatalogue(c, b) == IF b.catalogue = "none" THEN c.catalogue ELSE b.catalogue

Narrow(c, b) ==
    [allow |-> NarrowAllowlist(c, b), restricted |-> NarrowedIsRestricted(c, b),
     before |-> c.before \o b.before, after |-> b.after \o c.after,
     observe |-> c.observe \o b.observe, bind |-> MergeOverlays(c.bind, b.bind),
     timeout |-> NarrowedTimeout(c, b), catalogue |-> NarrowedCatalogue(c, b),
     set |-> ResolveEnv(c, b).set, replace |-> ResolveEnv(c, b).replace]

(* ---------------------- what a registration installs -------------------- *)

WithAllowlist(c, allow) ==
    [c EXCEPT !.allow = allow,
              !.restricted = c.restricted \/ c.allow # {} \/ allow # {}]

WithEnvOverlay(c, h) == [c EXCEPT !.set = ResolveEnv(c, h).set, !.replace = ResolveEnv(c, h).replace]

\* Before and observe hooks run in the order they were added, after hooks in
\* the opposite one.
WithBeforeHook(c, h) == [c EXCEPT !.before = @ \o h.before]
WithAfterHook(c, h) == [c EXCEPT !.after = h.after \o @]
WithObserveHook(c, h) == [c EXCEPT !.observe = @ \o h.observe]

WithExecutableBinding(c, h) == [c EXCEPT !.bind = MergeOverlays(@, h.bind)]

\* The contexts a registration installs, one after the other: logging_hook()
\* registers its start hook and then its exit hook.
Installed(c, h) ==
    CASE h.kind = "allow" -> <<WithAllowlist(c, c.allow \cup h.progs)>>
      [] h.kind = "env" -> <<WithEnvOverlay(c, h)>>
      [] h.kind = "before" -> <<WithBeforeHook(c, h)>>
      [] h.kind = "after" -> <<WithAfterHook(c, h)>>
      [] h.kind = "observe" -> <<WithObserveHook(c, h)>>
      [] h.kind = "bind" -> <<WithExecutableBinding(c, h)>>
      [] h.kind = "logging" -> <<WithBeforeHook(c, h), WithAfterHook(WithBeforeHook(c, h), h)>>

CheckAllowed(c, p) == (c.allow = {} /\ ~c.restricted) \/ p \in c.allow

\* render_env, per key: what a child finds in its environment.
Rendered(c, k) == IF k \in DOMAIN c.set
                  THEN IF c.set[k] = "unset" THEN "absent" ELSE c.set[k]
                  ELSE IF c.replace THEN "absent" ELSE "inherited"

ExecutableBinding(c, p) == IF p \in DOMAIN c.bind THEN c.bind[p] ELSE p

Token(t, old) == [owner |-> t, old |-> old]

\* A block keeps the tokens it was opened with; all are of one context.
Owner(b) == Head(b.tokens).owner
Room(t) == Len(SelectSeq(blocks[t], LAMBDA b : Owner(b) = t)) < MaxBlocks[t]

ScopeInit == /\ ctx = [t \in Tasks |-> DefaultContext]
             /\ entries = [t \in Tasks |-> <<>>]
             /\ blocks = [t \in Tasks |-> <<>>]
             /\ setup \in Setups

\* asyncio gives each new task a copy of its creator's context variables, and
\* its code sits inside the creator's blocks.
Inherit(parent, children) ==
    /\ ctx' = [t \in Tasks |-> IF t \in children THEN ctx[parent] ELSE ctx[t]]
    /\ entries' = [t \in Tasks |-> IF t \in children THEN entries[parent] ELSE entries[t]]
    /\ blocks' = [t \in Tasks |-> IF t \in children THEN blocks[parent] ELSE blocks[t]]
    /\ UNCHANGED setup

\* _ScopedContext.__enter__; a manager may be entered again while it is open.
Enter(t, m) ==
    /\ Room(t)
    /\ ctx' = [ctx EXCEPT ![t] = Narrow(ctx[t], m)]
    /\ entries' = [entries EXCEPT ![t] = Append(@, [manager |-> m, token |-> Token(t, ctx[t])])]
    /\ blocks' = [blocks EXCEPT ![t] = Append(@, [config |-> m, tokens |-> <<Token(t, ctx[t])>>])]
    /\ UNCHANGED setup

\* RuntimeError, or ValueError from a handle: nothing is restored.
Refuse == UNCHANGED scopeVars

Restore(t, token) == /\ ctx' = [ctx EXCEPT ![t] = token.old]
                     /\ blocks' = [blocks EXCEPT ![t] = Front(@)]

\* Fault: any open manager may exit, not only the innermost.
ExitAnyOpen(t, m) ==
    LET mine == {i \in DOMAIN entries[t] : entries[t][i].manager = m /\ entries[t][i].token.owner = t}
    IN  IF mine = {}
        THEN Refuse
        ELSE LET i == CHOOSE i \in mine : \A j \in mine : j <= i
             IN  /\ entries' = [entries EXCEPT ![t] = RemoveAt(@, i)]
                 /\ Restore(t, entries[t][i].token) /\ UNCHANGED setup

\* _ScopedContext.__exit__ with _reset_scoped_entry.  Any task may try any
\* manager.  Left to the caller, as the documentation asks: a scope is not
\* left under a registration its own task still has open inside it.
Exit(t, m) ==
    IF entries[t] = <<>> \/ Last(entries[t]).manager # m
       \/ Last(entries[t]).token.owner # t
    THEN Refuse
    ELSE /\ entries' = [entries EXCEPT ![t] = Front(@)]
         /\ Restore(t, Last(entries[t]).token) /\ UNCHANGED setup

\* The innermost block is a registration's.
InHandle(t) == blocks[t] # <<>> /\ Last(blocks[t]).config.kind # "scope"

ExitAttempted(t, m) ==
    /\ InHandle(t) => Owner(Last(blocks[t])) # t
    /\ Exit(t, m)

\* A registration's handle keeps a token for each context it installs.
Register(t, h) ==
    LET new == Installed(ctx[t], h)
        tokens == [i \in DOMAIN new |-> Token(t, IF i = 1 THEN ctx[t] ELSE new[i - 1])]
    IN  /\ Room(t)
        /\ ctx' = [ctx EXCEPT ![t] = Last(new)]
        /\ blocks' = [blocks EXCEPT ![t] = Append(@, [config |-> h, tokens |-> tokens])]
        /\ UNCHANGED <<entries, setup>>

\* The tokens are used in reverse order: the first has the last word.
LastReset(tokens) == Head(tokens)

\* detach() of the innermost handle, from its block's end.
Detach(t) ==
    /\ InHandle(t) /\ Owner(Last(blocks[t])) = t
    /\ Restore(t, LastReset(Last(blocks[t]).tokens)) /\ UNCHANGED <<entries, setup>>

\* A token of another context raises ValueError; the handle stays attached.
DetachForeign(t) ==
    /\ InHandle(t) /\ Owner(Last(blocks[t])) # t
    /\ Refuse

(***************************************************************************)
(* The reference: what the open blocks say, read without the order of the  *)
(* calls that produced it.  The first block that lists programs and every  *)
(* allow() grant programs, and a scope inside takes away what it does not  *)
(* list; with no listing block everything is permitted.                    *)
(***************************************************************************)
PermittedIn(open, p) ==
    LET Lists == {i \in DOMAIN open : IF open[i].config.kind = "allow" THEN open[i].config.progs # {}
                                      ELSE open[i].config.listed}
    IN  \/ Lists = {}
        \/ \E i \in Lists :
              /\ p \in open[i].config.progs
              /\ open[i].config.kind = "allow" \/ \A j \in Lists : i <= j
              /\ \A j \in Lists : j > i /\ open[j].config.kind # "allow" => p \in open[j].config.progs

EnvironmentIn(open, k) ==
    LET Replaces == {i \in DOMAIN open : open[i].config.replace}
        Says == {i \in DOMAIN open : /\ k \in DOMAIN open[i].config.set
                                     /\ \A j \in Replaces : j <= i}
        last == CHOOSE i \in Says : \A j \in Says : j <= i
    IN  IF Says # {}
        THEN IF open[last].config.set[k] = "unset" THEN "absent" ELSE open[last].config.set[k]
        ELSE IF Replaces # {} THEN "absent" ELSE "inherited"

\* What the innermost block that says something about it says.
Innermost(open, Says(_), Value(_), default) ==
    LET saying == {i \in DOMAIN open : Says(open[i].config)}
    IN  IF saying = {} THEN default
        ELSE Value(open[CHOOSE i \in saying : \A j \in saying : j <= i].config)

TimeoutIn(open) == Innermost(open, LAMBDA b : b.timeout # 0, LAMBDA b : b.timeout, 0)
CatalogueIn(open) == Innermost(open, LAMBDA b : b.catalogue # "none", LAMBDA b : b.catalogue, "none")
ExecutableIn(open, p) == Innermost(open, LAMBDA b : p \in DOMAIN b.bind, LAMBDA b : b.bind[p], p)

BeforeIn(open) == FlattenSeq([i \in DOMAIN open |-> open[i].config.before])

ObserveIn(open) == FlattenSeq([i \in DOMAIN open |-> open[i].config.observe])

AfterIn(open) == FlattenSeq(Reverse([i \in DOMAIN open |-> open[i].config.after]))

\* Whatever scopes and registrations a task and its ancestors have entered,
\* left, or tried to leave in the wrong order or in the wrong task, the policy
\* the task runs under is exactly the one its open blocks describe: no refused
\* exit restores anything and no accepted one restores too much
\* (_reset_scoped_entry, _narrow_allowlist, _resolve_env_policy, _merge_hooks).
PolicyOfOpenBlocks ==
    \A t \in Tasks :
        /\ \A p \in Programs : /\ CheckAllowed(ctx[t], p) = PermittedIn(blocks[t], p)
                              /\ ExecutableBinding(ctx[t], p) = ExecutableIn(blocks[t], p)
        /\ \A k \in Keys : Rendered(ctx[t], k) = EnvironmentIn(blocks[t], k)
        /\ ctx[t].before = BeforeIn(blocks[t])
        /\ ctx[t].after = AfterIn(blocks[t])
        /\ ctx[t].observe = ObserveIn(blocks[t])
        /\ ctx[t].timeout = TimeoutIn(blocks[t])
        /\ ctx[t].catalogue = CatalogueIn(blocks[t])
=============================================================================
