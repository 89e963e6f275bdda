----------------------------- MODULE RunOptions -----------------------------
(***************************************************************************)
(* What one run is asked to do, and which requests are refused before      *)
(* anything happens: the catalogue and its lookup, executable bindings,    *)
(* environment overlays, standard-stream targets, capture, echo, heartbeat *)
(* and presentation options (cuprum/catalogue.py, executable_binding.py,   *)
(* executable_paths.py, context/env_overlay.py, sh/output.py, sh/stdio.py, *)
(* sh/stdio_rules.py).                                                     *)
(*                                                                         *)
(* A request is a record.  A path is named by what classification sees of  *)
(* it, an overlay is a function on some environment keys, a time is a      *)
(* whole number.                                                           *)
(***************************************************************************)
EXTENDS Builders, Redaction

CONSTANTS Requests,  \* the requests a caller may make
          Environ    \* os.environ: a function on the environment keys

ASSUME RequestAssumption ==
    \A o \in Requests :
        /\ o.idleAfter \in Int /\ o.misses \in Nat
        /\ \A s \in {"stdout", "stderr"} :
               /\ o.captureOf[s] \in {"default", "on", "off"}
               /\ o.target[s].kind \in {"unset", "pipe", "inherit", "path", "fd", "object"}

VARIABLE opts        \* the request, fixed

Streams == {"stdout", "stderr"}
Unset == "UNSET"     \* the overlay value that removes a key

NoTarget == [kind |-> "unset", name |-> "", fd |-> 0]

\* RunOutputOptions with nothing asked for: both streams are captured, nothing
\* is echoed, observed or presented.
DefaultOptions ==
    [stdin |-> "unset", target |-> [s \in Streams |-> NoTarget],
     capture |-> TRUE, captureOf |-> [s \in Streams |-> "default"],
     echo |-> FALSE, echoOf |-> [s \in Streams |-> "default"], onLine |-> FALSE,
     idleAfter |-> 0, onIdle |-> "none", sink |-> "none", group |-> FALSE, annotate |-> FALSE]

(* ----------------------------- catalogue -------------------------------- *)

\* ProgramCatalogue: project names are unique, and no program has two owners.
IndexProjects(projects) ==
    \A i, j \in DOMAIN projects : projects[i].name = projects[j].name => i = j
IndexPrograms(projects) ==
    LET all == FlattenSeq([i \in DOMAIN projects |-> projects[i].programs])
    IN  \A i, j \in DOMAIN all : all[i] = all[j] => i = j

Owners(projects, program) ==
    {i \in DOMAIN projects : program \in ToSet(projects[i].programs)}

\* sh.make looks the program up when the command is built.
Lookup(projects, program) == Owners(projects, program) # {}

(* --------------------------- executables -------------------------------- *)

\* A path is refused by its spelling alone: nothing is read from the disk.
ClassifyPath(path, allowRelative) ==
    CASE path = "" -> "empty"
      [] path = "nul" -> "nul"
      [] path = "parent" -> "parent_segment"
      [] path = "relative" /\ ~allowRelative -> "not_absolute"
      [] OTHER -> "accepted"

\* A binding holds a resolver, or a path that passed classification.
BindingAllowed(b) == \/ b.resolver
                     \/ ClassifyPath(b.path, b.allowRelative) = "accepted"

\* An inner scope's binding of a program replaces an outer one's.
MergeBindings(parent, child) ==
    [p \in DOMAIN parent \cup DOMAIN child |->
        IF p \in DOMAIN child THEN child[p] ELSE parent[p]]

(* -------------------------- environment --------------------------------- *)

MergeOverlays(parent, child) ==
    [k \in DOMAIN parent \cup DOMAIN child |->
        IF k \in DOMAIN child THEN child[k] ELSE parent[k]]

\* A call that replaces the environment also drops the scope's overlay;
\* otherwise the scope's mode stands.
ResolveEnv(scope, call) ==
    IF call.mode = "replace"
    THEN [overlay |-> call.overlay, mode |-> "replace"]
    ELSE [overlay |-> MergeOverlays(scope.overlay, call.overlay), mode |-> scope.mode]

RenderEnv(env) ==
    LET base == IF env.mode = "replace" THEN {} ELSE DOMAIN Environ
        unset == {k \in DOMAIN env.overlay : env.overlay[k] = Unset}
    IN  [k \in (base \cup DOMAIN env.overlay) \ unset |->
            IF k \in DOMAIN env.overlay THEN env.overlay[k] ELSE Environ[k]]

(* ------------------------- standard streams ----------------------------- *)

\* StdioTarget: a path has a name, and a descriptor is not one of the negative
\* sentinels of the subprocess module.
TargetAllowed(t) == /\ t.kind = "path" => t.name # ""
                    /\ t.kind = "fd" => t.fd >= 0

\* RunOutputOptions resolves the per-stream switches from the shorthands.
Captures(o, s) == IF o.captureOf[s] = "default" THEN o.capture ELSE o.captureOf[s] = "on"
Echoes(o, s) == IF o.echoOf[s] = "default" THEN o.echo ELSE o.echoOf[s] = "on"

IsPipe(t) == t.kind \in {"unset", "pipe"}

\* A stream somebody on this side wants to read cannot be sent elsewhere.
CapturedRedirection(o, s) == ~IsPipe(o.target[s]) /\ (Captures(o, s) \/ Echoes(o, s))

SharedOwnedPath(o) == /\ o.target["stdout"].kind = "path"
                      /\ o.target["stdout"] = o.target["stderr"]

TargetsAllowed(o) == /\ \A s \in Streams : TargetAllowed(o.target[s])
                     /\ o.stdin \in {"unset", "pipe", "inherit"}
                     /\ \A s \in Streams : ~CapturedRedirection(o, s)
                     /\ ~SharedOwnedPath(o)

\* Checked only when the run is built: the source arrives with the call.
ContestedStdin(o) == o.source /\ o.stdin = "inherit"

(* ---------------------------- entry points ------------------------------- *)

\* run_bytes has no text to give a caller's line observer; a registered hook
\* still gets its lines.
BytesOutputAllowed(o) == ~o.onLine

\* lines reads stdout and a handle reads both streams, from pipes.
LinesStdoutAllowed(o) == IsPipe(o.target["stdout"])
HandleStreamsAllowed(o) == \A s \in Streams : IsPipe(o.target[s])

\* A handle captures whatever the caller had switched off.
HandleCapture(o) ==
    [o EXCEPT !.capture = TRUE,
              !.captureOf = [s \in Streams |-> IF @[s] = "off" THEN "default" ELSE @[s]]]

\* The options a run goes by, once they were constructed.
Effective(o) == IF o.entry = "start" THEN HandleCapture(o) ELSE o

\* A pipeline has no stage to give a target to.
PipelineTargetsAllowed(o) == o.stdin = "unset" /\ \A s \in Streams : o.target[s] = NoTarget

\* A payload is encoded before the spawn; a stream is left to the writer.
StdinResolves(o) == o.source => o.encodable

\* The bytes and pipeline contracts are looked at before the allowlist, ...
RefusedFirst(o) == \/ o.entry = "run_bytes" /\ ~BytesOutputAllowed(o)
                   \/ o.entry = "pipeline" /\ ~PipelineTargetsAllowed(o)

\* ... what lines and start need, and the payload, after it.
RefusedThen(o) == \/ o.entry = "start" /\ ~HandleStreamsAllowed(o)
                  \/ o.entry = "lines" /\ (~LinesStdoutAllowed(o) \/ ContestedStdin(o))
                  \/ ~StdinResolves(o)

(* ---------------------- heartbeat and presentation ---------------------- *)

\* idle_after is positive; on_idle needs it, and is not a coroutine function.
IdleAllowed(o) == /\ o.onIdle # "none" => o.idleAfter # 0
                  /\ o.idleAfter # 0 => o.onIdle # "async"
                  /\ o.idleAfter >= 0

\* group and annotate_failure ask for a GitHub Actions sink, unless the caller
\* passed one: then the flags change nothing.
SynthesizeSink(o) ==
    IF o.sink # "none" THEN [group |-> TRUE, annotate |-> TRUE]
    ELSE [group |-> o.group, annotate |-> o.annotate]

HasSession(o) == SynthesizeSink(o).group \/ SynthesizeSink(o).annotate

(* ----------------------------- requests --------------------------------- *)

\* Whether the command, its bindings and its options can be constructed.
Constructible(o) ==
    /\ BuildAllowed(o.build) /\ PolicyAllowed(o.policy)
    /\ IndexProjects(o.projects) /\ IndexPrograms(o.projects)
    /\ Lookup(o.projects, o.program)
    /\ \A b \in {o.outer, o.inner} : \A p \in DOMAIN b : BindingAllowed(b[p])
    /\ TargetsAllowed(o) /\ IdleAllowed(o)

\* check_allowed: the scope's allowlist, when there is one.
Allowed(o) == o.allowlist = {} \/ o.program \in o.allowlist

\* A stream is read by the run when it is a pipe and anything wants its text.
Consumes(o, s) == /\ IsPipe(o.target[s])
                  /\ Captures(Effective(o), s) \/ Echoes(o, s) \/ o.idleAfter > 0 \/ o.onLine
=============================================================================
