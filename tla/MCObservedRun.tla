---------------------------- MODULE MCObservedRun ----------------------------
(***************************************************************************)
(* Requests that exercise each part of an observed run on small instances: *)
(* refused requests, launches with every kind of target, observers that    *)
(* fail or answer later, and logs with a heartbeat and a frame.            *)
(***************************************************************************)
EXTENDS ObservedRun, TLC

Target(kind, name, fd) == [kind |-> kind, name |-> name, fd |-> fd]
NoOverlay == [overlay |-> <<>>, mode |-> "overlay"]
Project(name, programs) == [name |-> name, programs |-> programs]
Bind(path, resolver) == "git" :> [path |-> path, resolver |-> resolver, allowRelative |-> FALSE]

Path(type, abs, segs) == [type |-> type, abs |-> abs, segs |-> segs]
Ref(type, breaks) == [type |-> type, name |-> "main", breaks |-> breaks]

\* A builder's call: every builder has all the fields and reads its own.
Call(tool) == [tool |-> tool, args |-> <<>>, keywords |-> <<>>, compression |-> "none",
               archive |-> Path("str", TRUE, <<"a">>), operands |-> <<>>, relative |-> TRUE,
               flags |-> {}, ref |-> Ref("str", {})]
Make(args, keywords) == [Call("make") EXCEPT !.args = args, !.keywords = keywords]

NoPolicy == [literals |-> {}, patterns |-> {}]
NoText == [argv |-> <<>>, env |-> <<>>, line |-> <<>>]

Base ==
    [projects |-> <<Project("core", <<"git", "tar">>)>>, program |-> "git", allowlist |-> {},
     outer |-> <<>>, inner |-> <<>>, scopeEnv |-> NoOverlay, callEnv |-> NoOverlay, hookEnv |-> NoOverlay,
     entry |-> "run", detached |-> FALSE, source |-> FALSE, encodable |-> TRUE, oneSink |-> FALSE, logGone |-> FALSE,
     before |-> "returns", after |-> "returns", hookFirst |-> TRUE, misses |-> 0, tasks |-> 0,
     build |-> Make(<<>>, <<>>), policy |-> NoPolicy, text |-> NoText, export |-> "none", logLevel |-> 10,
     channel |-> "none", hooks |-> <<>>, aside |-> FALSE, others |-> {}, wait4 |-> TRUE, lines |-> 0, chunks |-> 0] @@ DefaultOptions

MCEnviron == [k \in {"HOME", "LANG"} |-> "inherited"]

Refused ==
    {[Base EXCEPT !.program = "rm"],
     [Base EXCEPT !.allowlist = {"tar"}],
     [Base EXCEPT !.projects = <<Project("core", <<"git">>), Project("core", <<"tar">>)>>],
     [Base EXCEPT !.projects = <<Project("core", <<"git">>), Project("more", <<"git">>)>>],
     [Base EXCEPT !.inner = Bind("relative", FALSE)],
     [Base EXCEPT !.inner = Bind("parent", FALSE)],
     [Base EXCEPT !.stdin = "path"],
     [Base EXCEPT !.target["stdout"] = Target("fd", "", -1), !.capture = FALSE],
     [Base EXCEPT !.target["stdout"] = Target("object", "", -1), !.capture = FALSE],
     [Base EXCEPT !.target["stdout"] = Target("path", "out", 0)],
     [Base EXCEPT !.target = [s \in Streams |-> Target("path", "out", 0)], !.capture = FALSE],
     [Base EXCEPT !.onIdle = "works"],
     [Base EXCEPT !.idleAfter = -1]}

Targets == {NoTarget, Target("inherit", "", 0), Target("path", "out", 0), Target("path", "err", 0),
            Target("fd", "", 3), Target("object", "", 4)}

Launches ==
    {[Base EXCEPT !.target = [s \in Streams |-> IF s = "stdout" THEN o ELSE e],
                  !.capture = FALSE, !.captureOf["stderr"] = IF e = NoTarget THEN "on" ELSE "default",
                  !.others = IF w THEN {"opens"} ELSE {"reaps"}, !.wait4 = w, !.inner = Bind("", TRUE), !.before = b]
        : o \in Targets, e \in {NoTarget, Target("path", "err", 0), Target("object", "", 4)},
          w \in BOOLEAN, b \in {"exe", "file"}}

Environments ==
    {[Base EXCEPT !.scopeEnv = [overlay |-> "HOME" :> "scoped", mode |-> m],
                  !.callEnv = [overlay |-> "LANG" :> v, mode |-> c],
                  !.hookEnv = [overlay |-> "HOME" :> Unset, mode |-> "overlay"],
                  !.outer = Bind("absolute", FALSE), !.inner = i, !.before = b, !.source = src,
                  !.stdin = "inherit"]
        : m \in {"overlay", "replace"}, c \in {"overlay", "replace"}, v \in {"called", Unset},
          i \in {<<>>, Bind("other", FALSE)}, b \in {"returns", "env", "raises"}, src \in BOOLEAN}

Detached == {[Base EXCEPT !.detached = TRUE, !.inner = b] : b \in {<<>>, Bind("", TRUE)}}

Observed ==
    {[Base EXCEPT !.misses = 2, !.tasks = 2, !.hookFirst = h, !.aside = TRUE, !.lines = 2, !.onLine = TRUE,
                  !.annotate = g, !.logGone = g, !.after = "raises", !.inner = Bind("", TRUE)]
        : h \in BOOLEAN, g \in BOOLEAN}
    \cup {[Base EXCEPT !.entry = "start", !.misses = 2, !.tasks = 1, !.hookFirst = h, !.annotate = TRUE,
                       !.capture = FALSE, !.captureOf["stderr"] = "off", !.idleAfter = i] : h \in BOOLEAN, i \in {0, 2}}

\* Entry points: what each of them refuses, and when.
Entries ==
    {[Base EXCEPT !.entry = e, !.onLine = l, !.capture = FALSE, !.captureOf["stderr"] = c, !.target["stdout"] = t,
                  !.allowlist = a, !.source = p # "none", !.encodable = p # "unencodable", !.stdin = i]
        : e \in {"run", "run_bytes", "start", "lines", "pipeline"}, l \in BOOLEAN, c \in {"default", "off"},
          t \in {NoTarget, Target("pipe", "", 0), Target("path", "out", 0)}, a \in {{}, {"tar"}},
          p \in {"none", "encodable", "unencodable"}, i \in {"unset", "inherit"}}

\* Sinks: none, both flags, each alone, or the caller's own.
Sinks == {[sink |-> k, group |-> g, annotate |-> a] : k \in {"none", "github"}, g \in BOOLEAN, a \in BOOLEAN}

Logs ==
    {[Base EXCEPT !.echo = TRUE, !.idleAfter = i, !.onIdle = o, !.oneSink = s, !.chunks = 2,
                  !.sink = f.sink, !.group = f.group, !.annotate = f.annotate]
        : i \in {0, 2}, o \in {"none", "works", "fails"}, s \in BOOLEAN,
          f \in {g \in Sinks : g.sink = "github" => ~g.group /\ ~g.annotate}}

\* Builders: paths that look like options, remote hosts, parents or nothing.
Paths == {Path("str", TRUE, <<"a">>), Path("str", FALSE, <<"-x">>), Path("str", FALSE, <<".", "--delete">>),
          Path("Path", FALSE, <<".", "host:dir">>), Path("str", FALSE, <<".", "host:dir">>),
          Path("str", FALSE, <<"rsync:", "", "a">>), Path("str", FALSE, <<"a", "..">>),
          Path("str", FALSE, <<>>), Path("Path", FALSE, <<".">>), Path("bytes", TRUE, <<"a">>),
          Path("str", TRUE, <<"nul">>), Path("str", FALSE, <<"a", "host:dir">>)}

Calls ==
    {[Call("tar_create") EXCEPT !.archive = p, !.operands = <<q>>, !.compression = "gzip", !.relative = r]
        : p \in Paths, q \in Paths, r \in BOOLEAN}
    \cup {[Call("tar_create") EXCEPT !.operands = o, !.compression = c]
            : o \in {<<>>, <<Path("str", FALSE, <<"-x">>), Path("str", TRUE, <<"a">>)>>},
              c \in {"none", "bzip2", "xz"}}
    \cup {[Call("tar_extract") EXCEPT !.archive = p, !.operands = o] : p \in Paths, o \in {<<>>} \cup {<<q>> : q \in Paths}}
    \cup {[Call("rsync") EXCEPT !.operands = <<p, q>>, !.flags = f]
            : p \in Paths, q \in Paths, f \in {{}, {"--delete", "--archive"}}}
    \cup {[Call("git_checkout") EXCEPT !.flags = f, !.ref = r]
            : f \in SUBSET {"create", "detach", "force"},
              r \in {Ref("str", {}), Ref("str", {"leading_dash"}), Ref("str", {"whitespace", "dot_suffix"}), Ref("int", {})}}
    \cup {[Call("git_rev_parse") EXCEPT !.ref = r] : r \in {Ref("str", {}), Ref("str", {"at_brace"})}}
    \cup {[Call("git_status") EXCEPT !.flags = f] : f \in SUBSET {"--short", "--branch"}}
    \cup {Make(a, k) : a \in {<<>>, <<[type |-> "str", value |-> "x"], [type |-> "bool", value |-> TRUE]>>,
                              <<[type |-> "bytes", value |-> "x"]>>, <<[type |-> "none", value |-> "x"]>>},
                       k \in {<<>>, <<[type |-> "int", value |-> "2", key |-> <<"dry", "run">>]>>}}

ProgramOf(tool) == CASE tool \in {"tar_create", "tar_extract"} -> "tar"
                     [] tool = "rsync" -> "rsync" [] OTHER -> "git"

Built == {[Base EXCEPT !.projects = <<Project("core", <<"git", "tar", "rsync">>)>>,
                       !.program = ProgramOf(c.tool), !.build = c] : c \in Calls}

\* Redaction: short texts of two letters, rules that overlap and touch.
ShortTexts == UNION {[1..n -> {"a", "b"}] : n \in 0..3}
Policies == {[literals |-> l, patterns |-> p]
                : l \in {{}, {<<"a", "a">>}, {<<"a", "b">>, <<"b">>}, {<<>>}},
                  p \in {{}, {[kind |-> "some", letter |-> "b"]}, {[kind |-> "any", letter |-> "a"]},
                         {[kind |-> "raises", letter |-> "a"]}}}

Texts == {[argv |-> <<w, <<"a", "b", "a", "a", "a">>>>, env |-> "HOME" :> [text |-> FALSE, value |-> <<"a">>]
                                                     @@ "LANG" :> [text |-> TRUE, value |-> w],
           line |-> <<w>>] : w \in ShortTexts}

Redacted == {[Base EXCEPT !.policy = p, !.text = t, !.export = e, !.lines = 1, !.onLine = TRUE, !.logLevel = l]
                : p \in Policies, t \in Texts, e \in {"copy", "log"}, l \in {20}}

\* Side channels: hooks of several tempers, and the same one twice.
SideRequests == {[Base EXCEPT !.channel = c, !.hooks = h]
                : c \in {"echo", "pump", "stream", "capture", "line", "control", "span"},
                  h \in {<<"raises", "coroutine">>, <<"stuck", "returns">>, <<"signal", "returns">>}}

MCRequests == Refused \cup Launches \cup Environments \cup Detached \cup Observed \cup Built \cup Redacted \cup SideRequests
                \cup {o \in Entries : o.entry \in {"run", "run_bytes"} => o.stdin = "unset" /\ o.captureOf["stderr"] = "off"}
                \cup {o \in Logs : IdleAllowed(o) /\ (o.onIdle # "none" => ~HasSession(o))}
=============================================================================
