------------------------------ MODULE Builders ------------------------------
(***************************************************************************)
(* The typed command builders: which paths and references they refuse, and *)
(* the argument vector they give sh.make for the ones they accept          *)
(* (cuprum/builders/args.py, tar.py, rsync.py, git.py, cuprum/sh/argv.py). *)
(*                                                                         *)
(* A path is its segments and whether it starts at the root: "./a:b" is    *)
(* <<".", "a:b">> and "rsync://h" is <<"rsync:", "", "h">>.  A segment is   *)
(* one of a few names, classified by what the programs make of them.  An   *)
(* argument is a word the builder wrote or a path the caller gave.         *)
(***************************************************************************)
EXTENDS Integers, Sequences, SequencesExt

Dashed == {"-x", "--delete"}          \* segments that begin with a dash
Colons == {"host:dir", "rsync:"}      \* segments with a colon in them

(* ------------------------------- values --------------------------------- *)

\* PurePath drops doubled slashes and "." segments; an empty path is ".".
Normal(p) == LET kept == SelectSeq(p.segs, LAMBDA s : s \notin {"", "."})
             IN  [p EXCEPT !.segs = IF kept = <<>> /\ ~p.abs THEN <<".">> ELSE kept]

\* A pathlib.Path has normalized its spelling already; bytes are refused.
ConvertToString(p) == IF p.type = "Path" THEN Normal(p) ELSE p

ClassifyPathString(p, allowRelative) ==
    CASE p.segs = <<>> /\ ~p.abs -> "empty"
      [] "nul" \in ToSet(p.segs) -> "nul"
      [] ".." \in ToSet(p.segs) -> "parent_segment"
      [] ~allowRelative /\ ~p.abs -> "not_absolute"
      [] OTHER -> "accepted"

IsSafePath(p, allowRelative) ==
    /\ p.type \in {"str", "Path"}
    /\ ClassifyPathString(ConvertToString(p), allowRelative) = "accepted"

SafePath(p) == Normal(ConvertToString(p))

\* A reference carries the rules it breaks; the first in this order is named.
GitRefRules == <<"empty", "leading_dash", "whitespace", "slash_boundary", "lock_suffix",
                 "dot_suffix", "parent_sequence", "double_slash", "at_brace", "unsupported">>

ClassifyGitRef(ref) ==
    LET broken == SelectSeq(GitRefRules, LAMBDA r : r \in ref.breaks)
    IN  IF broken = <<>> THEN "accepted" ELSE Head(broken)

IsGitRef(ref) == ref.type = "str" /\ ClassifyGitRef(ref) = "accepted"

(* ------------------------------ arguments ------------------------------- *)

NoPath == [type |-> "str", abs |-> FALSE, segs |-> <<>>]
Word(w) == [word |-> w, path |-> NoPath]
PathArg(p) == [word |-> "", path |-> SafePath(p)]
Words(ws) == [i \in DOMAIN ws |-> Word(ws[i])]
PathArgs(ps) == [i \in DOMAIN ps |-> PathArg(ps[i])]
Flag(on, w) == IF on THEN <<Word(w)>> ELSE <<>>

(* -------------------------------- tar ----------------------------------- *)

CompressionFlag(b) ==
    CASE b.compression = "none" -> <<>>
      [] b.compression = "gzip" -> <<Word("-z")>>
      [] b.compression = "bzip2" -> <<Word("-j")>>
      [] b.compression = "xz" -> <<Word("-J")>>

TarCreateAllowed(b) == /\ b.operands # <<>>
                       /\ \A p \in {b.archive} \cup ToSet(b.operands) : IsSafePath(p, b.relative)

TarCreateArgv(b) == <<Word("-c")>> \o CompressionFlag(b)
                        \o <<Word("-f"), PathArg(b.archive), Word("--")>> \o PathArgs(b.operands)

\* The destination is the first operand, when there is one.
TarExtractAllowed(b) == \A p \in {b.archive} \cup ToSet(b.operands) : IsSafePath(p, b.relative)

TarExtractArgv(b) ==
    <<Word("-x"), Word("-f"), PathArg(b.archive)>>
        \o IF b.operands = <<>> THEN <<>> ELSE <<Word("-C"), PathArg(Head(b.operands))>>

(* ------------------------------- rsync ---------------------------------- *)

\* A colon before the first slash makes an operand remote.
IsRemote(p) == ~p.abs /\ p.segs # <<>> /\ Head(p.segs) \in Colons

\* Fault: an operand is looked at as it is spelled, not as it is passed on.
IsLocalAsSpelled(p, allowRelative) ==
    IsSafePath(p, allowRelative) /\ ~IsRemote(ConvertToString(p))

\* Both spellings must be local: "./host:dir" is, until it is normalized.
IsLocalOperand(p, allowRelative) ==
    IsSafePath(p, allowRelative) /\ ~IsRemote(ConvertToString(p)) /\ ~IsRemote(SafePath(p))

RsyncFlags == <<"--archive", "--delete", "--dry-run", "--verbose", "--compress">>

RsyncArgv(b) == Words(SelectSeq(RsyncFlags, LAMBDA f : f \in b.flags))
                    \o <<Word("--")>> \o PathArgs(b.operands)

(* -------------------------------- git ----------------------------------- *)

GitStatusArgv(b) == <<Word("status")>> \o Flag("--short" \in b.flags, "--short")
                                       \o Flag("--branch" \in b.flags, "--branch")

CheckoutOptions(b) ==
    IF "create" \in b.flags THEN <<Word(IF "force" \in b.flags THEN "-B" ELSE "-b")>>
    ELSE Flag("detach" \in b.flags, "--detach") \o Flag("force" \in b.flags, "--force")

GitCheckoutAllowed(b) == ~({"create", "detach"} \subseteq b.flags) /\ IsGitRef(b.ref)

\* The trailing separator makes git read the name as a revision only.
GitCheckoutArgv(b) == <<Word("checkout")>> \o CheckoutOptions(b) \o <<Word(b.ref.name)>>
                          \o Flag("create" \notin b.flags, "--")

GitRevParseArgv(b) == <<Word("rev-parse"), Word(b.ref.name)>>

(* ------------------------------- sh.make -------------------------------- *)

\* The domain of an argument: text, a number, a truth value or a path whose
\* __fspath__ is text.
ArgAllowed(a) == a.type \in {"str", "int", "float", "bool", "Path"}

StringifyArg(a) == IF a.type = "bool" THEN IF a.value THEN "True" ELSE "False" ELSE a.value

\* A keyword a_b=v is the one argument --a-b=v: a key is the parts between its
\* underscores.
SerializeKeyword(k) == [word |-> StringifyArg(k), path |-> NoPath,
                        flag |-> [parts |-> k.key, joined |-> "-"]]

\* Positional arguments first, keywords after them.
BuildArgv(b) == Words([i \in DOMAIN b.args |-> StringifyArg(b.args[i])])
                    \o [i \in DOMAIN b.keywords |-> SerializeKeyword(b.keywords[i])]

(* ------------------------------- together ------------------------------- *)

BuildAllowed(b) ==
    CASE b.tool = "make" -> \A a \in ToSet(b.args) \cup ToSet(b.keywords) : ArgAllowed(a)
      [] b.tool = "tar_create" -> TarCreateAllowed(b)
      [] b.tool = "tar_extract" -> TarExtractAllowed(b)
      [] b.tool = "rsync" -> \A i \in DOMAIN b.operands : IsLocalOperand(b.operands[i], b.relative)
      [] b.tool = "git_checkout" -> GitCheckoutAllowed(b)
      [] b.tool = "git_rev_parse" -> IsGitRef(b.ref)
      [] b.tool = "git_status" -> TRUE

Argv(b) ==
    CASE b.tool = "make" -> BuildArgv(b)
      [] b.tool = "tar_create" -> TarCreateArgv(b)
      [] b.tool = "tar_extract" -> TarExtractArgv(b)
      [] b.tool = "rsync" -> RsyncArgv(b)
      [] b.tool = "git_checkout" -> GitCheckoutArgv(b)
      [] b.tool = "git_rev_parse" -> GitRevParseArgv(b)
      [] b.tool = "git_status" -> GitStatusArgv(b)

(***************************************************************************)
(* How a program with getopt's conventions reads an argument vector: until *)
(* "--" an argument that begins with a dash is an option, some options     *)
(* take the next argument as their value, and the rest are operands.       *)
(***************************************************************************)
BeginsWithDash(a) ==
    IF a.word = "" THEN ~a.path.abs /\ a.path.segs # <<>> /\ Head(a.path.segs) \in Dashed
    ELSE a.word \in ToSet(RsyncFlags) \cup
            {"-c", "-x", "-f", "-C", "-z", "-j", "-J", "-b", "-B", "--detach", "--force", "--short", "--branch"}

TakesValue == {"-f", "-C", "-b", "-B"}

ReadArgv(argv) ==
    LET seps == {i \in DOMAIN argv : argv[i] = Word("--")}
        plain == IF seps = {} THEN Len(argv) + 1 ELSE CHOOSE i \in seps : \A j \in seps : i <= j
        isValue(i) == i > 1 /\ i < plain /\ argv[i - 1].word \in TakesValue
        isOption(i) == i < plain /\ ~isValue(i) /\ BeginsWithDash(argv[i])
        pick(P(_)) == LET at == SelectSeq([i \in DOMAIN argv |-> i], P)
                      IN  [k \in DOMAIN at |-> argv[at[k]]]
    IN  [options |-> pick(isOption), plain |-> seps # {},
         values |-> [k \in {i \in DOMAIN argv : isValue(i + 1)} |-> <<argv[k].word, argv[k + 1]>>],
         operands |-> pick(LAMBDA i : i # plain /\ ~isValue(i) /\ ~isOption(i))]

ValuesRead(r) == {r.values[k] : k \in DOMAIN r.values}

\* What the program reads is what the caller asked for: the operands are the
\* caller's and in order, an option is one the builder wrote, never a path of
\* the caller's, archive and directory are values of their options, and rsync
\* sees no remote operand.
ArgvAsAsked(b, argv) ==
    LET r == ReadArgv(argv)
    IN  b.tool # "make" =>
        /\ \A i \in DOMAIN r.options : r.options[i].word # ""
        /\ CASE b.tool = "tar_create" -> /\ r.operands = PathArgs(b.operands)
                                         /\ ValuesRead(r) = {<<"-f", PathArg(b.archive)>>}
             [] b.tool = "tar_extract" ->
                    /\ r.operands = <<>>
                    /\ ValuesRead(r) = {<<"-f", PathArg(b.archive)>>}
                                          \cup {<<"-C", PathArg(p)>> : p \in ToSet(b.operands)}
             [] b.tool = "rsync" ->
                    /\ r.operands = PathArgs(b.operands)
                    /\ {r.options[i].word : i \in DOMAIN r.options} = b.flags
                    /\ \A i \in DOMAIN r.operands : ~IsRemote(r.operands[i].path)
             [] b.tool = "git_checkout" ->
                    IF "create" \in b.flags
                    THEN ValuesRead(r) = {<<IF "force" \in b.flags THEN "-B" ELSE "-b", Word(b.ref.name)>>}
                    ELSE r.operands = <<Word("checkout"), Word(b.ref.name)>> /\ r.plain
             [] OTHER -> TRUE
=============================================================================
