------------------------------ MODULE MCImport ------------------------------
(* Files of two or three jobs for each provider. *)
EXTENDS LocalRun

\* Sequences of different members of S.
Distinct(S, max) ==
    {s \in BoundedSeq(S, max) : \A x, y \in DOMAIN s : s[x] = s[y] => x = y}

-----------------------------------------------------------------------------
(* CircleCI: a definition of each job that parses or not, or none, or two; one *)
(* workflow with up to three jobs, or two small ones, under one name or two.   *)

CircleJob(n, docker, steps) ==
    [name |-> n, docker |-> docker, env |-> IF Len(docker) = 2 THEN [X |-> "own"] ELSE NoEnv,
     steps |-> steps]

Definitions(n) ==
    {<<>>,
     <<CircleJob(n, <<"own", "service">>, <<"run", "checkout">>)>>,
     <<CircleJob(n, <<"own", "blank">>, <<"run">>)>>,
     <<CircleJob(n, <<"own">>, <<"cache", "unknown">>)>>,
     <<CircleJob(n, <<"own">>, <<"run">>), CircleJob(n, <<>>, <<"run">>)>>}

CircleJobs == {d \o e \o f : d \in Definitions("a"), e \in Definitions("b"), f \in Definitions("c")}

Ref(n, deps) == [name |-> n, depends |-> deps]

OneWorkflow ==
    {<<Ref("a", d), Ref("b", e)>> : d, e \in Distinct({"a", "b", "c"}, 1)}
    \cup {<<Ref("a", d), Ref("b", e), Ref("c", f)>> :
            d \in Distinct({"b", "c"}, 2), e \in Distinct({"a", "c"}, 1), f \in Distinct({"a", "b"}, 1)}
    \cup {<<Ref("a", <<>>), Ref("a", <<"b">>)>>, <<>>}

TwoWorkflows ==
    {<<Ref("a", <<>>)>>, <<Ref("b", <<"a">>), Ref("a", <<>>)>>, <<Ref("c", <<>>), Ref("b", <<"c">>)>>,
     <<Ref("c", <<"a">>), Ref("a", <<>>)>>, <<Ref("a", <<"b">>), Ref("b", <<>>)>>}

Sections ==
    {<<>>} \cup {<<[name |-> "w", refs |-> r]>> : r \in OneWorkflow}
    \cup {<<[name |-> "w", refs |-> r], [name |-> v, refs |-> q]>> :
            r \in TwoWorkflows, q \in TwoWorkflows, v \in {"v", "w"}}

SomeCircleCIFiles ==
    [jobs : CircleJobs, hasWorkflows : {TRUE}, workflows : Sections]
    \cup [jobs : CircleJobs, hasWorkflows : {FALSE}, workflows : {<<>>}]

NoFiles == {}

-----------------------------------------------------------------------------
(* GitHub Actions: matrices of one and two axes, with one, two or no values or *)
(* one value twice; every list of needs.                                       *)

GitHubJob(n, image, axes, steps, needs) ==
    [name |-> n, image |-> image, env |-> NoEnv, containerEnv |-> NoEnv,
     axes |-> axes, include |-> axes # <<>>, steps |-> steps, needs |-> needs]

Matrices == {<<>>, << <<1, 2>> >>, << <<1, 2>>, <<1, 2>> >>, << <<1>>, <<>> >>, << <<1, 1>> >>}

Bases(n, needs) ==
    {GitHubJob(n, "own", axes, <<"run", "matrix">>, needs) : axes \in Matrices}
    \cup {GitHubJob(n, "blank", <<>>, <<"run">>, needs), GitHubJob(n, "own", << <<>> >>, <<"bad">>, needs),
          GitHubJob(n, "own", << <<1>> >>, <<"bad">>, needs), GitHubJob(n, "own", <<>>, <<>>, needs)}

FewBases(n, needs) ==
    {GitHubJob(n, "own", axes, <<"checkout", "action", "github">>, needs) : axes \in {<<>>, << <<1, 2>> >>}}
    \cup {GitHubJob(n, "blank", <<>>, <<"run">>, needs),
          GitHubJob(n, "own", << <<>> >>, <<"oddShell", "X">>, needs)}

TwoBases ==
    {<<j, k>> : j \in UNION {Bases("a", d) : d \in {<<>>, <<"b">>, <<"c">>}},
                k \in UNION {Bases(n, d) : n \in {"a", "b"}, d \in {<<>>, <<"a">>, <<"a", "a">>}}}

ThreeBases ==
    {<<j, k, l>> : j \in UNION {FewBases("a", d) : d \in {<<>>, <<"b">>, <<"c", "b">>}},
                   k \in UNION {FewBases("b", d) : d \in {<<>>, <<"c">>}},
                   l \in UNION {FewBases("c", d) : d \in {<<>>, <<"a">>}}}

\* One job, with variables of its own, of its container and of the workflow.
EnvsOf(tag) == {NoEnv, [X |-> tag], [X |-> "Y", Y |-> tag]}

EnvFiles ==
    {[jobs |-> <<[GitHubJob("a", image, <<>>, <<"run", "X">>, <<>>)
                    EXCEPT !.env = e, !.containerEnv = c]>>,
      env |-> w, inGit |-> TRUE] :
        image \in {"own", "X", "other"},
        e \in EnvsOf("own"), c \in EnvsOf("container"), w \in EnvsOf("top")}

SomeGitHubFiles == [jobs : TwoBases \cup ThreeBases, env : {NoEnv}, inGit : {TRUE}]
                   \cup [jobs : ThreeBases, env : {NoEnv}, inGit : {FALSE}]
                   \cup EnvFiles

-----------------------------------------------------------------------------
(* GitLab: three entries, hidden or not, that extend each other, over stages *)
(* that are empty, listed twice or not listed.                               *)

SomeHidden == {".h"}
SomeStages == {"build", "test", "deploy", "other"}
SomeDefaultStages == <<"build", "test", "deploy">>

Entry(n, mapping, raw) == [name |-> n, mapping |-> mapping, raw |-> raw]

Raws ==
    {[script |-> "own", stage |-> s] : s \in {"build", "test", "deploy", "other", "blank"}}
    \cup {[image |-> i, script |-> "own"] : i \in {"own", "blank"}}
    \cup {[script |-> "blank", image |-> "own"],
          [script |-> "own", services |-> "bad"],
          [extends |-> <<".h">>], [extends |-> <<".h", "a">>], [extends |-> <<"none", "b">>]}

FewRaws ==
    {[script |-> "own", stage |-> s] : s \in {"build", "test", "deploy"}}
    \cup {[extends |-> <<".h">>], [extends |-> <<"a">>]}

Templates ==
    {[stage |-> "deploy", script |-> "parent", services |-> "parent"],
     [extends |-> <<"a">>, image |-> "blank"]}

Entries ==
    {<<Entry("a", TRUE, r), Entry(n, m, q), Entry(".h", TRUE, h)>> :
        r, q \in Raws, n \in {"a", "b"}, m \in BOOLEAN, h \in Templates}
    \cup {<<Entry("a", TRUE, r), Entry("b", TRUE, q), Entry("c", TRUE, t), Entry(".h", TRUE, h)>> :
        r, q, t \in FewRaws, h \in Templates}

\* One job and two that it extends, each with a part of the settings.
Parts(tag) ==
    {[script |-> tag, variables |-> [X |-> tag]],
     [before_script |-> tag, variables |-> [X |-> tag, Y |-> tag]],
     [image |-> tag, after_script |-> "none", services |-> tag]}

SettingsEntries ==
    {<<Entry(".h", TRUE, h), Entry("a", TRUE, [extends |-> <<"b", ".h">>] @@ r), Entry("b", TRUE, q)>> :
        r \in Parts("own"), q \in Parts("parent"), h \in Parts("other")}

Tops ==
    {NoEnv, [image |-> "top", services |-> "top"],
     [before_script |-> "none", after_script |-> "top", variables |-> [Y |-> "top", Z |-> "top"]]}

Defaults == {NoEnv, [image |-> "default", before_script |-> "default", after_script |-> "default"]}

GitLabFile(stages, top, default, include, entries) ==
    [stages |-> stages, top |-> top, default |-> default, include |-> include,
     malformed |-> FALSE, entries |-> entries]

SomeGitLabFiles ==
    {GitLabFile(stages, NoEnv, [image |-> "default"], include, e) :
        stages \in {<<>>, << <<"test", "build", "test", "deploy">> >>},
        include \in BOOLEAN, e \in Entries}
    \cup {GitLabFile(<<>>, NoEnv, NoEnv, FALSE, e) : e \in Entries}
    \cup {GitLabFile(<<>>, top, default, FALSE, e) :
            top \in Tops, default \in Defaults, e \in SettingsEntries}
    \cup {[GitLabFile(<<>>, NoEnv, NoEnv, FALSE, e) EXCEPT !.malformed = TRUE] : e \in SettingsEntries}

TwoParentFiles == {GitLabFile(<<>>, NoEnv, NoEnv, FALSE, e) : e \in SettingsEntries}
=============================================================================
