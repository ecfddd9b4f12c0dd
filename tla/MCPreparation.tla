--------------------------- MODULE MCPreparation ---------------------------
(***************************************************************************)
(* Preparation on one instance.  A behaviour has a focus: two checkouts    *)
(* while a remote changes; one checkout while its settings and the model   *)
(* catalog change; or a request sent again while its original is under     *)
(* way and another write takes the subject.                                *)
(***************************************************************************)
EXTENDS Preparation, TLC

CONSTANTS a, r1

\* What git may give: a remote, another, none.
Remote(url) == [root |-> 1, url |-> url]
Remotes == {Remote("x"), Remote("y"), Remote(None)}

\* A setting the files leave at its default, and with a host's section.
Set(global, globalHost, project, projectHost) ==
    [k \in Layers |-> CASE k = "default" -> 0 [] k = "global" -> global
                        [] k = "globalHost" -> globalHost [] k = "project" -> project
                        [] OTHER -> projectHost]
Unset == Set(None, None, None, None)
SomeSettings == {Set(1, 2, None, None), Set(1, 2, 3, None), Set(1, None, 3, 4)}
AllSettings == SomeSettings \cup {Unset}

VARIABLE focus

OfCheckouts == INSTANCE Preparation WITH
    Settings <- {Unset}, Requests <- {}, Attempts <- 1, MaxLog <- 4
OfPolicies == INSTANCE Preparation WITH
    Paths <- {a}, Facts <- {Remote("x")}, Settings <- SomeSettings,
    Requests <- {r1}, MaxLog <- 5
OfRetries == INSTANCE Preparation WITH
    Paths <- {a}, Facts <- {Remote("x")}, Settings <- {Unset}, MaxEdits <- 0

Plain == settings = [path \in Paths |-> Unset]
OneRemoteYet == facts = [path \in Paths |-> Remote("x")]

\* The checkouts are alike: a is the one admitted first.
FirstIsA == log # <<>> => log[1].path = a

MCInit ==
    /\ Init
    /\ \/ focus = "checkouts" /\ Plain
       \/ focus = "policies" /\ OneRemoteYet
            /\ settings \in [Paths -> SomeSettings]
            /\ \A path \in Paths : settings[path] = settings[a]
       \/ focus = "retries" /\ OneRemoteYet /\ Plain

MCNext ==
    /\ UNCHANGED focus
    /\ CASE focus = "checkouts" -> OfCheckouts!Next /\ FirstIsA'
         [] focus = "policies" -> OfPolicies!Next
         [] focus = "retries" -> OfRetries!Next

MCSpec == MCInit /\ [][MCNext]_<<vars, focus>>

Twins == Permutations(Callers)
=============================================================================
