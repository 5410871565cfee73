------------------------------ MODULE SysDirs ------------------------------
(***************************************************************************)
(* clst::xdg::config_dir() and its siblings: the base directory of a user  *)
(* is taken from the environment, else from the home directory, and is     *)
(* created where it is missing.  Threads and other processes do the same   *)
(* at the same time.  A path is the sequence of its components; the empty  *)
(* sequence is the empty string, which names nothing.                      *)
(***************************************************************************)
EXTENDS Naturals, Sequences

CONSTANTS
    Threads,
    Kinds,          \* the directories that are asked for
    Settings,       \* the values of the XDG variables, Unset or a path
    Homes,          \* the values of HOME, Unset or a path
    UserEntries,    \* the home directories in the user database, or Unset
    Trees,          \* the file systems to begin with: [dirs, files]
    Unset

Ancestors(dir) == {SubSeq(dir, 1, n) : n \in 1 .. Len(dir)}

(* In a file system a directory is in a directory.                         *)
ProperEnvironments ==
    /\ Kinds \subseteq {"config", "cache", "data", "state"}
    /\ (Settings \cup Homes \cup UserEntries) \ {Unset} \subseteq Seq(STRING)
    /\ \A fs \in Trees :
        /\ fs \in [dirs : SUBSET (Seq(STRING) \ {<<>>}), files : SUBSET Seq(STRING)]
        /\ \A dir \in fs.dirs : Ancestors(dir) \subseteq fs.dirs

VARIABLES
    env,        \* HOME, the XDG variable of each kind, the entry of the user
    tree,       \* the directories, and the other files, that exist
    call        \* for each thread: where it is, what it asks for, and dir

vars == <<env, tree, call>>

Init ==
    /\ env \in [HOME : Homes, XDG : [Kinds -> Settings], entry : UserEntries]
    /\ tree \in Trees
    /\ call = [t \in Threads |-> [at |-> "idle", kind |-> Unset, dir |-> Unset]]

(* $HOME if it is set and not empty, else the entry of the user database,  *)
(* without which home_dir() throws.                                        *)
home_dir == IF env.HOME \in {Unset, <<>>} THEN env.entry ELSE env.HOME

Fallback(kind) ==
    home_dir \o CASE kind = "config" -> <<".config">>
                  [] kind = "cache" -> <<".cache">>
                  [] kind = "data" -> <<".local", "share">>
                  [] kind = "state" -> <<".local", "share">>

Leave(t, how) == call' = [call EXCEPT ![t].at = how]

(* home_dir() is an argument of get_dir(): it is called, and may throw,    *)
(* also when the variable is set.                                          *)
Lookup(t, kind) ==
    /\ call[t].at = "idle"
    /\ call' = [call EXCEPT ![t] =
            [at |-> IF home_dir = Unset THEN "threw" ELSE "test",
             kind |-> kind,
             dir |-> IF home_dir = Unset THEN Unset
                     ELSE IF env.XDG[kind] # Unset THEN env.XDG[kind]
                     ELSE Fallback(kind)]]
    /\ UNCHANGED <<env, tree>>

(* MUTANT of Test: exists() in place of is_directory().                    *)
TestExists(t) ==
    /\ call[t].at = "test"
    /\ Leave(t, IF call[t].dir \in tree.dirs \cup tree.files THEN "returned" ELSE "create")
    /\ UNCHANGED <<env, tree>>

(* if (!fs::is_directory(dir)); examining the path may fail and throw.     *)
Test(t) ==
    /\ call[t].at = "test"
    /\ \/ Leave(t, IF call[t].dir \in tree.dirs THEN "returned" ELSE "create")
       \/ Leave(t, "threw")
    /\ UNCHANGED <<env, tree>>

(* fs::create_directories(dir): one mkdir() for each missing component,    *)
(* from the root down; one that somebody else has made meanwhile is fine.  *)
(* It throws for the empty path, for a file that is in the way, and when a *)
(* mkdir() fails.                                                          *)
Create(t) ==
    /\ call[t].at = "create"
    /\ LET dir == call[t].dir
           missing == {p \in Ancestors(dir) : p \notin tree.dirs}
       IN  \/ /\ missing = {} /\ dir # <<>>
              /\ Leave(t, "returned") /\ UNCHANGED tree
           \/ \E p \in missing :
                /\ \A q \in missing : Len(p) <= Len(q)
                /\ p \notin tree.files
                /\ tree' = [tree EXCEPT !.dirs = @ \cup {p}]
                /\ UNCHANGED call
           \/ /\ missing # {} \/ dir = <<>>
              /\ Leave(t, "threw") /\ UNCHANGED tree
    /\ UNCHANGED env

Next ==
    \E t \in Threads :
        \/ \E kind \in Kinds : Lookup(t, kind)
        \/ Test(t)
        \/ Create(t)

Spec == Init /\ [][Next]_vars

-----------------------------------------------------------------------------
(* "the directory is created before return" (sys_dirs.hpp:14): whoever has *)
(* created what meanwhile, a path that was returned is a directory, and so *)
(* are all its ancestors.                                                  *)
CreatedBeforeReturn ==
    \A t \in Threads :
        call[t].at = "returned" => call[t].dir # <<>> /\ Ancestors(call[t].dir) \subseteq tree.dirs

(* "These variants return standard XDG directories" (sys_dirs.hpp:52): the *)
(* variable if it is set and not empty, else the default that the XDG Base *)
(* Directory Specification names for it.                                   *)
StandardDirectory(kind) ==
    IF env.XDG[kind] \notin {Unset, <<>>} THEN env.XDG[kind]
    ELSE home_dir \o CASE kind = "config" -> <<".config">>
                       [] kind = "cache" -> <<".cache">>
                       [] kind = "data" -> <<".local", "share">>
                       [] kind = "state" -> <<".local", "state">>

ReturnsStandardDirectory ==
    \A t \in Threads : call[t].at = "returned" => call[t].dir = StandardDirectory(call[t].kind)

=============================================================================
