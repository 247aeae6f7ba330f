------------------------------ MODULE Players ------------------------------
(***************************************************************************)
(* The player generator (tools/generator): `player game out` writes, for   *)
(* every language, the files a champion starts from and the API files.     *)
(* With --symlink env the API files are links into an environment that was *)
(* generated before, so that champions follow the API without generating   *)
(* anything again.                                                         *)
(*                                                                         *)
(* Two of its users share the disk: the build, which generates the         *)
(* environment each time the game is built, and a champion, which runs it  *)
(* in its own directory and edits the files it starts from.  A file is     *)
(* written in three steps, between which the other user may act and the    *)
(* run may be interrupted.                                                 *)
(***************************************************************************)
EXTENDS Naturals, SequencesExt

CONSTANTS
    LangNames,   \* the languages, in the order of LANGUAGES
    LANGUAGES,   \* [language -> [files, symlinks]], sequences of names
    MaxVersion,  \* versions of the game file
    MaxRuns      \* runs of the champion

\* Each language has a list of files and one of links.
ASSUME LanguagesAssumption ==
    /\ LangNames \in Seq(DOMAIN LANGUAGES)
    /\ \A l \in Range(LANGUAGES) : /\ l.files \in Seq(Range(l.files))
                                   /\ l.symlinks \in Seq(Range(l.symlinks))

VARIABLES
    fs,        \* what is at each place of the disk
    version,   \* of the game file
    run,       \* the run of the generator of each user
    runs,      \* runs started by the champion
    verdict    \* what --check found

playerVars == <<fs, version, run, runs, verdict>>

Users == {"env", "champion"}      \* and the directory each one writes to

Places == {<<lang, name>> : lang \in Range(LangNames),
                            name \in UNION {Range(l.files) \cup Range(l.symlinks) : l \in Range(LANGUAGES)}}
Shared(place) == place[2] \in Range(LANGUAGES[place[1]].symlinks)
HasPlace(place) ==
    place[2] \in Range(LANGUAGES[place[1]].files) \cup Range(LANGUAGES[place[1]].symlinks)
Generated == {place \in Places : HasPlace(place)}

Absent == [kind |-> "absent", version |-> 0]
File(v) == [kind |-> "file", version |-> v]
Empty == File(0)
Mine == [kind |-> "mine", version |-> 0]     \* code of the champion
Link == [kind |-> "link", version |-> 0]     \* to the same place of the environment

Idle == [state |-> "idle", linked |-> FALSE, check |-> FALSE, version |-> 0,
         todo |-> <<>>, step |-> "next"]

\* A link is followed by all who open or test a file.
Exists(user, place) ==
    IF fs[user][place].kind = "link" THEN fs["env"][place] # Absent
                                     ELSE fs[user][place] # Absent

\* open('w') on what is left at that place.
Write(user, place, content) ==
    LET dir == IF fs[user][place].kind = "link" THEN "env" ELSE user
    IN  fs' = [fs EXCEPT ![dir][place] = content]
Put(user, place, content) == fs' = [fs EXCEPT ![user][place] = content]

PlayersInit ==
    /\ fs = [user \in Users |-> [place \in Generated |-> Absent]]
    /\ version = 1
    /\ run = [user \in Users |-> Idle]
    /\ runs \in {0, MaxRuns}      \* nobody plays the game when it is MaxRuns
    /\ verdict = [success |-> TRUE, made |-> {}]
-----------------------------------------------------------------------------
\* A run goes through the languages, in each through files then symlinks.
AllPlaces ==
    FlattenSeq([i \in DOMAIN LangNames |->
        LET lang == LangNames[i]
            names == LANGUAGES[lang].files \o LANGUAGES[lang].symlinks
        IN  [j \in DOMAIN names |-> <<lang, names[j]>>]])

\* Mutant: what is there is taken to be up to date.
MissingPlaces(user) == SelectSeq(AllPlaces, LAMBDA place : ~Exists(user, place))

PlacesOf(user) == AllPlaces

\* main: the game is loaded before anything is written.
Start(user, linked, check) ==
    /\ run[user].state # "running"
    /\ run' = [run EXCEPT ![user] =
                 [state |-> "running", linked |-> linked, check |-> check,
                  version |-> version, todo |-> PlacesOf(user), step |-> "next"]]
    /\ UNCHANGED <<fs, version, verdict>>

Linking(r) == r.linked /\ Shared(Head(r.todo))

Running(user, step) ==
    /\ run[user].state = "running"
    /\ run[user].todo # <<>>
    /\ run[user].step = step

Step(user, step) == run' = [run EXCEPT ![user].step = step]
NextPlace(user) == run' = [run EXCEPT ![user].step = "next", ![user].todo = Tail(@)]
Fail(user) == run' = [run EXCEPT ![user].state = "failed"]

\* Mutant: links left by an earlier run are written through.
KeepLeftover(user, place) == fs' = fs

\* Path.unlink, which removes links and not what they lead to.
RemoveLeftover(user, place) == Put(user, place, Absent)

\* Generator.template: unlink, open, dump.
UnlinkLeftover(user) ==
    /\ Running(user, "next") /\ ~Linking(run[user])
    /\ RemoveLeftover(user, Head(run[user].todo))
    /\ Step(user, "unlinked")
    /\ UNCHANGED <<version, runs, verdict>>

OpenFile(user) ==
    /\ Running(user, "unlinked")
    /\ Write(user, Head(run[user].todo), Empty)
    /\ Step(user, "opened")
    /\ UNCHANGED <<version, runs, verdict>>

DumpTemplate(user) ==
    /\ Running(user, "opened")
    /\ Write(user, Head(run[user].todo), File(run[user].version))
    /\ NextPlace(user)
    /\ UNCHANGED <<version, runs, verdict>>

\* make_player, for a file of the environment that is not there.
SourceMissing(user) ==
    /\ Running(user, "next") /\ Linking(run[user])
    /\ ~Exists("env", Head(run[user].todo))
    /\ Fail(user)
    /\ UNCHANGED <<fs, version, runs, verdict>>

\* make_player: the source exists, the old file is removed, the link made.
UnlinkOld(user) ==
    /\ Running(user, "next") /\ Linking(run[user])
    /\ Exists("env", Head(run[user].todo))
    /\ Put(user, Head(run[user].todo), Absent)
    /\ Step(user, "cleared")
    /\ UNCHANGED <<version, runs, verdict>>

SymlinkTo(user) ==
    /\ Running(user, "cleared")
    /\ Put(user, Head(run[user].todo), Link)
    /\ NextPlace(user)
    /\ UNCHANGED <<version, runs, verdict>>

\* Everything is generated; --check is next.
Generate(user) ==
    /\ run[user].state = "running" /\ run[user].todo = <<>>
    /\ run' = [run EXCEPT ![user].state = IF run[user].check THEN "checking" ELSE "done",
                          ![user].todo = IF run[user].check THEN LangNames ELSE <<>>]
    /\ verdict' = IF run[user].check THEN [success |-> TRUE, made |-> {}] ELSE verdict
    /\ UNCHANGED <<fs, version, runs>>

Overall(success, ok) == success /\ ok

\* check_player, for one language: make, then make tar unless it failed.  The
\* output of make tar is merged, so that a failure of it has no message and
\* counts as a success.
CheckLanguage(user) ==
    LET lang == Head(run[user].todo)
        ready == \A place \in Generated : place[1] = lang => Exists(user, place)
    IN
    /\ run[user].state = "checking" /\ run[user].todo # <<>>
    /\ \E compiles \in {ok \in BOOLEAN : ok => ready} :
          verdict' = [success |-> Overall(verdict.success, compiles),
                      made |-> IF compiles THEN verdict.made \cup {lang} ELSE verdict.made]
    /\ run' = [run EXCEPT ![user].todo = Tail(@)]
    /\ UNCHANGED <<fs, version, runs>>

\* main drops the verdict of check_player.
EndCheck(user) ==
    /\ run[user].state = "checking" /\ run[user].todo = <<>>
    /\ run' = [run EXCEPT ![user].state = "done"]
    /\ UNCHANGED <<fs, version, runs, verdict>>

GeneratorStep(user) ==
    \/ UnlinkLeftover(user) \/ OpenFile(user) \/ DumpTemplate(user)
    \/ SourceMissing(user) \/ UnlinkOld(user) \/ SymlinkTo(user)
    \/ Generate(user) \/ CheckLanguage(user) \/ EndCheck(user)

\* The champion runs the generator in its directory, with or without links.
ChampionStarts ==
    /\ runs < MaxRuns
    /\ \E linked, check \in BOOLEAN : Start("champion", linked, check)
    /\ runs' = runs + 1

\* The champion edits a file that only its own directory has.
ChampionEdits ==
    \E place \in Generated :
       /\ ~Shared(place)
       /\ run["champion"].state = "done"
       /\ fs' = [fs EXCEPT !["champion"][place] = Mine]
       /\ UNCHANGED <<version, run, runs, verdict>>

\* The game changes.
GameChanges ==
    /\ version < MaxVersion
    /\ version' = version + 1
    /\ UNCHANGED <<fs, run, runs, verdict>>

\* A run is interrupted.
Interrupted(user) ==
    /\ run[user].state \in {"running", "checking"}
    /\ Fail(user)
    /\ UNCHANGED <<fs, version, runs, verdict>>
=============================================================================
