------------------------------- MODULE Loading -------------------------------
(***************************************************************************)
(* require (snow.c): a name is looked for in the working directory and the *)
(* load paths, with and without a suffix; the first file that exists is    *)
(* loaded unless it was before.  Files require others, in circles too,     *)
(* throw, and add load paths, while they are loaded.                       *)
(***************************************************************************)
EXTENDS Naturals, FiniteSets, SequencesExt

CONSTANTS
  FileName,    \* what programs require: [base, suffix, absolute]
  Cwd, Root,   \* the working directory; that of absolute names
  LibDir, OtherDirs, \* the first load path; those that programs add
  Main, NoFile, \* what requires the first file; the answer when there is none
  FileSystems, \* sets of the files that exist
  MaxRequires, MaxLoading \* bounds

VARIABLES
  existing,     \* the files that exist
  load_paths,
  loaded_files, \* the keys of the map
  load_frames,  \* the files that are being evaluated, and whether they try a require
  loads,        \* ghost: how often each file was loaded
  meant,        \* ghost: which files a name was found to mean
  requires

load_vars == <<existing, load_paths, loaded_files, load_frames, loads, meant, requires>>

File(dir, base, suffix) == [dir |-> dir, base |-> base, suffix |-> suffix]
LoadFrame(file) == [file |-> file, tries |-> FALSE]

LoadingInit ==
  /\ existing \in FileSystems
  /\ load_paths = <<LibDir>>
  /\ loaded_files = {}
  /\ load_frames = <<LoadFrame(Main)>>
  /\ loads = [f \in existing |-> 0]
  /\ meant = {}
  /\ requires = 0

Endings == <<"", "sn", "so", "dylib">>

\* Where snow_require looks, in this order.
Directories(name) == IF name.absolute THEN <<Root>> ELSE <<Cwd>> \o load_paths

\* The candidates of a name in one directory. An absolute name, and one with a
\* suffix of its own, is tried as it is; no file has two suffixes.
Candidates(dir, name) ==
  IF name.absolute \/ name.suffix # "" THEN <<File(dir, name.base, name.suffix)>>
  ELSE [s \in 1 .. Len(Endings) |-> File(dir, name.base, Endings[s])]

\* Mutant: a file that was loaded before does not end the search.
AnswersUnlessLoaded(file) == file \in existing \ loaded_files

\* Whether snow_load answers: TRUE or FALSE, which both end the search.
Answers(file) == file \in existing

HasAnswer(dir, name) == \E s \in DOMAIN Candidates(dir, name) : Answers(Candidates(dir, name)[s])

\* NoFile when nothing is found.
Found(name) ==
  LET dirs == Directories(name)
      place == SelectInSeq(dirs, LAMBDA dir : HasAnswer(dir, name))
      tried == Candidates(dirs[place], name)
  IN IF place = 0 THEN NoFile ELSE tried[SelectInSeq(tried, Answers)]

IsSource(file) == file.suffix = "sn"

\* An exception ends the evaluation of files up to one that tries a require.
Unwound(fs) ==
  LET catching == SelectLastInSeq(fs, LAMBDA f : f.tries)
  IN IF catching = 0 THEN <<>>
     ELSE Append(SubSeq(fs, 1, catching - 1), LoadFrame(fs[catching].file))

(***************************************************************************)
(* What the file that is being evaluated does                              *)
(***************************************************************************)
\* Mutant: a file is loaded before it is entered in the map.
MarkAfterLoad(file) ==
  loaded_files' = IF IsSource(file) THEN loaded_files ELSE loaded_files \cup {file}

\* snow_load: the map knows the file before it is loaded.
Mark(file) == loaded_files' = loaded_files \cup {file}

\* snow_require, and snow_load of what it finds.  A source goes on with its
\* evaluation; a library is opened and initialized, or that throws.
Require(name, tries) ==
  LET file == Found(name)
      now == Append(Front(load_frames), [Last(load_frames) EXCEPT !.tries = tries])
  IN /\ load_frames # <<>> /\ ~Last(load_frames).tries
     /\ requires < MaxRequires /\ Len(load_frames) <= MaxLoading
     /\ requires' = requires + 1
     /\ IF file = NoFile
        THEN /\ load_frames' = Unwound(now)
             /\ UNCHANGED <<loaded_files, loads, meant>>
        ELSE /\ meant' = meant \cup {<<name, file>>}
             /\ IF file \in loaded_files THEN UNCHANGED <<load_frames, loaded_files, loads>>
                ELSE /\ Mark(file)
                     /\ loads' = [loads EXCEPT ![file] = @ + 1]
                     /\ IF IsSource(file) THEN load_frames' = Append(now, LoadFrame(file))
                        ELSE load_frames' \in {load_frames, Unwound(now)}
     /\ UNCHANGED <<existing, load_paths>>

\* The end of the text, or at once when it does not parse: snow_eval answers
\* NULL, which load_source ignores.
End ==
  /\ Len(load_frames) > 1
  /\ load_frames' = LET rest == Front(load_frames) IN Append(Front(rest), LoadFrame(Last(rest).file))
  /\ UNCHANGED <<existing, load_paths, loaded_files, loads, meant, requires>>

ThrowWhileLoading ==
  /\ Len(load_frames) > 1
  /\ load_frames' = Unwound(load_frames)
  /\ UNCHANGED <<existing, load_paths, loaded_files, loads, meant, requires>>

\* A program pushes to the global LOAD_PATHS.
AddLoadPath(dir) ==
  /\ load_frames # <<>> /\ dir \notin ToSet(load_paths)
  /\ load_paths' = Append(load_paths, dir)
  /\ UNCHANGED <<existing, loaded_files, load_frames, loads, meant, requires>>

LoadingNext ==
  \/ \E name \in FileName, tries \in BOOLEAN : Require(name, tries)
  \/ End
  \/ ThrowWhileLoading
  \/ \E dir \in OtherDirs : AddLoadPath(dir)

LoadingSpec == LoadingInit /\ [][LoadingNext]_load_vars

(***************************************************************************)
(* Properties                                                              *)
(***************************************************************************)
\* A file is loaded once at most, in circles of requires too, and after an
\* exception left it half-way, whatever name it was required by (snow.c:204-214).
FilesLoadOnce ==
  /\ \A f \in existing : loads[f] = IF f \in loaded_files THEN 1 ELSE 0
  /\ IsInjective([k \in DOMAIN load_frames |-> load_frames[k].file])

\* A name means one file for the whole run: that its file is loaded already,
\* or that load paths are added, does not make a later require go on to
\* another file of that name (snow.c:245-268).
NamesMeanOneFile == \A p, q \in meant : p[1] = q[1] => p[2] = q[2]
=============================================================================
