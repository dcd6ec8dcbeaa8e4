----------------------------- MODULE NamesProofs -----------------------------
(***************************************************************************)
(* Theorems about Symbols and Loading: two tables that a name is looked up *)
(* in, where it means one thing from then on.                              *)
(*                                                                         *)
(* Symbols, for any number of threads and names: what is said of the table *)
(* holds when the lock was initialized before there were threads           *)
(* (Initialized); without that, TLC has a counterexample.                  *)
(*                                                                         *)
(* Loading, for all names, files and load paths: what a name was found to  *)
(* mean is what would be found now, since files neither come nor go, and   *)
(* load paths are only added behind those that were looked in.  A file     *)
(* that is being evaluated was entered in the map.                         *)
(***************************************************************************)
EXTENDS Symbols, Loading, SequenceLemmas

(***************************************************************************)
(* Symbols                                                                 *)
(***************************************************************************)
\* Between Lock and Unlock a thread has the lock; what it has scanned is not
\* its name; what it is about to return is its symbol.
Holding(t) == pc[t] \in {"compare", "push", "unlock"}

OneHolder == \A t \in Thread : Holding(t) => lock = t

ScannedOthers ==
  \A t \in Thread : pc[t] = "compare" =>
    /\ index[t] <= Len(storage) + 1
    /\ \A k \in 1 .. index[t] - 1 : storage[k] # name[t]

NameIsNew ==
  \A t \in Thread : pc[t] = "push" =>
    \A k \in 1 .. Len(storage) : storage[k] # name[t]

AnswerIsRight ==
  \A t \in Thread : pc[t] = "unlock" =>
    index[t] \in 1 .. Len(storage) /\ storage[index[t]] = name[t]

ReadsWhatWasGiven ==
  \A t \in Thread : pc[t] = "read" => <<name[t], index[t]>> \in given

NoInitialization ==
  lock_init = TRUE /\ \A t \in Thread : pc[t] \notin {"init", "initialized"}

TableInv ==
  /\ TypeOK /\ NoInitialization /\ OneHolder
  /\ ScannedOthers /\ NameIsNew /\ AnswerIsRight /\ ReadsWhatWasGiven
  /\ SymbolsAreUnique /\ SymbolsKeepTheirNames

-----------------------------------------------------------------------------
\* Types hold also when the lock is initialized lazily.
LEMMA TypeNext == TypeOK /\ [Next]_vars => TypeOK'
<1> SUFFICES ASSUME TypeOK, [Next]_vars PROVE TypeOK'
  OBVIOUS
<1> USE DEF TypeOK, Goto
<1>1. ASSUME NEW t \in Thread, NEW n \in Name, Call(t, n) PROVE TypeOK'
  BY <1>1 DEF Call
<1>2. ASSUME NEW t \in Thread, InitLock(t) PROVE TypeOK'
  BY <1>2 DEF InitLock
<1>3. ASSUME NEW t \in Thread, SetInitialized(t) PROVE TypeOK'
  BY <1>3 DEF SetInitialized
<1>4. ASSUME NEW t \in Thread, Lock(t) PROVE TypeOK'
  BY <1>4 DEF Lock
<1>5. ASSUME NEW t \in Thread, Compare(t) PROVE TypeOK'
  BY <1>5 DEF Compare
<1>6. ASSUME NEW t \in Thread, NotFound(t) PROVE TypeOK'
  BY <1>6 DEF NotFound
<1>7. ASSUME NEW t \in Thread, Push(t) PROVE TypeOK'
  BY <1>7 DEF Push
<1>8. ASSUME NEW t \in Thread, Unlock(t) PROVE TypeOK'
  BY <1>8 DEF Unlock
<1>9. ASSUME NEW t \in Thread, NEW g \in given, SymbolToString(t, g) PROVE TypeOK'
  <2>1. g[1] \in Name /\ g[2] \in Nat \ {0}
    OBVIOUS
  <2> QED
    BY <1>9, <2>1 DEF SymbolToString
<1>10. ASSUME NEW t \in Thread, Read(t) PROVE TypeOK'
  BY <1>10 DEF Read
<1>11. CASE UNCHANGED vars
  BY <1>11 DEF vars
<1> QED
  BY <1>1, <1>2, <1>3, <1>4, <1>5, <1>6, <1>7, <1>8, <1>9, <1>10, <1>11 DEF Next

\* Every variable keeps its type, for any threads and names, and however the
\* lock is initialized (symbol.c).
THEOREM SymbolTypes == Spec => []TypeOK
<1>1. Init => TypeOK
  BY SymbolsAssumption DEF Init, TypeOK
<1> QED
  BY <1>1, TypeNext, PTL DEF Spec

-----------------------------------------------------------------------------
LEMMA TableInit == Initialized /\ Init => TableInv
  BY SymbolsAssumption
  DEF Init, TableInv, TypeOK, NoInitialization, OneHolder, Holding, ScannedOthers, NameIsNew,
      AnswerIsRight, ReadsWhatWasGiven, SymbolsAreUnique, SymbolsKeepTheirNames

LEMMA TableNext == TableInv /\ [Next]_vars => TableInv'
<1> SUFFICES ASSUME TableInv, [Next]_vars PROVE TableInv'
  OBVIOUS
<1>a. TypeOK'
  BY TypeNext DEF TableInv
<1> USE <1>a, SymbolsAssumption
    DEF TableInv, TypeOK, Goto, NoInitialization, OneHolder, Holding, ScannedOthers, NameIsNew,
        AnswerIsRight, ReadsWhatWasGiven, SymbolsAreUnique, SymbolsKeepTheirNames
<1>1. ASSUME NEW t \in Thread, NEW n \in Name, Call(t, n) PROVE TableInv'
  BY <1>1 DEF Call
<1>2. ASSUME NEW t \in Thread, InitLock(t) PROVE TableInv'
  BY <1>2 DEF InitLock
<1>3. ASSUME NEW t \in Thread, SetInitialized(t) PROVE TableInv'
  BY <1>3 DEF SetInitialized
<1>4. ASSUME NEW t \in Thread, Lock(t) PROVE TableInv'
  BY <1>4 DEF Lock
<1>5. ASSUME NEW t \in Thread, Compare(t) PROVE TableInv'
  BY <1>5 DEF Compare
<1>6. ASSUME NEW t \in Thread, NotFound(t) PROVE TableInv'
  BY <1>6 DEF NotFound
<1>7. ASSUME NEW t \in Thread, Push(t) PROVE TableInv'
  BY <1>7 DEF Push
<1>8. ASSUME NEW t \in Thread, Unlock(t) PROVE TableInv'
  <2> USE <1>8 DEF Unlock
  <2>1. SymbolsKeepTheirNames'
    <3>1. ASSUME NEW g \in given' PROVE g[2] \in 1 .. Len(storage) /\ storage[g[2]] = g[1]
      <4>1. CASE g \in given
        BY <4>1
      <4>2. CASE g = <<name[t], index[t]>>
        BY <4>2
      <4> QED
        BY <4>1, <4>2
    <3>2. \A u \in Thread : pc'[u] # "misread"
      OBVIOUS
    <3> QED
      BY <3>1, <3>2
  <2>2. ReadsWhatWasGiven'
    OBVIOUS
  <2>3. NoInitialization'
    OBVIOUS
  <2>4. OneHolder'
    OBVIOUS
  <2>5. SymbolsAreUnique'
    OBVIOUS
  <2>6. ScannedOthers' /\ NameIsNew' /\ AnswerIsRight'
    OBVIOUS
  <2> QED
    BY <2>1, <2>2, <2>3, <2>4, <2>5, <2>6
<1>9. ASSUME NEW t \in Thread, NEW g \in given, SymbolToString(t, g) PROVE TableInv'
  <2> USE <1>9 DEF SymbolToString
  <2>1. g = <<g[1], g[2]>> /\ g[1] \in Name /\ g[2] \in Nat \ {0}
    OBVIOUS
  <2>2. ASSUME NEW u \in Thread, pc'[u] = "read" PROVE <<name'[u], index'[u]>> \in given'
    <3>1. CASE u = t
      <4>1. name'[t] = g[1] /\ index'[t] = g[2] /\ given' = given
        OBVIOUS
      <4>2. <<name'[t], index'[t]>> = g
        BY <2>1, <4>1, Zenon
      <4>3. g \in given'
        BY <4>1
      <4>4. <<name'[u], index'[u]>> = g
        BY <3>1, <4>2
      <4> QED
        BY <4>3, <4>4
    <3>2. CASE u # t
      BY <2>2, <3>2
    <3> QED
      BY <3>1, <3>2
  <2>3. NoInitialization' /\ OneHolder' /\ SymbolsAreUnique'
    OBVIOUS
  <2>4. SymbolsKeepTheirNames'
    OBVIOUS
  <2>5. ScannedOthers' /\ NameIsNew' /\ AnswerIsRight'
    BY <2>1
  <2> QED
    BY <2>2, <2>3, <2>4, <2>5
<1>10. ASSUME NEW t \in Thread, Read(t) PROVE TableInv'
  <2>1. index[t] \in 1 .. Len(storage) /\ storage[index[t]] = name[t]
    <3>1. \A g \in given : g[2] \in 1 .. Len(storage) /\ storage[g[2]] = g[1]
      OBVIOUS
    <3>2. <<name[t], index[t]>> \in given
      BY <1>10 DEF Read
    <3> QED
      BY <3>1, <3>2
  <2> QED
    BY <1>10, <2>1 DEF Read
<1>11. CASE UNCHANGED vars
  BY <1>11 DEF vars
<1> QED
  BY <1>1, <1>2, <1>3, <1>4, <1>5, <1>6, <1>7, <1>8, <1>9, <1>10, <1>11 DEF Next

LEMMA TableAlways == ASSUME Initialized PROVE Spec => []TableInv
<1>1. Init => TableInv
  BY TableInit
<1> QED
  BY <1>1, TableNext, PTL DEF Spec

\* No two symbols stand for one name, whatever threads ask for and add at the
\* same time (symbol.c:35-49).
THEOREM UniqueSymbols == ASSUME Initialized PROVE Spec => []SymbolsAreUnique
<1>1. TableInv => SymbolsAreUnique
  BY DEF TableInv
<1> QED
  BY <1>1, TableAlways, PTL

\* A symbol stays that of its name for ever, for every thread (symbol.c:68-78).
THEOREM LastingSymbols == ASSUME Initialized PROVE Spec => []SymbolsKeepTheirNames
<1>1. TableInv => SymbolsKeepTheirNames
  BY DEF TableInv
<1> QED
  BY <1>1, TableAlways, PTL

-----------------------------------------------------------------------------
(***************************************************************************)
(* Loading                                                                 *)
(***************************************************************************)
\* main.c, which requires the first file, is not a file that can be required.
MainIsNoFile == \A fs \in FileSystems : Main \notin fs

Files == existing \cup {Main}
Frames == [file : Files, tries : BOOLEAN]

LoadTypes ==
  /\ existing \in FileSystems
  /\ load_paths \in Seq({LibDir} \cup OtherDirs)
  /\ load_frames \in Seq(Frames)
  /\ loads \in [existing -> Nat]

MapInv ==
  /\ loaded_files \subseteq existing
  /\ \A f \in existing : loads[f] = IF f \in loaded_files THEN 1 ELSE 0

FramesInv ==
  /\ \A k \in DOMAIN load_frames : load_frames[k].file = Main \/ load_frames[k].file \in loaded_files
  /\ \A j, k \in DOMAIN load_frames : load_frames[j].file = load_frames[k].file => j = k
  /\ load_frames # <<>> => load_frames[1].file = Main

MeantInv == \A p \in meant : p[2] # NoFile /\ Found(p[1]) = p[2]

LoadInv == LoadTypes /\ MapInv /\ FramesInv /\ MeantInv

(***************************************************************************)
(* First and last places                                                   *)
(***************************************************************************)
LEMMA Greatest ==
  ASSUME NEW n \in Nat, NEW S \in SUBSET (1 .. n), S # {}
  PROVE  Max(S) \in S /\ \A m \in S : Max(S) >= m
<1> DEFINE R == {n - m : m \in S}
<1>1. PICK s \in S : TRUE
  OBVIOUS
<1>2. R \in SUBSET Nat
  OBVIOUS
<1>3. R # {}
  BY <1>1
<1>4. Min(R) \in R /\ \A r \in R : Min(R) <= r
  BY <1>2, <1>3, LeastIsMin
<1>5. PICK m \in S : Min(R) = n - m
  BY <1>4
<1>6. ASSUME NEW k \in S PROVE m >= k
  <2>1. n - m <= n - k
    BY <1>4, <1>5
  <2> QED  BY <2>1
<1> QED  BY <1>6 DEF Max

(***************************************************************************)
(* Names                                                                   *)
(***************************************************************************)
Places(path) == {d \in 1 .. Len(Directories(path)) : HasAnswer(Directories(path)[d], path)}
AnswersIn(dir, path) ==
  {s \in 1 .. Len(Candidates(dir, path)) : Answers(Candidates(dir, path)[s])}
FirstIn(dir, path) == Candidates(dir, path)[Min(AnswersIn(dir, path))]

LEMMA CandidatesAreFiles ==
  ASSUME NEW dir, NEW path
  PROVE  DOMAIN Candidates(dir, path) = 1 .. Len(Candidates(dir, path))
<1>1. CASE path.absolute \/ path.suffix # ""
  <2> DEFINE file == File(dir, path.base, path.suffix)
  <2>1. Candidates(dir, path) = <<file>>
    BY <1>1 DEF Candidates
  <2> HIDE DEF file
  <2> QED  BY <2>1
<1>2. CASE ~(path.absolute \/ path.suffix # "")
  <2> DEFINE file(s) == File(dir, path.base, Endings[s])
  <2>1. Candidates(dir, path) = [s \in 1 .. Len(Endings) |-> file(s)]
    BY <1>2 DEF Candidates
  <2>2. Len(Endings) = 4
    BY DEF Endings
  <2> HIDE DEF file
  <2> QED  BY <2>1, <2>2
<1> QED  BY <1>1, <1>2

PlacesDecide(path) ==
  /\ Places(path) \in SUBSET Nat
  /\ Places(path) = {} => Found(path) = NoFile
  /\ Places(path) # {} =>
       Found(path) = FirstIn(Directories(path)[Min(Places(path))], path)

LEMMA FoundIs == \A path : PlacesDecide(path)
<1> SUFFICES ASSUME NEW path PROVE PlacesDecide(path)
  OBVIOUS
<1> DEFINE dirs == Directories(path)
           place == SelectInSeq(dirs, LAMBDA dir : HasAnswer(dir, path))
<1>1. place = IF Places(path) # {} THEN Min(Places(path)) ELSE 0
  BY DEF SelectInSeq, Places
<1>2. ASSUME NEW dir, HasAnswer(dir, path)
      PROVE  FirstIn(dir, path) = Candidates(dir, path)[SelectInSeq(Candidates(dir, path), Answers)]
  <2>1. AnswersIn(dir, path) # {}
    BY <1>2, CandidatesAreFiles DEF HasAnswer, AnswersIn
  <2>2. SelectInSeq(Candidates(dir, path), Answers) = Min(AnswersIn(dir, path))
    BY <2>1 DEF SelectInSeq, AnswersIn
  <2> QED  BY <2>2 DEF FirstIn
<1>3. Found(path) = IF place = 0 THEN NoFile
                    ELSE Candidates(dirs[place], path)
                           [SelectInSeq(Candidates(dirs[place], path), Answers)]
  BY DEF Found
<1>0. Places(path) \in SUBSET Nat
  BY DEF Places
<1>4. CASE Places(path) = {}
  BY <1>0, <1>1, <1>3, <1>4 DEF PlacesDecide
<1>5. CASE Places(path) # {}
  <2>1. Min(Places(path)) \in Places(path)
    BY <1>0, <1>5, LeastIsMin
  <2>2. Min(Places(path)) # 0 /\ HasAnswer(dirs[Min(Places(path))], path)
    BY <2>1 DEF Places
  <2> HIDE DEF place, dirs
  <2>3. place = Min(Places(path)) /\ place # 0
    BY <1>1, <1>5, <2>2
  <2>4. Found(path) = FirstIn(dirs[place], path)
    BY <1>2, <1>3, <2>2, <2>3
  <2> QED  BY <1>0, <1>5, <2>3, <2>4 DEF dirs, PlacesDecide
<1> QED  BY <1>4, <1>5

LEMMA FoundIsNext == (\A path : PlacesDecide(path))'
BY FoundIs, PTL

\* What is found exists.
LEMMA FoundExists ==
  ASSUME NEW path, Found(path) # NoFile
  PROVE  Found(path) \in existing
<1>1. Places(path) # {} /\ Places(path) \in SUBSET Nat
  BY FoundIs DEF PlacesDecide
<1>2. Min(Places(path)) \in Places(path)
  BY <1>1, LeastIsMin
<1> DEFINE dir == Directories(path)[Min(Places(path))]
<1>3. HasAnswer(dir, path) /\ Found(path) = FirstIn(dir, path)
  BY <1>1, <1>2, FoundIs DEF Places, PlacesDecide
<1> HIDE DEF dir
<1>4. AnswersIn(dir, path) # {} /\ AnswersIn(dir, path) \in SUBSET Nat
  BY <1>3, CandidatesAreFiles DEF HasAnswer, AnswersIn
<1>5. Min(AnswersIn(dir, path)) \in AnswersIn(dir, path)
  BY <1>4, LeastIsMin
<1> QED  BY <1>3, <1>5 DEF FirstIn, AnswersIn, Answers

\* A load path that is added is behind those that were looked in.
LEMMA FoundStays ==
  ASSUME NEW path, LoadTypes, Found(path) # NoFile, UNCHANGED existing,
         UNCHANGED load_paths \/ \E dir \in OtherDirs : load_paths' = Append(load_paths, dir)
  PROVE  Found(path)' = Found(path)
<1>1. \A dir : HasAnswer(dir, path)' <=> HasAnswer(dir, path)
  BY DEF HasAnswer, Answers
<1>2. \A dir : FirstIn(dir, path)' = FirstIn(dir, path)
  BY DEF FirstIn, AnswersIn, Answers
<1>3. PlacesDecide(path) /\ PlacesDecide(path)'
  BY FoundIs, FoundIsNext
<1>4. /\ Len(Directories(path)) \in Nat /\ Len(Directories(path)') \in Nat
      /\ Len(Directories(path)) <= Len(Directories(path)')
      /\ \A d \in 1 .. Len(Directories(path)) : Directories(path)'[d] = Directories(path)[d]
  <2>1. load_paths \in Seq({LibDir} \cup OtherDirs)
    BY DEF LoadTypes
  <2>2. load_paths' \in Seq({LibDir} \cup OtherDirs) /\ Len(load_paths') >= Len(load_paths)
        /\ \A d \in 1 .. Len(load_paths) : load_paths'[d] = load_paths[d]
    BY <2>1
  <2>3. CASE path.absolute
    BY <2>3 DEF Directories
  <2>4. CASE ~path.absolute
    <3>1. Directories(path) = <<Cwd>> \o load_paths /\ Directories(path)' = <<Cwd>> \o load_paths'
      BY <2>4 DEF Directories
    <3> QED  BY <2>1, <2>2, <3>1
  <2> QED  BY <2>3, <2>4
<1>5. Places(path) # {}
  BY <1>3 DEF PlacesDecide
<1> DEFINE m == Min(Places(path))
           l == Min(Places(path)')
<1>6. m \in Places(path) /\ \A d \in Places(path) : m <= d
  BY <1>3, <1>5, LeastIsMin DEF PlacesDecide
<1>7. Places(path) \subseteq Places(path)'
  BY <1>1, <1>4 DEF Places
<1>8. l \in Places(path)' /\ \A d \in Places(path)' : l <= d
  <2>1. Places(path)' \in SUBSET Nat /\ Places(path)' # {}
    BY <1>3, <1>5, <1>7 DEF PlacesDecide
  <2> QED  BY <2>1, LeastIsMin
<1> HIDE DEF m, l
<1>9. l = m
  <2>1. l <= m
    BY <1>6, <1>7, <1>8
  <2>2. l \in Places(path)
    BY <1>1, <1>4, <1>6, <1>8, <2>1 DEF Places
  <2>3. m <= l
    BY <1>6, <2>2
  <2> QED  BY <1>3, <1>6, <2>1, <2>2, <2>3 DEF PlacesDecide
<1>10. Directories(path)'[l] = Directories(path)[m] /\ Places(path)' # {}
  BY <1>4, <1>6, <1>8, <1>9 DEF Places
<1> QED  BY <1>2, <1>3, <1>5, <1>10 DEF m, l, PlacesDecide

(***************************************************************************)
(* Frames                                                                  *)
(***************************************************************************)
\* What an exception or the end of a file leaves: the same files, or fewer.
Fewer(fs) ==
  {gs \in Seq(Frames) :
     /\ Len(gs) <= Len(fs)
     /\ \A k \in 1 .. Len(gs) : gs[k].file = fs[k].file}

\* What a file put on top leaves below it.
LEMMA PutOnTop ==
  ASSUME NEW fs \in Seq(Frames), NEW frame \in Frames
  PROVE  /\ Append(fs, frame) \in Seq(Frames)
         /\ Len(Append(fs, frame)) = Len(fs) + 1
         /\ Append(fs, frame)[Len(fs) + 1] = frame
         /\ \A k \in 1 .. Len(fs) : Append(fs, frame)[k] = fs[k]
OBVIOUS

LEMMA UnwoundIsFewer ==
  ASSUME NEW fs \in Seq(Frames)
  PROVE  Unwound(fs) \in Fewer(fs)
<1> DEFINE S == {k \in 1 .. Len(fs) : fs[k].tries}
           last == SelectLastInSeq(fs, LAMBDA f : f.tries)
<1>1. last = IF S # {} THEN Max(S) ELSE 0
  BY DEF SelectLastInSeq
<1>2. Unwound(fs) = IF last = 0 THEN <<>>
                    ELSE Append(SubSeq(fs, 1, last - 1), LoadFrame(fs[last].file))
  BY DEF Unwound
<1>0. Len(fs) \in Nat /\ DOMAIN fs = 1 .. Len(fs) /\ S \in SUBSET (1 .. Len(fs))
  OBVIOUS
<1>3. S # {} => Max(S) \in S
  <2> HIDE DEF S
  <2> QED  BY <1>0, Greatest
<1> HIDE DEF last, S
<1>4. CASE last = 0
  BY <1>2, <1>4 DEF Fewer
<1>5. CASE last # 0
  <2>1. last \in 1 .. Len(fs)
    BY <1>0, <1>1, <1>3, <1>5
  <2>2. fs[last] \in Frames /\ fs[last].file \in Files
    <3>1. fs[last] \in Frames
      BY <2>1
    <3> QED  BY <3>1 DEF Frames
  <2>3. LoadFrame(fs[last].file) \in Frames /\ LoadFrame(fs[last].file).file = fs[last].file
    BY <2>2 DEF LoadFrame, Frames
  <2> DEFINE frame == LoadFrame(fs[last].file)
  <2> HIDE DEF frame
  <2>4. /\ SubSeq(fs, 1, last - 1) \in Seq(Frames) /\ Len(SubSeq(fs, 1, last - 1)) = last - 1
        /\ \A k \in 1 .. last - 1 : SubSeq(fs, 1, last - 1)[k] = fs[k]
    BY <2>1
  <2> DEFINE rest == SubSeq(fs, 1, last - 1)
  <2> HIDE DEF rest
  <2>5. /\ Append(rest, frame) \in Seq(Frames) /\ Len(Append(rest, frame)) = last
        /\ Append(rest, frame)[last] = frame
        /\ \A k \in 1 .. last - 1 : Append(rest, frame)[k] = fs[k]
    BY <2>1, <2>3, <2>4 DEF rest, frame
  <2>6. Unwound(fs) = Append(rest, frame)
    BY <1>2, <1>5 DEF rest, frame
  <2>7. \A k \in 1 .. last : Append(rest, frame)[k].file = fs[k].file
    <3> TAKE k \in 1 .. last
    <3>1. CASE k = last
      BY <3>1, <2>3, <2>5 DEF frame
    <3>2. CASE k # last
      <4>1. k \in 1 .. last - 1
        BY <3>2, <2>1
      <4> QED  BY <4>1, <2>5
    <3> QED  BY <3>1, <3>2
  <2>8. /\ Unwound(fs) \in Seq(Frames) /\ Len(Unwound(fs)) = last
        /\ \A k \in 1 .. last : Unwound(fs)[k].file = fs[k].file
    BY <2>5, <2>6, <2>7
  <2>9. last <= Len(fs)
    BY <1>0, <2>1
  <2> DEFINE gs == Unwound(fs)
  <2> HIDE DEF gs
  <2>10. gs \in Seq(Frames) /\ Len(gs) <= Len(fs) /\ \A k \in 1 .. Len(gs) : gs[k].file = fs[k].file
    BY <2>8, <2>9 DEF gs
  <2> QED  BY <2>10 DEF Fewer, gs
<1> QED  BY <1>4, <1>5

LEMMA FewerKeeps ==
  ASSUME LoadTypes, FramesInv, load_frames' \in Fewer(load_frames),
         loaded_files \subseteq loaded_files'
  PROVE  FramesInv'
<1>1. /\ load_frames \in Seq(Frames)
      /\ load_frames' \in Seq(Frames)
      /\ Len(load_frames') <= Len(load_frames)
      /\ \A k \in 1 .. Len(load_frames') : load_frames'[k].file = load_frames[k].file
  BY DEF LoadTypes, Fewer
<1>2. DOMAIN load_frames' = 1 .. Len(load_frames') /\ DOMAIN load_frames' \subseteq DOMAIN load_frames
  BY <1>1
<1>3. load_frames' # <<>> => load_frames # <<>> /\ 1 \in DOMAIN load_frames'
  BY <1>1
<1> QED  BY <1>1, <1>2, <1>3 DEF FramesInv

(***************************************************************************)
(* Steps                                                                   *)
(***************************************************************************)
LEMMA LoadInit ==
  ASSUME LoadingInit
  PROVE  LoadInv
<1>1. LoadTypes
  BY DEF LoadingInit, LoadTypes, Frames, Files, LoadFrame
<1>2. MapInv /\ MeantInv
  BY DEF LoadingInit, MapInv, MeantInv
<1>3. FramesInv
  BY DEF LoadingInit, FramesInv, LoadFrame
<1> QED  BY <1>1, <1>2, <1>3 DEF LoadInv

\* What is left of the frames keeps its type and its place in the invariant,
\* when nothing is loaded.
LEMMA Unloading ==
  ASSUME LoadInv, load_frames' \in Fewer(load_frames),
         UNCHANGED <<existing, load_paths, loaded_files, loads, meant>>
  PROVE  LoadInv'
<1>1. LoadTypes'
  BY DEF LoadInv, LoadTypes, Fewer, Frames, Files
<1>2. FramesInv'
  BY FewerKeeps DEF LoadInv
<1>3. MapInv'
  BY DEF LoadInv, MapInv
<1>4. MeantInv'
  <2> SUFFICES ASSUME NEW p \in meant PROVE p[2] # NoFile /\ Found(p[1])' = p[2]
    BY DEF MeantInv
  <2>1. p[2] # NoFile /\ Found(p[1]) = p[2]
    BY DEF LoadInv, MeantInv
  <2> QED  BY <2>1, FoundStays DEF LoadInv
<1> QED  BY <1>1, <1>2, <1>3, <1>4 DEF LoadInv

LEMMA LoadEnd ==
  ASSUME LoadInv, End
  PROVE  LoadInv'
<1>1. load_frames \in Seq(Frames) /\ Len(load_frames) \in Nat /\ Len(load_frames) > 1
  BY DEF LoadInv, LoadTypes, End
<1> DEFINE n == Len(load_frames) - 1
           last == LoadFrame(load_frames[n].file)
<1>2. n \in 1 .. Len(load_frames) /\ load_frames[n] \in Frames
  BY <1>1
<1>3. last \in Frames /\ last.file = load_frames[n].file
  BY <1>2 DEF LoadFrame, Frames
<1> HIDE DEF last
<1>4. /\ Front(load_frames) \in Seq(Frames) /\ Len(Front(load_frames)) = n
      /\ \A k \in 1 .. n : Front(load_frames)[k] = load_frames[k]
  BY <1>1, <1>2 DEF Front
<1> DEFINE rest == Front(load_frames)
<1> HIDE DEF rest
<1>5. Last(rest) = load_frames[n] /\ rest # <<>>
  BY <1>2, <1>4 DEF Last, rest
<1>6. /\ Front(rest) \in Seq(Frames) /\ Len(Front(rest)) = n - 1
      /\ \A k \in 1 .. n - 1 : Front(rest)[k] = load_frames[k]
  BY <1>2, <1>4, <1>5 DEF Front, rest
<1>7. load_frames' = Append(Front(rest), last)
  BY <1>5 DEF End, rest, last
<1>8. /\ load_frames' \in Seq(Frames) /\ Len(load_frames') = n /\ load_frames'[n] = last
      /\ \A k \in 1 .. n - 1 : load_frames'[k] = load_frames[k]
  BY <1>2, <1>3, <1>6, <1>7
<1>9. \A k \in 1 .. n : load_frames'[k].file = load_frames[k].file
  <2> TAKE k \in 1 .. n
  <2>1. CASE k = n
    BY <2>1, <1>3, <1>8
  <2>2. CASE k # n
    BY <2>2, <1>2, <1>8
  <2> QED  BY <2>1, <2>2
<1>10. load_frames' \in Fewer(load_frames)
  BY <1>1, <1>2, <1>8, <1>9 DEF Fewer
<1> QED  BY <1>10, Unloading DEF End

LEMMA LoadThrow ==
  ASSUME LoadInv, ThrowWhileLoading
  PROVE  LoadInv'
<1>1. load_frames' \in Fewer(load_frames)
  BY UnwoundIsFewer DEF LoadInv, LoadTypes, ThrowWhileLoading
<1> QED  BY <1>1, Unloading DEF ThrowWhileLoading

LEMMA LoadAddLoadPath ==
  ASSUME LoadInv, NEW dir \in OtherDirs, AddLoadPath(dir)
  PROVE  LoadInv'
<1>1. LoadTypes'
  BY DEF LoadInv, LoadTypes, AddLoadPath, Frames, Files
<1>2. FramesInv' /\ MapInv'
  BY DEF LoadInv, FramesInv, MapInv, AddLoadPath
<1>3. MeantInv'
  <2> SUFFICES ASSUME NEW p \in meant PROVE p[2] # NoFile /\ Found(p[1])' = p[2]
    BY DEF MeantInv, AddLoadPath
  <2>1. p[2] # NoFile /\ Found(p[1]) = p[2]
    BY DEF LoadInv, MeantInv
  <2> QED  BY <2>1, FoundStays DEF LoadInv, AddLoadPath
<1> QED  BY <1>1, <1>2, <1>3 DEF LoadInv

LEMMA LoadRequire ==
  ASSUME MainIsNoFile, LoadInv, NEW path \in FileName, NEW tries \in BOOLEAN, Require(path, tries)
  PROVE  LoadInv'
<1> DEFINE file == Found(path)
           n == Len(load_frames)
           now == Append(Front(load_frames), [Last(load_frames) EXCEPT !.tries = tries])
<1>1. load_frames \in Seq(Frames) /\ n \in Nat /\ n >= 1 /\ n \in DOMAIN load_frames /\ DOMAIN load_frames = 1 .. n
  BY DEF LoadInv, LoadTypes, Require
<1>2. now \in Fewer(load_frames) /\ Len(now) = n /\ now \in Seq(Frames)
  <2> DEFINE last == [load_frames[n] EXCEPT !.tries = tries]
  <2>1. last \in Frames /\ last.file = load_frames[n].file /\ Last(load_frames) = load_frames[n]
    <3>1. load_frames[n] \in Frames
      BY <1>1
    <3> QED  BY <3>1 DEF Last, Frames
  <2>2. now = Append(Front(load_frames), last)
    BY <2>1
  <2> HIDE DEF last, now
  <2>3. /\ Front(load_frames) \in Seq(Frames) /\ Len(Front(load_frames)) = n - 1
        /\ \A k \in 1 .. n - 1 : Front(load_frames)[k] = load_frames[k]
    BY <1>1 DEF Front
  <2> DEFINE front == Front(load_frames)
  <2>4. /\ now \in Seq(Frames) /\ Len(now) = n /\ now[n] = last
        /\ \A k \in 1 .. n - 1 : now[k] = load_frames[k]
    <3>1. /\ front \in Seq(Frames) /\ Len(front) = n - 1 /\ n - 1 \in Nat
          /\ \A k \in 1 .. n - 1 : front[k] = load_frames[k]
      BY <1>1, <2>3
    <3> HIDE DEF front
    <3>2. /\ Append(front, last) \in Seq(Frames) /\ Len(Append(front, last)) = n
          /\ Append(front, last)[n] = last
          /\ \A k \in 1 .. n - 1 : Append(front, last)[k] = front[k]
      <4>1. Len(front) + 1 = n
        BY <1>1, <3>1
      <4>2. /\ Append(front, last) \in Seq(Frames)
            /\ Len(Append(front, last)) = Len(front) + 1
            /\ Append(front, last)[Len(front) + 1] = last
            /\ \A k \in 1 .. Len(front) : Append(front, last)[k] = front[k]
        BY <2>1, <3>1, PutOnTop, Zenon
      <4> DEFINE whole == Append(front, last)
      <4> HIDE DEF whole
      <4>3. /\ whole \in Seq(Frames) /\ Len(whole) = n /\ whole[n] = last
            /\ \A k \in 1 .. Len(front) : whole[k] = front[k]
        BY <4>1, <4>2, Zenon DEF whole
      <4>4. \A k \in 1 .. n - 1 : whole[k] = front[k]
        BY <3>1, <4>3
      <4> QED  BY <4>3, <4>4 DEF whole
    <3> QED  BY <2>2, <3>1, <3>2 DEF front
  <2>5. \A k \in 1 .. n : now[k].file = load_frames[k].file
    <3> TAKE k \in 1 .. n
    <3>1. CASE k = n
      BY <3>1, <2>1, <2>4
    <3>2. CASE k # n
      BY <3>2, <1>1, <2>4
    <3> QED  BY <3>1, <3>2
  <2> QED  BY <1>1, <2>4, <2>5 DEF Fewer
<1>3. Unwound(now) \in Fewer(load_frames)
  <2> HIDE DEF now
  <2>1. Unwound(now) \in Fewer(now)
    BY <1>2, UnwoundIsFewer
  <2> QED  BY <1>1, <1>2, <2>1 DEF Fewer
<1>4. UNCHANGED <<existing, load_paths>>
  BY DEF Require
<1>5. CASE file = NoFile
  <2>1. load_frames' = Unwound(now) /\ UNCHANGED <<loaded_files, loads, meant>>
    BY <1>5 DEF Require
  <2> QED  BY <1>3, <1>4, <2>1, Unloading
<1>6. CASE file # NoFile
  <2>1. file \in existing
    BY <1>6, FoundExists
  <2>2. /\ meant' = meant \cup {<<path, file>>}
        /\ IF file \in loaded_files THEN UNCHANGED <<load_frames, loaded_files, loads>>
           ELSE /\ loaded_files' = loaded_files \cup {file}
                /\ loads' = [loads EXCEPT ![file] = @ + 1]
                /\ IF IsSource(file) THEN load_frames' = Append(now, LoadFrame(file))
                   ELSE load_frames' \in {load_frames, Unwound(now)}
    BY <1>6 DEF Require, Mark
  <2>3. MeantInv'
    <3> SUFFICES ASSUME NEW p \in meant' PROVE p[2] # NoFile /\ Found(p[1])' = p[2]
      BY DEF MeantInv
    <3>1. p[2] # NoFile /\ Found(p[1]) = p[2]
      <4>1. CASE p \in meant
        BY <4>1 DEF LoadInv, MeantInv
      <4>2. CASE p = <<path, file>>
        BY <4>2, <1>6
      <4> QED  BY <4>1, <4>2, <2>2
    <3> QED  BY <3>1, <1>4, FoundStays DEF LoadInv
  <2>4. CASE file \in loaded_files
    <3>1. LoadTypes' /\ MapInv' /\ FramesInv'
      BY <1>4, <2>2, <2>4 DEF LoadInv, LoadTypes, MapInv, FramesInv, Frames, Files
    <3> QED  BY <2>3, <3>1 DEF LoadInv
  <2>5. CASE file \notin loaded_files
    <3>1. MapInv' /\ loads' \in [existing -> Nat] /\ loaded_files \subseteq loaded_files'
      <4> HIDE DEF file
      <4>1. /\ loads \in [existing -> Nat] /\ loaded_files \subseteq existing /\ loads[file] = 0
            /\ \A f \in existing : loads[f] = IF f \in loaded_files THEN 1 ELSE 0
        BY <2>1, <2>5 DEF LoadInv, LoadTypes, MapInv
      <4>2. /\ loads' \in [existing -> Nat] /\ loads'[file] = 1
            /\ \A f \in existing : f # file => loads'[f] = loads[f]
            /\ loaded_files' = loaded_files \cup {file}
        BY <2>1, <2>2, <2>5, <4>1
      <4> QED  BY <2>1, <4>1, <4>2, <1>4 DEF MapInv
    <3>2. FramesInv' /\ load_frames' \in Seq(Frames)
      <4>1. CASE ~IsSource(file)
        <5>1. load_frames \in Fewer(load_frames)
          BY <1>1 DEF Fewer
        <5>2. load_frames' \in Fewer(load_frames)
          BY <1>3, <2>2, <2>5, <4>1, <5>1
        <5> QED  BY <3>1, <5>2, FewerKeeps DEF LoadInv, Fewer
      <4>2. CASE IsSource(file)
        <5> HIDE DEF now
        <5>1. load_frames' = Append(now, LoadFrame(file))
          BY <2>2, <2>5, <4>2
        <5>2. LoadFrame(file) \in Frames /\ LoadFrame(file).file = file
          BY <2>1 DEF LoadFrame, Files, Frames
        <5>3. /\ load_frames' \in Seq(Frames) /\ Len(load_frames') = n + 1 /\ DOMAIN load_frames' = 1 .. n + 1
              /\ load_frames'[n + 1].file = file
              /\ \A k \in 1 .. n : load_frames'[k].file = load_frames[k].file
          <6> DEFINE new == LoadFrame(file)
          <6> HIDE DEF new
          <6>1. /\ load_frames' \in Seq(Frames) /\ Len(load_frames') = n + 1 /\ DOMAIN load_frames' = 1 .. n + 1
                /\ load_frames'[n + 1] = new /\ \A k \in 1 .. n : load_frames'[k] = now[k]
            BY <1>1, <1>2, <5>1, <5>2 DEF new
          <6>2. \A k \in 1 .. n : now[k].file = load_frames[k].file
            BY <1>2 DEF Fewer
          <6> QED  BY <5>2, <6>1, <6>2 DEF new
        <5>4. file # Main
          BY <2>1 DEF MainIsNoFile, LoadInv, LoadTypes
        <5>5. \A k \in 1 .. n : load_frames[k].file # file
          BY <1>1, <2>5, <5>4 DEF LoadInv, FramesInv
        <5>6. file \in loaded_files'
          BY <2>2, <2>5
        <5>7. \A k \in 1 .. n + 1 : load_frames'[k].file = Main \/ load_frames'[k].file \in loaded_files'
          <6> TAKE k \in 1 .. n + 1
          <6>1. CASE k = n + 1
            BY <6>1, <5>3, <5>6
          <6>2. CASE k # n + 1
            <7>1. k \in 1 .. n
              BY <6>2, <1>1
            <7>2. load_frames[k].file = Main \/ load_frames[k].file \in loaded_files
              BY <7>1, <1>1 DEF LoadInv, FramesInv
            <7> QED  BY <7>1, <7>2, <3>1, <5>3
          <6> QED  BY <6>1, <6>2
        <5>8. \A j, k \in 1 .. n + 1 : load_frames'[j].file = load_frames'[k].file => j = k
          <6> SUFFICES ASSUME NEW j \in 1 .. n + 1, NEW k \in 1 .. n + 1,
                              load_frames'[j].file = load_frames'[k].file
                       PROVE  j = k
            OBVIOUS
          <6>1. CASE j = n + 1 \/ k = n + 1
            BY <6>1, <1>1, <5>3, <5>5
          <6>2. CASE j # n + 1 /\ k # n + 1
            <7>1. j \in 1 .. n /\ k \in 1 .. n
              BY <6>2, <1>1
            <7>2. load_frames[j].file = load_frames[k].file
              BY <7>1, <5>3
            <7> QED  BY <7>1, <7>2, <1>1 DEF LoadInv, FramesInv
          <6> QED  BY <6>1, <6>2
        <5>9. load_frames'[1].file = Main
          <6>1. 1 \in 1 .. n /\ load_frames # <<>>
            BY <1>1
          <6> QED  BY <6>1, <5>3 DEF LoadInv, FramesInv
        <5> QED  BY <5>3, <5>7, <5>8, <5>9 DEF FramesInv
      <4> QED  BY <4>1, <4>2
    <3>3. LoadTypes'
      BY <1>4, <3>1, <3>2 DEF LoadInv, LoadTypes, Frames, Files
    <3> QED  BY <2>3, <3>1, <3>2, <3>3 DEF LoadInv
  <2> QED  BY <2>4, <2>5
<1> QED  BY <1>5, <1>6

LEMMA LoadStutters ==
  ASSUME LoadInv, UNCHANGED load_vars
  PROVE  LoadInv'
<1>1. load_frames \in Fewer(load_frames)
  BY DEF Fewer, LoadInv, LoadTypes
<1> QED  BY <1>1, Unloading DEF load_vars

LEMMA LoadNext ==
  ASSUME MainIsNoFile, LoadInv, [LoadingNext]_load_vars
  PROVE  LoadInv'
BY LoadRequire, LoadEnd, LoadThrow, LoadAddLoadPath, LoadStutters DEF LoadingNext

(***************************************************************************)
(* Theorems                                                                *)
(***************************************************************************)
\* FilesLoadOnce: in circles of requires, and after exceptions that leave files
\* half-way, no file is loaded a second time or evaluated within itself
\* (snow.c:204-214).
THEOREM EachFileIsLoadedOnce ==
  ASSUME MainIsNoFile
  PROVE  LoadingSpec => []FilesLoadOnce
<1>1. LoadInv => FilesLoadOnce
  BY DEF LoadInv, MapInv, FramesInv, FilesLoadOnce, IsInjective
<1> QED  BY <1>1, LoadInit, LoadNext, PTL DEF LoadingSpec

\* NamesMeanOneFile: whatever is loaded and whatever load paths are added,
\* a path that was found goes on to mean that file (snow.c:245-268).
THEOREM EachNameMeansOneFile ==
  ASSUME MainIsNoFile
  PROVE  LoadingSpec => []NamesMeanOneFile
<1>1. LoadInv => NamesMeanOneFile
  BY DEF LoadInv, MeantInv, NamesMeanOneFile
<1> QED  BY <1>1, LoadInit, LoadNext, PTL DEF LoadingSpec
=============================================================================
