------------------------- MODULE ConfigStoreProofs -------------------------
(***************************************************************************)
(* Proofs about ConfigStore.                                               *)
(*                                                                         *)
(* TornNeedsCause is not inductive: it says nothing of a file that is      *)
(* being written, and the step that closes the file must know that the     *)
(* writer is the only one and what it has written so far.  FileInv adds    *)
(* both, and that all parts a file has come from one save unless two tasks *)
(* wrote it at a time.  ReadInv adds that what has been read of a file is  *)
(* still there unless it was written meanwhile; with these AppliedIsWhole  *)
(* follows.                                                                *)
(***************************************************************************)
EXTENDS ConfigStore, SequenceTheorems, TLAPS

Job == [file : File, value : Value]

(* A task that saves has a save to do, and none has a half of one. *)
JobInv ==
  \A w \in Writer : phase[w] = "saving" => job[w] # <<>>

(* w is the only one to write f and has written the parts before part[w]. *)
WritingAlone(w, f) ==
  /\ \A u \in Writer : Opened(u, f) => u = w
  /\ \A k \in 1..Parts :
       disk[f][k] = IF k < part[w] THEN Head(job[w]).value ELSE NoValue

(* The parts that f has come from one save. *)
OneContent(f) ==
  \A j, k \in 1..Parts :
    disk[f][j] # NoValue /\ disk[f][k] # NoValue => disk[f][j] = disk[f][k]

FileInv(f) ==
  ~overlapped[f] =>
    /\ OneContent(f)
    /\ \A w \in Writer : Opened(w, f) => WritingAlone(w, f)
    /\ (\A w \in Writer : ~Opened(w, f)) =>
         cut[f] \/ disk[f] \in {Empty} \cup {FileOf(v) : v \in Value}

(* The file that is read, unless it is written beside: nobody has it open *)
(* to write, and what has been read is what it has.                       *)
ReadInv ==
  place > 0 =>
    /\ loading # <<>>
    /\ ~beside =>
         /\ \A w \in Writer : ~Opened(w, Head(loading))
         /\ \A k \in 1..Parts :
              text[k] = IF k < place THEN disk[Head(loading)][k] ELSE NoValue

StoreInv == StoreTypeOK /\ JobInv /\ ReadInv /\ \A f \in File : FileInv(f)

-----------------------------------------------------------------------------
(* A step that writes the file being read, or opens it, is noted. *)
LEMMA ReadLeftAlone ==
  ASSUME ReadInv, UNCHANGED <<loading, place, text>>,
         place > 0 /\ ~beside' =>
           /\ ~beside /\ disk'[Head(loading)] = disk[Head(loading)]
           /\ \A w \in Writer : Opened(w, Head(loading))' => Opened(w, Head(loading))
  PROVE  ReadInv'
<1> SUFFICES ASSUME place > 0
             PROVE  /\ loading # <<>>
                    /\ ~beside' =>
                         /\ \A w \in Writer : ~Opened(w, Head(loading))'
                         /\ \A k \in 1..Parts :
                              text[k] = IF k < place THEN disk'[Head(loading)][k] ELSE NoValue
  BY DEF ReadInv, Opened, Saving
<1>1. loading # <<>>
  BY DEF ReadInv
<1>2. ASSUME ~beside'
      PROVE  /\ \A w \in Writer : ~Opened(w, Head(loading))'
             /\ \A k \in 1..Parts :
                  text[k] = IF k < place THEN disk'[Head(loading)][k] ELSE NoValue
  BY <1>2 DEF ReadInv
<1> QED
  BY <1>1, <1>2

(* What a writer that saves has in hand. *)
LEMMA SaveInHand ==
  ASSUME StoreTypeOK, JobInv, NEW w \in Writer, phase[w] = "saving"
  PROVE  /\ Head(job[w]) \in Job
         /\ Head(job[w]).file \in File
         /\ Head(job[w]).value \in Value
         /\ Tail(job[w]) \in Seq(Job)
         /\ Len(job[w]) # 1 => Tail(job[w]) # <<>>
<1>1. job[w] \in Seq(Job) /\ job[w] # <<>>
  BY DEF StoreTypeOK, JobInv, Job
<1>2. /\ Head(job[w]) \in Job /\ Tail(job[w]) \in Seq(Job)
      /\ Len(job[w]) # 1 => Tail(job[w]) # <<>>
  <2>1. /\ Head(job[w]) \in Job /\ Tail(job[w]) \in Seq(Job)
        /\ Len(Tail(job[w])) = Len(job[w]) - 1
    BY <1>1, HeadTailProperties
  <2>2. Tail(job[w]) = <<>> => Len(Tail(job[w])) = 0
    BY EmptySeq
  <2>3. Len(job[w]) \in Nat
    BY <1>1, LenProperties
  <2>4. Tail(job[w]) = <<>> => Len(job[w]) = 1
    BY <2>1, <2>2, <2>3
  <2> QED
    BY <2>1, <2>4
<1> QED
  BY <1>2 DEF Job

(* NextSave leaves the types right and a task that saves with a save to do. *)
LEMMA NextSaveKeeps ==
  ASSUME StoreTypeOK, JobInv, NEW w \in Writer, phase[w] = "saving", NextSave(w)
  PROVE  /\ job' \in [Writer -> Seq(Job)]
         /\ part' \in [Writer -> 0..Parts]
         /\ phase' \in [Writer -> {"idle", "saving", "restarting"}]
         /\ JobInv'
         /\ \A u \in Writer, f \in File : Opened(u, f)' <=> Opened(u, f) /\ u # w
<1>1. /\ Tail(job[w]) \in Seq(Job)
      /\ Len(job[w]) # 1 => Tail(job[w]) # <<>>
  BY SaveInHand
<1>2. /\ job' = [job EXCEPT ![w] = Tail(job[w])]
      /\ part' = [part EXCEPT ![w] = 0]
      /\ phase' = [phase EXCEPT ![w] = IF Len(job[w]) = 1 THEN "restarting" ELSE "saving"]
  BY DEF NextSave
<1>3. job' \in [Writer -> Seq(Job)]
  BY <1>1, <1>2 DEF StoreTypeOK, Job
<1>4. part' \in [Writer -> 0..Parts]
  <2>1. 0 \in 0..Parts
    BY StoreAssumption DEF StoreAssumption
  <2> QED
    BY <1>2, <2>1 DEF StoreTypeOK
<1>5. phase' \in [Writer -> {"idle", "saving", "restarting"}]
  BY <1>2 DEF StoreTypeOK
<1>6. JobInv'
  <2> SUFFICES ASSUME NEW u \in Writer, phase'[u] = "saving" PROVE job'[u] # <<>>
    BY DEF JobInv
  <2>1. CASE u = w
    BY <1>1, <1>2, <2>1 DEF StoreTypeOK
  <2>2. CASE u # w
    BY <1>2, <2>2 DEF StoreTypeOK, JobInv
  <2> QED
    BY <2>1, <2>2
<1>7. ASSUME NEW u \in Writer, NEW f \in File
      PROVE  Opened(u, f)' <=> Opened(u, f) /\ u # w
  <2>1. CASE u = w
    BY <1>2, <2>1 DEF StoreTypeOK, Opened
  <2>2. CASE u # w
    BY <1>2, <2>2 DEF StoreTypeOK, Opened, Saving
  <2> QED
    BY <2>1, <2>2
<1> QED
  BY <1>3, <1>4, <1>5, <1>6, <1>7

-----------------------------------------------------------------------------
(* The file that is read is one. *)
LEMMA ReadingFile ==
  ASSUME StoreTypeOK, ReadInv, place > 0
  PROVE  Head(loading) \in File /\ Tail(loading) \in Seq(File)
BY HeadTailProperties DEF StoreTypeOK, ReadInv

(* A step that leaves the parts of f alone keeps FileInv(f), if a task that *)
(* still writes f is where it was and one that has finished with it has     *)
(* left it whole or cut off.                                                *)
LEMMA FileLeftAlone ==
  ASSUME NEW f \in File, FileInv(f),
         disk'[f] = disk[f], overlapped'[f] = overlapped[f], cut[f] => cut'[f],
         \A u \in Writer :
           Opened(u, f)' => /\ Opened(u, f)
                            /\ part'[u] = part[u] /\ Head(job'[u]) = Head(job[u]),
         (\A u \in Writer : ~Opened(u, f)') =>
            \/ \A u \in Writer : ~Opened(u, f)
            \/ cut'[f]
            \/ overlapped[f]
            \/ disk[f] \in {Empty} \cup {FileOf(v) : v \in Value}
  PROVE  FileInv(f)'
<1> SUFFICES ASSUME ~overlapped[f] PROVE FileInv(f)'
  BY DEF FileInv
<1>1. OneContent(f)'
  BY DEF FileInv, OneContent
<1>2. ASSUME NEW w \in Writer, Opened(w, f)' PROVE WritingAlone(w, f)'
  <2>1. WritingAlone(w, f)
    BY <1>2 DEF FileInv
  <2> QED
    BY <1>2, <2>1 DEF WritingAlone
<1>3. (\A u \in Writer : ~Opened(u, f)') =>
         cut'[f] \/ disk'[f] \in {Empty} \cup {FileOf(v) : v \in Value}
  BY DEF FileInv
<1>4. Empty' = Empty /\ \A v \in Value : FileOf(v)' = FileOf(v)
  BY DEF Empty, FileOf
<1> QED
  BY <1>1, <1>2, <1>3, <1>4 DEF FileInv

(* A step that writes only the file w has in hand leaves the others alone. *)
LEMMA OthersLeftAlone ==
  ASSUME StoreInv, NEW w \in Writer, phase[w] = "saving",
         NEW f \in File, f # Head(job[w]).file,
         disk'[f] = disk[f], overlapped'[f] = overlapped[f], cut[f] => cut'[f],
         \A u \in Writer :
           Opened(u, f)' => /\ Opened(u, f)
                            /\ part'[u] = part[u] /\ Head(job'[u]) = Head(job[u]),
         \A u \in Writer : u # w /\ Opened(u, f) => Opened(u, f)'
  PROVE  FileInv(f)'
<1>1. FileInv(f)
  BY DEF StoreInv
<1>2. ~Opened(w, f)
  BY DEF Opened, Saving
<1> QED
  BY <1>1, <1>2, FileLeftAlone

(* A save that is begun, by whoever asks for it. *)
LEMMA BeginKeeps ==
  ASSUME StoreInv, NEW w \in Writer, NEW saves \in Seq(Job), saves # <<>>,
         Begin(w, saves)
  PROVE  StoreInv'
<1>1. /\ phase[w] = "idle"
      /\ phase' = [phase EXCEPT ![w] = "saving"]
      /\ job' = [job EXCEPT ![w] = saves]
      /\ part' = [part EXCEPT ![w] = 0]
      /\ UNCHANGED <<disk, applied, loading, answer, cut, overlapped, place, text, beside>>
  BY DEF Begin, histVars, readVars
<1>2. StoreTypeOK'
  <2>1. 0 \in 0..Parts
    BY StoreAssumption DEF StoreAssumption
  <2> QED
    BY <1>1, <2>1 DEF StoreInv, StoreTypeOK, Job, Content
<1>3. JobInv'
  BY <1>1 DEF StoreInv, StoreTypeOK, JobInv
<1>5. ASSUME NEW u \in Writer, NEW f
      PROVE  /\ Opened(u, f)' <=> Opened(u, f)
             /\ Opened(u, f) => u # w
  <2>1. CASE u = w
    BY <1>1, <2>1 DEF StoreInv, StoreTypeOK, Opened, Saving
  <2>2. CASE u # w
    BY <1>1, <2>2 DEF StoreInv, StoreTypeOK, Opened, Saving
  <2> QED
    BY <2>1, <2>2
<1>6. ReadInv'
  BY <1>1, <1>5, ReadLeftAlone DEF StoreInv
<1>4. ASSUME NEW f \in File PROVE FileInv(f)'
  <2>1. \A u \in Writer : (Opened(u, f)' <=> Opened(u, f)) /\ (Opened(u, f) => u # w)
    BY <1>5
  <2>2. \A u \in Writer : u # w => part'[u] = part[u] /\ job'[u] = job[u]
    BY <1>1 DEF StoreInv, StoreTypeOK
  <2>3. FileInv(f)
    BY DEF StoreInv
  <2> QED
    BY <1>1, <2>1, <2>2, <2>3, FileLeftAlone
<1> QED
  BY <1>2, <1>3, <1>4, <1>6 DEF StoreInv

(* fopen() by a task that saves. *)
LEMMA OpenKeeps ==
  ASSUME StoreInv, NEW w \in Writer, Open(w)
  PROVE  StoreInv'
<1> DEFINE g == Head(job[w]).file
<1>1. /\ phase[w] = "saving" /\ part[w] = 0
      /\ disk' = [disk EXCEPT ![g] = Empty]
      /\ cut' = [cut EXCEPT ![g] = FALSE]
      /\ overlapped' = [overlapped EXCEPT ![g] = \E u \in Writer : Opened(u, g)]
      /\ part' = [part EXCEPT ![w] = 1]
      /\ beside' = (beside \/ Reading(g))
      /\ UNCHANGED <<applied, loading, phase, job, answer, place, text>>
  BY DEF Open, Renew
<1>2. g \in File
  BY <1>1, SaveInHand DEF StoreInv
<1>3. StoreTypeOK'
  <2>1. 1 \in 0..Parts
    BY StoreAssumption DEF StoreAssumption
  <2>2. part' \in [Writer -> 0..Parts]
    BY <1>1, <2>1 DEF StoreInv, StoreTypeOK
  <2>3. Empty \in Content
    BY DEF Empty, Content
  <2>4. disk' \in [File -> Content]
    BY <1>1, <2>3 DEF StoreInv, StoreTypeOK
  <2>5. (\E u \in Writer : Opened(u, g)) \in BOOLEAN
    OBVIOUS
  <2>6. cut' \in [File -> BOOLEAN]
    BY <1>1 DEF StoreInv, StoreTypeOK
  <2>7. overlapped' \in [File -> BOOLEAN]
    BY <1>1, <2>5 DEF StoreInv, StoreTypeOK
  <2>8. (beside \/ Reading(g)) \in BOOLEAN
    OBVIOUS
  <2> QED
    BY <1>1, <2>2, <2>4, <2>6, <2>7, <2>8 DEF StoreInv, StoreTypeOK, Content
<1>4. JobInv'
  BY <1>1 DEF StoreInv, JobInv
<1>6. ReadInv'
  <2>1. ASSUME place > 0, ~beside'
        PROVE  /\ ~beside /\ disk'[Head(loading)] = disk[Head(loading)]
               /\ \A u \in Writer : Opened(u, Head(loading))' => Opened(u, Head(loading))
    <3>1. ~beside /\ Head(loading) # g
      BY <1>1, <2>1 DEF Reading
    <3>2. disk'[Head(loading)] = disk[Head(loading)]
      BY <1>1, <3>1 DEF StoreInv, StoreTypeOK
    <3>3. ASSUME NEW u \in Writer, Opened(u, Head(loading))' PROVE Opened(u, Head(loading))
      <4>1. u # w
        BY <1>1, <3>1, <3>3 DEF Opened, Saving
      <4>2. part'[u] = part[u]
        BY <1>1, <4>1 DEF StoreInv, StoreTypeOK
      <4> QED
        BY <1>1, <3>3, <4>2 DEF Opened, Saving
    <3> QED
      BY <3>1, <3>2, <3>3
  <2> QED
    BY <1>1, <2>1, ReadLeftAlone DEF StoreInv
<1>5. ASSUME NEW f \in File PROVE FileInv(f)'
  <2>1. \A u \in Writer : u # w => part'[u] = part[u]
    BY <1>1 DEF StoreInv, StoreTypeOK
  <2>2. \A u \in Writer : u # w => (Opened(u, f)' <=> Opened(u, f))
    BY <1>1, <2>1 DEF Opened, Saving
  <2>3. CASE f # g
    <3>1. ~Opened(w, f) /\ ~Opened(w, f)'
      BY <1>1, <2>3 DEF Opened, Saving
    <3>2. disk'[f] = disk[f] /\ overlapped'[f] = overlapped[f] /\ cut'[f] = cut[f]
      BY <1>1, <2>3 DEF StoreInv, StoreTypeOK
    <3> QED
      BY <1>1, <2>1, <2>2, <2>3, <3>1, <3>2, OthersLeftAlone
  <2>4. CASE f = g
    <3>1. SUFFICES ASSUME ~overlapped'[f] PROVE FileInv(f)'
      BY DEF FileInv
    <3>2. \A u \in Writer : ~Opened(u, f)
      BY <1>1, <1>2, <2>4, <3>1 DEF StoreInv, StoreTypeOK
    <3>3. disk'[f] = Empty
      BY <1>1, <1>2, <2>4 DEF StoreInv, StoreTypeOK
    <3>4. \A u \in Writer : Opened(u, f)' => u = w
      BY <2>2, <3>2
    <3>5. Opened(w, f)' /\ part'[w] = 1
      BY <1>1, <2>4 DEF StoreInv, StoreTypeOK, Opened, Saving
    <3>6. \A k \in 1..Parts : disk'[f][k] = NoValue /\ ~(k < part'[w])
      BY <3>3, <3>5 DEF Empty
    <3>7. OneContent(f)' /\ WritingAlone(w, f)'
      BY <3>4, <3>6 DEF OneContent, WritingAlone
    <3> QED
      BY <3>4, <3>5, <3>7 DEF FileInv
  <2> QED
    BY <2>3, <2>4
<1> QED
  BY <1>3, <1>4, <1>5, <1>6 DEF StoreInv

(* A step that ends a save of w cut off. *)
LEMMA EndKeeps ==
  ASSUME StoreInv, NEW w \in Writer, phase[w] = "saving", NextSave(w),
         UNCHANGED <<disk, applied, loading, answer, overlapped, readVars>>,
         cut' = [cut EXCEPT ![Head(job[w]).file] = TRUE]
  PROVE  StoreInv'
<1> DEFINE g == Head(job[w]).file
<1>1. g \in File
  BY SaveInHand DEF StoreInv
<1>2. /\ job' \in [Writer -> Seq(Job)]
      /\ part' \in [Writer -> 0..Parts]
      /\ phase' \in [Writer -> {"idle", "saving", "restarting"}]
      /\ JobInv'
      /\ \A u \in Writer, f \in File : Opened(u, f)' <=> Opened(u, f) /\ u # w
  BY NextSaveKeeps DEF StoreInv
<1>3. StoreTypeOK'
  BY <1>2 DEF StoreInv, StoreTypeOK, Job, Content, readVars
<1>4. \A f \in File : cut[f] => cut'[f]
  BY DEF StoreInv, StoreTypeOK
<1>5. \A u \in Writer : u # w => part'[u] = part[u] /\ job'[u] = job[u]
  BY DEF NextSave, StoreInv, StoreTypeOK
<1>6. ASSUME NEW f \in File PROVE FileInv(f)'
  <2>1. CASE f # g
    BY <1>2, <1>4, <1>5, <2>1, OthersLeftAlone
  <2>2. CASE f = g
    <3>1. cut'[f]
      BY <1>1, <2>2 DEF StoreInv, StoreTypeOK
    <3>2. FileInv(f)
      BY DEF StoreInv
    <3> QED
      BY <1>2, <1>4, <1>5, <3>1, <3>2, FileLeftAlone
  <2> QED
    BY <2>1, <2>2
<1>7. ReadInv'
  BY <1>2, ReadingFile, ReadLeftAlone DEF StoreInv, readVars
<1> QED
  BY <1>2, <1>3, <1>6, <1>7 DEF StoreInv

(* The part of its content that w puts on the disk. *)
LEMMA PutIs ==
  ASSUME StoreInv, NEW w \in Writer, phase[w] = "saving", part[w] \in 1..Parts, Put(w)
  PROVE  /\ Head(job[w]).file \in File /\ Head(job[w]).value \in Value
         /\ Opened(w, Head(job[w]).file)
         /\ disk' \in [File -> Content]
         /\ \A f \in File : f # Head(job[w]).file => disk'[f] = disk[f]
         /\ \A k \in 1..Parts :
              disk'[Head(job[w]).file][k] =
                IF k = part[w] THEN Head(job[w]).value ELSE disk[Head(job[w]).file][k]
         /\ place > 0 /\ ~beside =>
              /\ Head(loading) \in File /\ Head(loading) # Head(job[w]).file
              /\ disk'[Head(loading)] = disk[Head(loading)]
<1> DEFINE g == Head(job[w]).file
           val == Head(job[w]).value
           p == part[w]
<1>1. g \in File /\ val \in Value
  BY SaveInHand DEF StoreInv
<1>2. Opened(w, g)
  BY StoreAssumption DEF Opened, Saving
<1>3. disk[g] \in Content /\ disk \in [File -> Content]
  BY <1>1 DEF StoreInv, StoreTypeOK
<1>4. /\ disk' = [disk EXCEPT ![g] = [disk[g] EXCEPT ![p] = val]]
      /\ [disk[g] EXCEPT ![p] = val] \in Content
  BY <1>1, <1>3 DEF Put, Content
<1>5. /\ disk' \in [File -> Content]
      /\ \A f \in File : f # g => disk'[f] = disk[f]
      /\ \A k \in 1..Parts : disk'[g][k] = IF k = p THEN val ELSE disk[g][k]
  BY <1>1, <1>3, <1>4 DEF Content
<1>6. ASSUME place > 0, ~beside
      PROVE  Head(loading) \in File /\ Head(loading) # g
  <2>1. Head(loading) \in File /\ ~Opened(w, Head(loading))
    BY <1>6, ReadingFile DEF StoreInv, ReadInv
  <2> QED
    BY <1>2, <2>1
<1> QED
  BY <1>1, <1>2, <1>5, <1>6

(* The next part of the file w has in hand. *)
LEMMA WriteKeeps ==
  ASSUME StoreInv, NEW w \in Writer, WritePart(w)
  PROVE  StoreInv'
<1> DEFINE g == Head(job[w]).file
           val == Head(job[w]).value
           p == part[w]
<1>1. /\ phase[w] = "saving" /\ p \in 1..(Parts - 1) /\ Put(w)
      /\ part' = [part EXCEPT ![w] = p + 1]
      /\ UNCHANGED <<applied, loading, phase, job, answer, cut, overlapped, place, text, beside>>
  BY DEF WritePart, histVars, readVars
<1>3. Parts \in Nat /\ p \in Nat /\ p \in 1..Parts /\ p + 1 \in 1..Parts
  BY <1>1, StoreAssumption DEF StoreAssumption
<1>2. /\ g \in File /\ val \in Value /\ Opened(w, g)
      /\ disk' \in [File -> Content]
      /\ \A f \in File : f # g => disk'[f] = disk[f]
      /\ \A k \in 1..Parts : disk'[g][k] = IF k = p THEN val ELSE disk[g][k]
      /\ place > 0 /\ ~beside => disk'[Head(loading)] = disk[Head(loading)]
  BY <1>1, <1>3, PutIs
<1>6. StoreTypeOK'
  <2>1. part' \in [Writer -> 0..Parts]
    BY <1>1, <1>3 DEF StoreInv, StoreTypeOK
  <2> QED
    BY <1>1, <1>2, <2>1 DEF StoreInv, StoreTypeOK, Content
<1>7. JobInv'
  BY <1>1 DEF StoreInv, JobInv
<1>8. \A u \in Writer : part'[u] = IF u = w THEN p + 1 ELSE part[u]
  BY <1>1 DEF StoreInv, StoreTypeOK
<1>9. \A u \in Writer, f \in File : Opened(u, f)' <=> Opened(u, f)
  <2> SUFFICES ASSUME NEW u \in Writer, NEW f \in File
               PROVE  Opened(u, f)' <=> Opened(u, f)
    OBVIOUS
  <2>1. part'[u] > 0 <=> part[u] > 0
    BY <1>1, <1>3, <1>8
  <2> QED
    BY <1>1, <2>1 DEF Opened, Saving
<1>10. ReadInv'
  BY <1>1, <1>2, <1>9, ReadingFile, ReadLeftAlone DEF StoreInv
<1>11. ASSUME NEW f \in File PROVE FileInv(f)'
  <2>1. CASE f # g
    <3>1. ~Opened(w, f)
      BY <2>1 DEF Opened, Saving
    <3> QED
      BY <1>1, <1>2, <1>8, <1>9, <2>1, <3>1, OthersLeftAlone
  <2>2. CASE f = g
    <3>1. SUFFICES ASSUME ~overlapped[f] PROVE FileInv(f)'
      BY <1>1 DEF FileInv
    <3>2. WritingAlone(w, f)
      BY <1>2, <2>2, <3>1 DEF StoreInv, FileInv
    <3>3. \A u \in Writer : Opened(u, f)' => u = w
      BY <1>9, <3>2 DEF WritingAlone
    <3>4. ASSUME NEW k \in 1..Parts
          PROVE  disk'[f][k] = IF k < part'[w] THEN Head(job'[w]).value ELSE NoValue
      <4>1. disk'[f][k] = IF k = p THEN val ELSE disk[f][k]
        BY <1>2, <2>2
      <4>2. disk[f][k] = IF k < p THEN val ELSE NoValue
        BY <3>2 DEF WritingAlone
      <4>3. k < part'[w] <=> k = p \/ k < p
        BY <1>3, <1>8
      <4> QED
        BY <1>1, <4>1, <4>2, <4>3
    <3>5. WritingAlone(w, f)'
      BY <3>3, <3>4 DEF WritingAlone
    <3>6. OneContent(f)'
      BY <3>4 DEF OneContent
    <3>7. Opened(w, f)'
      BY <1>9, <1>2, <2>2
    <3> QED
      BY <3>3, <3>5, <3>6, <3>7 DEF FileInv
  <2> QED
    BY <2>1, <2>2
<1> QED
  BY <1>6, <1>7, <1>10, <1>11 DEF StoreInv

(* fclose(): a writer that was alone leaves its content, whole. *)
LEMMA CloseKeeps ==
  ASSUME StoreInv, NEW w \in Writer, Close(w)
  PROVE  StoreInv'
<1> DEFINE g == Head(job[w]).file
           val == Head(job[w]).value
<1>1. /\ phase[w] = "saving" /\ part[w] = Parts /\ Put(w) /\ NextSave(w)
      /\ UNCHANGED <<applied, loading, answer, cut, overlapped, place, text, beside>>
  BY DEF Close, histVars, readVars
<1>2. part[w] \in 1..Parts /\ Parts \in Nat
  BY <1>1, StoreAssumption
<1>3. /\ g \in File /\ val \in Value /\ Opened(w, g)
      /\ disk' \in [File -> Content]
      /\ \A f \in File : f # g => disk'[f] = disk[f]
      /\ \A k \in 1..Parts : disk'[g][k] = IF k = Parts THEN val ELSE disk[g][k]
      /\ place > 0 /\ ~beside => disk'[Head(loading)] = disk[Head(loading)]
  BY <1>1, <1>2, PutIs
<1>4. /\ job' \in [Writer -> Seq(Job)]
      /\ part' \in [Writer -> 0..Parts]
      /\ phase' \in [Writer -> {"idle", "saving", "restarting"}]
      /\ JobInv'
      /\ \A u \in Writer, f \in File : Opened(u, f)' <=> Opened(u, f) /\ u # w
  BY <1>1, NextSaveKeeps DEF StoreInv
<1>5. StoreTypeOK'
  BY <1>1, <1>3, <1>4 DEF StoreInv, StoreTypeOK, Job, Content
<1>6. \A u \in Writer : u # w => part'[u] = part[u] /\ job'[u] = job[u]
  BY <1>1 DEF NextSave, StoreInv, StoreTypeOK
<1>7. ReadInv'
  BY <1>1, <1>3, <1>4, ReadingFile, ReadLeftAlone DEF StoreInv
<1>8. ASSUME NEW f \in File PROVE FileInv(f)'
  <2>1. CASE f # g
    BY <1>1, <1>3, <1>4, <1>6, <2>1, OthersLeftAlone
  <2>2. CASE f = g
    <3>1. SUFFICES ASSUME ~overlapped[f] PROVE FileInv(f)'
      BY <1>1 DEF FileInv
    <3>2. WritingAlone(w, f)
      BY <1>3, <2>2, <3>1 DEF StoreInv, FileInv
    <3>3. \A u \in Writer : ~Opened(u, f)'
      BY <1>4, <3>2 DEF WritingAlone
    <3>4. \A k \in 1..Parts : disk'[f][k] = val
      <4>1. \A k \in 1..Parts : disk[f][k] = IF k < Parts THEN val ELSE NoValue
        BY <1>1, <3>2 DEF WritingAlone
      <4> QED
        BY <1>2, <1>3, <2>2, <4>1
    <3>5. disk'[f] = FileOf(val)
      BY <1>3, <3>4 DEF Content, FileOf
    <3>6. \A v \in Value : FileOf(v)' = FileOf(v)
      BY DEF FileOf
    <3>7. disk'[f] \in {FileOf(v) : v \in Value}
      BY <1>3, <3>5
    <3>8. OneContent(f)'
      BY <3>4 DEF OneContent
    <3> QED
      BY <3>3, <3>6, <3>7, <3>8 DEF FileInv
  <2> QED
    BY <2>1, <2>2
<1> QED
  BY <1>4, <1>5, <1>7, <1>8 DEF StoreInv

(* reset_conf. *)
LEMMA ResetKeeps ==
  ASSUME StoreInv, NEW g \in File, ResetConfigCmd(g)
  PROVE  StoreInv'
<1>1. /\ phase["console"] = "idle"
      /\ disk' = [disk EXCEPT ![g] = Empty]
      /\ overlapped' = [overlapped EXCEPT ![g] = \E u \in Writer : Opened(u, g)]
      /\ cut' = [cut EXCEPT ![g] = FALSE]
      /\ phase' = [phase EXCEPT !["console"] = "restarting"]
      /\ beside' = (beside \/ Reading(g))
      /\ UNCHANGED <<applied, loading, job, part, answer, place, text>>
  BY DEF ResetConfigCmd, Renew
<1>2. StoreTypeOK'
  <2>1. Empty \in Content
    BY DEF Empty, Content
  <2>2. disk' \in [File -> Content]
    BY <1>1, <2>1 DEF StoreInv, StoreTypeOK
  <2>3. (\E u \in Writer : Opened(u, g)) \in BOOLEAN
    OBVIOUS
  <2>4. overlapped' \in [File -> BOOLEAN]
    BY <1>1, <2>3 DEF StoreInv, StoreTypeOK
  <2>5. cut' \in [File -> BOOLEAN]
    BY <1>1 DEF StoreInv, StoreTypeOK
  <2>6. phase' \in [Writer -> {"idle", "saving", "restarting"}]
    BY <1>1 DEF StoreInv, StoreTypeOK
  <2>7. (beside \/ Reading(g)) \in BOOLEAN
    OBVIOUS
  <2> QED
    BY <1>1, <2>2, <2>4, <2>5, <2>6, <2>7 DEF StoreInv, StoreTypeOK, Content
<1>3. \A u \in Writer : phase'[u] = "saving" <=> phase[u] = "saving"
  BY <1>1 DEF StoreInv, StoreTypeOK
<1>4. JobInv'
  BY <1>1, <1>3 DEF StoreInv, JobInv
<1>5. \A u \in Writer, f \in File : Opened(u, f)' <=> Opened(u, f)
  BY <1>1, <1>3 DEF Opened, Saving
<1>7. ReadInv'
  <2>1. ASSUME place > 0, ~beside'
        PROVE  /\ ~beside /\ Head(loading) \in File
               /\ disk'[Head(loading)] = disk[Head(loading)]
    <3>1. ~beside /\ Head(loading) # g /\ Head(loading) \in File
      BY <1>1, <2>1, ReadingFile DEF Reading, StoreInv
    <3> QED
      BY <1>1, <3>1 DEF StoreInv, StoreTypeOK
  <2> QED
    BY <1>1, <1>5, <2>1, ReadLeftAlone DEF StoreInv
<1>6. ASSUME NEW f \in File PROVE FileInv(f)'
  <2>1. CASE f # g
    <3>1. disk'[f] = disk[f] /\ overlapped'[f] = overlapped[f] /\ cut'[f] = cut[f]
      BY <1>1, <2>1 DEF StoreInv, StoreTypeOK
    <3>2. FileInv(f)
      BY DEF StoreInv
    <3> QED
      BY <1>1, <1>5, <3>1, <3>2, FileLeftAlone
  <2>2. CASE f = g
    <3>1. SUFFICES ASSUME ~overlapped'[f] PROVE FileInv(f)'
      BY DEF FileInv
    <3>2. \A u \in Writer : ~Opened(u, f)'
      BY <1>1, <1>5, <2>2, <3>1 DEF StoreInv, StoreTypeOK
    <3>3. disk'[f] = Empty /\ Empty' = Empty
      BY <1>1, <2>2 DEF StoreInv, StoreTypeOK, Empty
    <3>4. OneContent(f)'
      BY <3>3 DEF OneContent, Empty
    <3> QED
      BY <3>2, <3>3, <3>4 DEF FileInv
  <2> QED
    BY <2>1, <2>2
<1> QED
  BY <1>2, <1>4, <1>6, <1>7 DEF StoreInv

(* A restart, or power that comes back. *)
LEMMA BootKeeps ==
  ASSUME StoreInv, Boot
  PROVE  StoreInv'
<1>1. /\ phase' = [w \in Writer |-> "idle"]
      /\ part' = [w \in Writer |-> 0]
      /\ cut' = [f \in File |-> cut[f] \/ \E w \in Writer : Saving(w, f)]
      /\ place' = 0 /\ text' = Empty /\ beside' = FALSE
      /\ UNCHANGED <<disk, answer, overlapped>>
  BY DEF Boot
<1>2. StoreTypeOK'
  <2>1. part' \in [Writer -> 0..Parts]
    <3>1. 0 \in 0..Parts
      BY StoreAssumption DEF StoreAssumption
    <3> QED
      BY <1>1, <3>1
  <2>2. loading' \in Seq(File)
    BY DEF Boot, File
  <2>3. job' \in [Writer -> Seq([file : File, value : Value])]
    BY DEF Boot
  <2>4. phase' \in [Writer -> {"idle", "saving", "restarting"}]
    BY <1>1
  <2>5. cut' \in [File -> BOOLEAN]
    <3>1. \A f \in File : (cut[f] \/ \E w \in Writer : Saving(w, f)) \in BOOLEAN
      OBVIOUS
    <3> QED
      BY <1>1, <3>1
  <2>6. applied' \in [file : File, content : Content] \cup {NoValue}
    BY DEF Boot
  <2>7. place' \in 0..(Parts + 1) /\ text' \in Content
    BY <1>1, StoreAssumption DEF Empty, Content
  <2> QED
    BY <1>1, <2>1, <2>2, <2>3, <2>4, <2>5, <2>6, <2>7 DEF StoreInv, StoreTypeOK, Content
<1>3. JobInv' /\ ReadInv'
  BY <1>1 DEF JobInv, ReadInv
<1>4. ASSUME NEW f \in File PROVE FileInv(f)'
  <2>1. \A u \in Writer : ~Opened(u, f)'
    BY <1>1 DEF Opened, Saving
  <2>2. \A u \in Writer : Opened(u, f) => cut'[f]
    BY <1>1 DEF Opened
  <2>3. cut[f] => cut'[f]
    BY <1>1
  <2>4. FileInv(f)
    BY DEF StoreInv
  <2> QED
    BY <1>1, <2>1, <2>2, <2>3, <2>4, FileLeftAlone
<1> QED
  BY <1>2, <1>3, <1>4 DEF StoreInv

(* A step of setup() leaves the files and their writers alone. *)
LEMMA LoadLeavesFiles ==
  ASSUME StoreInv, UNCHANGED <<disk, phase, job, part, answer, histVars>>
  PROVE  JobInv' /\ \A f \in File : FileInv(f)'
BY DEF histVars, StoreInv, JobInv, FileInv, OneContent, WritingAlone,
       Opened, Saving, Empty, FileOf

(* setup() opens a file, reads a part of it, applies it or passes it over. *)
LEMMA LoadKeeps ==
  ASSUME StoreInv, OpenToRead \/ ReadPart \/ LoadFile
  PROVE  StoreInv'
<1>1. UNCHANGED <<disk, phase, job, part, answer, histVars>>
  BY DEF OpenToRead, ReadPart, LoadFile
<1>2. JobInv' /\ \A f \in File : FileInv(f)'
  BY <1>1, LoadLeavesFiles
<1>p. Parts \in Nat \ {0}
  BY StoreAssumption
<1>e. Empty \in Content
  BY DEF Empty, Content
<1>3. CASE OpenToRead
  <2>1. /\ loading # <<>> /\ place' = 1 /\ text' = Empty
        /\ beside' = \E w \in Writer : Opened(w, Head(loading))
        /\ UNCHANGED <<applied, loading>>
    BY <1>3 DEF OpenToRead
  <2>2. StoreTypeOK'
    <3>1. (\E w \in Writer : Opened(w, Head(loading))) \in BOOLEAN
      OBVIOUS
    <3>2. place' \in 0..(Parts + 1)
      BY <1>p, <2>1
    <3> QED
      BY <1>1, <1>e, <2>1, <3>1, <3>2 DEF StoreInv, StoreTypeOK, histVars, Content, Empty
  <2>3. ReadInv'
    <3>1. \A k \in 1..Parts : ~(k < 1) /\ Empty[k] = NoValue
      BY DEF Empty
    <3>2. ~beside' => \A w \in Writer : ~Opened(w, Head(loading))'
      BY <1>1, <2>1 DEF Opened, Saving
    <3> QED
      BY <2>1, <3>1, <3>2 DEF ReadInv
  <2> QED
    BY <1>2, <2>2, <2>3 DEF StoreInv
<1>4. CASE ReadPart
  <2> DEFINE f == Head(loading)
  <2>1. /\ place > 0 /\ place \in 1..Parts /\ place' = place + 1
        /\ text' = [text EXCEPT ![place] = disk[f][place]]
        /\ UNCHANGED <<applied, loading, beside>>
    BY <1>4 DEF ReadPart, AtEnd
  <2>2. f \in File /\ disk[f] \in Content
    BY <2>1, ReadingFile DEF StoreInv, StoreTypeOK
  <2>3. /\ text' \in Content
        /\ \A k \in 1..Parts : text'[k] = IF k = place THEN disk[f][k] ELSE text[k]
    BY <2>1, <2>2 DEF StoreInv, StoreTypeOK, Content
  <2>4. place' \in 0..(Parts + 1)
    BY <1>p, <2>1
  <2>5. StoreTypeOK'
    BY <1>1, <2>1, <2>3, <2>4 DEF StoreInv, StoreTypeOK, histVars, Content
  <2>6. ReadInv'
    <3>1. loading # <<>>
      BY <2>1 DEF StoreInv, ReadInv
    <3>2. ASSUME ~beside
          PROVE  /\ \A w \in Writer : ~Opened(w, f)'
                 /\ \A k \in 1..Parts :
                      text'[k] = IF k < place' THEN disk[f][k] ELSE NoValue
      <4>1. /\ \A w \in Writer : ~Opened(w, f)
            /\ \A k \in 1..Parts : text[k] = IF k < place THEN disk[f][k] ELSE NoValue
        BY <2>1, <3>2 DEF StoreInv, ReadInv
      <4>2. \A k \in 1..Parts : k < place' <=> k = place \/ k < place
        BY <2>1
      <4>3. \A w \in Writer : ~Opened(w, f)'
        BY <1>1, <2>1, <4>1 DEF Opened, Saving
      <4> QED
        BY <2>3, <4>1, <4>2, <4>3
    <3> QED
      BY <1>1, <2>1, <3>1, <3>2 DEF ReadInv
  <2> QED
    BY <1>2, <2>5, <2>6 DEF StoreInv
<1>5. CASE LoadFile
  <2>1. /\ place > 0 /\ place' = 0 /\ text' = Empty /\ beside' = FALSE
        /\ loading' = Tail(loading)
        /\ applied' = applied \/ applied' = Applied(Head(loading), text)
    BY <1>5 DEF LoadFile
  <2>2. Head(loading) \in File /\ Tail(loading) \in Seq(File)
    BY <2>1, ReadingFile DEF StoreInv
  <2>3. applied' \in [file : File, content : Content] \cup {NoValue}
    BY <2>1, <2>2 DEF Applied, StoreInv, StoreTypeOK
  <2>4. place' \in 0..(Parts + 1)
    BY <1>p, <2>1
  <2>5. StoreTypeOK'
    BY <1>1, <1>e, <2>1, <2>2, <2>3, <2>4 DEF StoreInv, StoreTypeOK, histVars, Content, Empty
  <2>6. ReadInv'
    BY <2>1 DEF ReadInv
  <2> QED
    BY <1>2, <2>5, <2>6 DEF StoreInv
<1> QED
  BY <1>3, <1>4, <1>5

-----------------------------------------------------------------------------
(* Initially no file is being written and each is whole or empty. *)
LEMMA StoreInitInv == StoreInit => StoreInv
<1> SUFFICES ASSUME StoreInit PROVE StoreInv
  OBVIOUS
<1>1. StoreTypeOK
  <2>1. 0 \in 0..Parts
    BY StoreAssumption DEF StoreAssumption
  <2>2. Empty \in Content /\ \A v \in Value : FileOf(v) \in Content
    BY DEF Empty, FileOf, Content
  <2>3. disk \in [File -> Content]
    BY <2>2 DEF StoreInit
  <2>4. loading \in Seq(File)
    BY DEF StoreInit, File
  <2>5. part \in [Writer -> 0..Parts] /\ place \in 0..(Parts + 1) /\ text \in Content
    BY <2>1, <2>2, StoreAssumption DEF StoreInit
  <2>6. job \in [Writer -> Seq([file : File, value : Value])]
    BY DEF StoreInit
  <2> QED
    BY <2>3, <2>4, <2>5, <2>6 DEF StoreInit, StoreTypeOK
<1>2. JobInv /\ ReadInv
  BY DEF StoreInit, JobInv, ReadInv
<1>3. ASSUME NEW f \in File PROVE FileInv(f)
  <2>1. \A w \in Writer : ~Opened(w, f)
    BY DEF StoreInit, Opened, Saving
  <2>2. disk[f] \in {Empty} \cup {FileOf(v) : v \in Value}
    BY DEF StoreInit
  <2>3. OneContent(f)
    BY <2>2 DEF OneContent, Empty, FileOf
  <2> QED
    BY <2>1, <2>2, <2>3 DEF FileInv
<1> QED
  BY <1>1, <1>2, <1>3 DEF StoreInv

(* Every step keeps the invariant. *)
LEMMA StoreStepInv == StoreInv /\ [StoreNext]_vars => StoreInv'
<1> SUFFICES ASSUME StoreInv, [StoreNext]_vars PROVE StoreInv'
  OBVIOUS
<1>1. \A f \in File, v \in Value :
        /\ Save(f, v) \in Job
        /\ <<Save(f, v)>> \in Seq(Job) /\ <<Save(f, v)>> # <<>>
  BY DEF Save, Job
<1>2. \A s, t \in Job : <<s, t>> \in Seq(Job) /\ <<s, t>> # <<>>
  OBVIOUS
<1>3. "console" \in Writer /\ "loop" \in Writer /\ "httpd" \in Writer
  BY DEF Writer
<1>4. "wifi" \in File /\ "mqtt" \in File /\ "app" \in File
  BY DEF File
<1>5. ASSUME NEW v \in Value, SetupWifiCmd(v) PROVE StoreInv'
  BY <1>1, <1>3, <1>4, <1>5, BeginKeeps DEF SetupWifiCmd
<1>6. ASSUME NEW v \in Value, SetupMqttCmd(v) PROVE StoreInv'
  BY <1>1, <1>3, <1>4, <1>6, BeginKeeps DEF SetupMqttCmd
<1>7. ASSUME NEW v \in Value, SmartConfigGotPassword(v) PROVE StoreInv'
  BY <1>1, <1>3, <1>4, <1>7, BeginKeeps DEF SmartConfigGotPassword
<1>8. ASSUME NEW v \in Value, PortalPosted(v) PROVE StoreInv'
  BY <1>1, <1>2, <1>3, <1>4, <1>8, BeginKeeps DEF PortalPosted
<1>9. CASE PortalRefuses
  <2>1. \A u \in Writer : phase'[u] = "saving" <=> phase[u] = "saving"
    BY <1>9 DEF PortalRefuses, StoreInv, StoreTypeOK
  <2>2. StoreTypeOK'
    BY <1>9 DEF PortalRefuses, StoreInv, StoreTypeOK, histVars, readVars, Content
  <2>3. JobInv'
    BY <1>9, <2>1 DEF PortalRefuses, StoreInv, JobInv
  <2>4. ASSUME NEW f \in File PROVE FileInv(f)'
    <3>1. \A u \in Writer : Opened(u, f)' <=> Opened(u, f)
      BY <1>9, <2>1 DEF PortalRefuses, Opened, Saving
    <3>2. FileInv(f)
      BY DEF StoreInv
    <3> QED
      BY <1>9, <3>1, <3>2, FileLeftAlone DEF PortalRefuses, histVars
  <2>5. ReadInv'
    <3>1. \A u \in Writer, f \in File : Opened(u, f)' <=> Opened(u, f)
      BY <1>9, <2>1 DEF PortalRefuses, Opened, Saving
    <3> QED
      BY <1>9, <3>1, ReadingFile, ReadLeftAlone DEF PortalRefuses, readVars, StoreInv
  <2> QED
    BY <2>2, <2>3, <2>4, <2>5 DEF StoreInv
<1>10. ASSUME NEW f \in File, ResetConfigCmd(f) PROVE StoreInv'
  BY <1>10, ResetKeeps
<1>11. ASSUME NEW w \in Writer, Open(w) PROVE StoreInv'
  BY <1>11, OpenKeeps
<1>12. ASSUME NEW w \in Writer, OpenFails(w) PROVE StoreInv'
  BY <1>12, EndKeeps DEF OpenFails
<1>13. ASSUME NEW w \in Writer, WritePart(w) PROVE StoreInv'
  BY <1>13, WriteKeeps
<1>14. ASSUME NEW w \in Writer, WriteFails(w) PROVE StoreInv'
  BY <1>14, EndKeeps DEF WriteFails
<1>15. ASSUME NEW w \in Writer, Close(w) PROVE StoreInv'
  BY <1>15, CloseKeeps
<1>16. ASSUME NEW w \in Writer, Restart(w) PROVE StoreInv'
  BY <1>16, BootKeeps DEF Restart
<1>17. CASE PowerLoss
  BY <1>17, BootKeeps DEF PowerLoss
<1>18. CASE OpenToRead \/ ReadPart \/ LoadFile
  BY <1>18, LoadKeeps
<1>19. CASE UNCHANGED vars
  <2>1. StoreTypeOK'
    BY <1>19 DEF vars, histVars, readVars, StoreInv, StoreTypeOK, Content
  <2>2. JobInv' /\ \A f \in File : FileInv(f)'
    BY <1>19, LoadLeavesFiles DEF vars
  <2>3. ReadInv'
    <3>1. \A u \in Writer, f \in File : Opened(u, f)' <=> Opened(u, f)
      BY <1>19 DEF vars, Opened, Saving
    <3> QED
      BY <1>19, <3>1, ReadingFile, ReadLeftAlone DEF vars, readVars, StoreInv
  <2> QED
    BY <2>1, <2>2, <2>3 DEF StoreInv
<1> QED
  BY <1>5, <1>6, <1>7, <1>8, <1>9, <1>10, <1>11, <1>12, <1>13, <1>14, <1>15, <1>16,
     <1>17, <1>18, <1>19 DEF StoreNext

LEMMA StoreInvariant == StoreSpec => []StoreInv
<1> QED
  BY StoreInitInv, StoreStepInv, PTL DEF StoreSpec

-----------------------------------------------------------------------------
(***************************************************************************)
(* The variables of the writers and of the loader keep their types.        *)
(***************************************************************************)
THEOREM StoreTypeCorrect == StoreSpec => []StoreTypeOK
<1>1. StoreInv => StoreTypeOK
  BY DEF StoreInv
<1> QED
  BY <1>1, StoreInvariant, PTL

(***************************************************************************)
(* A file that nobody writes is one content whole, or empty, unless its    *)
(* last save was cut off or had company: however many parts a file has and *)
(* whatever is written.                                                    *)
(***************************************************************************)
THEOREM TornCorrect == StoreSpec => []TornNeedsCause
<1>1. StoreInv => TornNeedsCause
  BY DEF StoreInv, FileInv, TornNeedsCause
<1> QED
  BY <1>1, StoreInvariant, PTL

(***************************************************************************)
(* What setup() applies from a file is one save's content whole, unless    *)
(* two tasks wrote the file at a time, or one wrote it while it was read.  *)
(***************************************************************************)
THEOREM AppliedCorrect == StoreSpec => AppliedIsWhole
<1> DEFINE Whole == applied' # applied /\ applied' # NoValue =>
                      \/ overlapped[applied'.file] \/ beside
                      \/ \E v \in Value : applied'.content = FileOf(v)
<1>1. StoreInv /\ [StoreNext]_vars => [Whole]_vars
  <2> SUFFICES ASSUME StoreInv, StoreNext, applied' # applied, applied' # NoValue,
                      ~overlapped[applied'.file], ~beside
               PROVE  \E v \in Value : applied'.content = FileOf(v)
    OBVIOUS
  <2>2. ~Boot
    BY DEF Boot
  <2>3. LoadFile
    BY <2>2 DEF StoreNext, SetupWifiCmd, SetupMqttCmd, SmartConfigGotPassword,
                PortalPosted, Begin, PortalRefuses, ResetConfigCmd, Open, OpenFails,
                WritePart, WriteFails, Close, Restart, PowerLoss, OpenToRead, ReadPart
  <2> DEFINE f == Head(loading)
  <2>4. place > 0 /\ Parses(text) /\ applied' = Applied(f, text)
    BY <2>3 DEF LoadFile
  <2>5. applied'.file = f /\ applied'.content = text
    BY <2>4 DEF Applied
  <2>6. f \in File
    BY <2>4, ReadingFile DEF StoreInv
  <2>7. \A k \in 1..Parts : text[k] = disk[f][k] /\ text[k] # NoValue
    BY <2>4 DEF StoreInv, ReadInv, Parses
  <2>8. OneContent(f)
    BY <2>5, <2>6 DEF StoreInv, FileInv
  <2>9. \A j, k \in 1..Parts : text[j] = text[k]
    BY <2>7, <2>8 DEF OneContent
  <2>10. 1 \in 1..Parts
    BY StoreAssumption DEF StoreAssumption
  <2>11. text \in [1..Parts -> Value \cup {NoValue}]
    BY DEF StoreInv, StoreTypeOK, Content
  <2>12. text[1] \in Value /\ text = FileOf(text[1])
    BY <2>7, <2>9, <2>10, <2>11 DEF FileOf
  <2> QED
    BY <2>5, <2>12
<1> QED
  BY <1>1, StoreInvariant, PTL DEF StoreSpec, AppliedIsWhole

=============================================================================
