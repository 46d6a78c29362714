------------------------- MODULE ImageStudioProofs -------------------------
(***************************************************************************)
(* Theorems about the parts of the image studio, for every value of the    *)
(* constants.                                                              *)
(***************************************************************************)
EXTENDS ImageStudio, FiniteSetTheorems, SequenceTheorems, TLAPS

-----------------------------------------------------------------------------
(* Body depth *)

BodyFiles == (Photos \cup {"body_image"}) \X Seq(Nat)
BodyItems == [source : BodyFiles, id : Nat, imported : BOOLEAN]
BodyJobs == 
  [items : SUBSET BodyItems, replace : BOOLEAN,
   status : {"none", "submitted", "active", "completed", "failed"}]
OldFile(f) == \A i \in DOMAIN f[2] : f[2][i] <= jobs
OldItem(item) == item.id <= jobs /\ OldFile(item.source)

(* The rest of an import. *)
StepNames == {"copy_body", "copy_depth", "sidecars", "delete_outputs", "delete_source"}
ImportSuffix(s) ==
  /\ s \in Seq(StepNames) /\ Len(s) <= 5
  /\ \A i \in 1..Len(s) : s[i] = Body!ImportSteps[5 - Len(s) + i]

(* The types of the state, and that nothing is named after a job to come.  *)
BodyTypes ==
  /\ jobs \in Nat
  /\ refs \subseteq BodyFiles /\ torn \subseteq BodyFiles
  /\ bodyOutputs \subseteq Body!Sides \X BodyFiles
  /\ job \in BodyJobs
  /\ queue \subseteq [item : BodyItems, saved : SUBSET Body!Sides]
  /\ request \in [pc : {"none", "start"}, sources : SUBSET BodyFiles, replace : BOOLEAN]
  /\ refresh \in [pc : {"idle", "items", "import"}, job : BodyJobs, active : BOOLEAN,
                  todo : SUBSET BodyItems, item : BodyItems, steps : Seq(StepNames)]
  /\ ImportSuffix(refresh.steps)

(* Nothing is named after a job that is still to come, and only items that *)
(* are not imported are rendered or looked at.                             *)
BodyAges ==
  /\ \A f \in refs \cup torn \cup request.sources : OldFile(f)
  /\ \A o \in bodyOutputs : OldFile(o[2])
  /\ \A item \in job.items \cup refresh.job.items : OldItem(item)
  /\ \A item \in refresh.todo \cup {refresh.item} : OldItem(item) /\ ~item.imported
  /\ \A p \in queue : OldItem(p.item) /\ ~p.item.imported

(* A prompt whose depth map is still to come has left no trace yet, and    *)
(* ComfyUI has one prompt for an item.                                     *)
Unrendered(p) == "depth" \notin p.saved
PromptsAhead ==
  /\ \A p \in queue : Unrendered(p) =>
       Body!Output(p.item, "depth") \notin bodyOutputs /\ Body!Target(p.item) \notin refs
  /\ \A p, q \in queue : p.item = q.item => p = q

(* How far an import has come.                                             *)
Importing ==
  refresh.pc = "import" =>
    /\ refresh.steps # <<>>
    /\ \A p \in queue : p.item = refresh.item => ~Unrendered(p)
    /\ Len(refresh.steps) < 5 => Body!Target(refresh.item) \in refs
    /\ Len(refresh.steps) >= 2 <=> Body!Output(refresh.item, "depth") \in bodyOutputs

(* While a depth map waits to be imported, its photo is there in another   *)
(* file, which is older or has been imported itself.                       *)
DepthWaits(f) == <<"depth", f>> \in bodyOutputs
StandsIn(f, t) ==
  f[1] = t[1] /\ f # t /\ (Len(f[2]) < Len(t[2]) \/ ~DepthWaits(f))
OthersStandIn ==
  \A t \in BodyFiles : DepthWaits(t) => \E f \in refs \cup {Body!BodyImage} : StandsIn(f, t)

(* The profile's own picture, if it counts among the photos, stays.        *)
OwnPictureStays == "body_image" \in Photos => Body!BodyImage \in refs

BodyInv ==
  /\ BodyTypes /\ BodyAges /\ PromptsAhead /\ Importing /\ OthersStandIn /\ OwnPictureStays
  /\ BodyPhotosKept

(* Files and their targets. *)
LEMMA AppendNat ==
  ASSUME NEW s \in Seq(Nat), NEW n \in Nat
  PROVE  /\ Append(s, n) \in Seq(Nat)
         /\ Len(Append(s, n)) = Len(s) + 1
         /\ DOMAIN Append(s, n) = 1..(Len(s) + 1)
         /\ DOMAIN s = 1..Len(s)
         /\ Append(s, n)[Len(s) + 1] = n
         /\ \A i \in 1..Len(s) : Append(s, n)[i] = s[i]
  OBVIOUS

LEMMA AppendsDiffer ==
  ASSUME NEW s \in Seq(Nat), NEW n \in Nat, NEW t \in Seq(Nat), NEW k \in Nat,
         Append(s, n) = Append(t, k)
  PROVE  s = t /\ n = k
<1>1. Len(s) = Len(t) /\ n = k
  BY AppendNat
<1>2. \A i \in 1..Len(s) : s[i] = t[i]
  BY <1>1, AppendNat
<1> QED
  BY <1>1, <1>2, SeqEqual

LEMMA TargetType ==
  ASSUME NEW item \in BodyItems
  PROVE  /\ Body!Target(item) \in BodyFiles
         /\ Body!Target(item)[1] = item.source[1]
         /\ Body!Target(item)[2] = Append(item.source[2], item.id)
         /\ Len(Body!Target(item)[2]) = Len(item.source[2]) + 1
         /\ Len(item.source[2]) \in Nat
         /\ Body!Target(item) # item.source
         /\ Body!Target(item) # Body!BodyImage
<1>1. item.source[2] \in Seq(Nat) /\ item.id \in Nat /\ item.source[1] \in Photos \cup {"body_image"}
  BY DEF BodyItems, BodyFiles
<1>2. Append(item.source[2], item.id) \in Seq(Nat)
      /\ Len(Append(item.source[2], item.id)) = Len(item.source[2]) + 1
      /\ Len(item.source[2]) \in Nat
  BY <1>1, AppendNat
<1> DEFINE t == Append(item.source[2], item.id)
<1>3. t # item.source[2] /\ t # <<>>
  <2> DEFINE n == Len(item.source[2])
             m == Len(t)
  <2>1. Len(<<>>) = 0 /\ n \in Nat /\ m = n + 1
    BY <1>2
  <2>2. n # m /\ m # 0
    <3> HIDE DEF n, m
    <3> QED
      BY <2>1
  <2> QED
    BY <2>1, <2>2
<1>4. Body!Target(item) = <<item.source[1], t>> /\ Body!BodyImage = <<"body_image", <<>>>>
  BY DEF Body!Target, Body!BodyImage
<1> HIDE DEF t
<1>5. Body!Target(item)[2] # item.source[2] /\ Body!Target(item)[2] # Body!BodyImage[2]
  BY <1>3, <1>4
<1>6. Body!Target(item) \in BodyFiles
  <2>1. t \in Seq(Nat)
    BY <1>2 DEF t
  <2> QED
    BY <1>1, <1>4, <2>1 DEF BodyFiles
<1> QED
  BY <1>1, <1>2, <1>4, <1>5, <1>6 DEF t

LEMMA TargetsDiffer ==
  ASSUME NEW i \in BodyItems, NEW k \in BodyItems, Body!Target(i) = Body!Target(k),
         ~i.imported, ~k.imported
  PROVE  i = k
<1>1. i.source[1] = k.source[1] /\ i.source[2] = k.source[2] /\ i.id = k.id
  <2>2. /\ i.source[1] = k.source[1]
        /\ Append(i.source[2], i.id) = Append(k.source[2], k.id)
    BY TargetType
  <2>1. i.source[2] \in Seq(Nat) /\ k.source[2] \in Seq(Nat) /\ i.id \in Nat /\ k.id \in Nat
    BY DEF BodyItems, BodyFiles
  <2> QED
    <3> DEFINE a == i.source[2]  b == k.source[2]  n == i.id  m == k.id
    <3>2. /\ a \in Seq(Nat) /\ b \in Seq(Nat) /\ n \in Nat /\ m \in Nat
          /\ Append(a, n) = Append(b, m)
      BY <2>1, <2>2
    <3>1. a = b /\ n = m
      <4> HIDE DEF a, b, n, m
      <4> QED
        BY <3>2, AppendsDiffer
    <3> QED
      BY <2>2, <3>1
<1>2. i.source = k.source
  BY <1>1, SMTT(30) DEF BodyItems, BodyFiles
<1> QED
  BY <1>1, <1>2 DEF BodyItems

LEMMA TargetAge ==
  ASSUME jobs \in Nat, NEW item \in BodyItems
  PROVE  /\ OldItem(item) => OldFile(Body!Target(item))
         /\ OldFile(Body!Target(item)) => item.id <= jobs
<1>1. item.source[2] \in Seq(Nat) /\ item.id \in Nat
  BY DEF BodyItems, BodyFiles
<1> DEFINE s == item.source[2]  t == Append(s, item.id)
<1>2. /\ DOMAIN s = 1..Len(s) /\ Len(s) \in Nat /\ DOMAIN t = 1..(Len(s) + 1)
      /\ t[Len(s) + 1] = item.id /\ \A i \in 1..Len(s) : t[i] = s[i]
  BY <1>1, AppendNat
<1>3. OldFile(Body!Target(item)) <=> \A i \in DOMAIN t : t[i] <= jobs
  BY TargetType DEF OldFile
<1>4. OldItem(item) <=> item.id <= jobs /\ \A i \in DOMAIN s : s[i] <= jobs
  BY DEF OldItem, OldFile
<1> HIDE DEF s, t
<1>5. ASSUME item.id <= jobs, \A i \in DOMAIN s : s[i] <= jobs, NEW i \in DOMAIN t
      PROVE  t[i] <= jobs
  BY <1>2, <1>5
<1>6. ASSUME \A i \in DOMAIN t : t[i] <= jobs
      PROVE  item.id <= jobs
  BY <1>2, <1>6
<1> QED
  BY <1>3, <1>4, <1>5, <1>6

(* What is left of an import after a step. *)
LEMMA SuffixStep ==
  ASSUME NEW s, ImportSuffix(s), s # <<>>
  PROVE  /\ Len(s) \in 1..5
         /\ Tail(s) \in Seq(StepNames) /\ ImportSuffix(Tail(s)) /\ Len(Tail(s)) = Len(s) - 1
         /\ Head(s) = "copy_body" <=> Len(s) = 5
         /\ Head(s) = "copy_depth" <=> Len(s) = 4
         /\ Head(s) = "sidecars" <=> Len(s) = 3
         /\ Head(s) = "delete_outputs" <=> Len(s) = 2
         /\ Head(s) = "delete_source" <=> Len(s) = 1
<1> DEFINE n == Len(s)
           m == Len(Tail(s))
<1>1. s \in Seq(StepNames) /\ n <= 5
  BY DEF ImportSuffix
<1>2. n \in Nat \ {0}
  BY <1>1, EmptySeq
<1>3. Head(s) = s[1]
  BY <1>1
<1>4. Tail(s) \in Seq(StepNames) /\ m = n - 1 /\ \A i \in 1..m : Tail(s)[i] = s[i + 1]
  BY <1>1, HeadTailProperties
<1>5. \A i \in 1..n : s[i] = Body!ImportSteps[5 - n + i]
  BY DEF ImportSuffix
<1> HIDE DEF n, m
<1>6. n = 1 \/ n = 2 \/ n = 3 \/ n = 4 \/ n = 5
  BY <1>1, <1>2
<1>7. Head(s) = Body!ImportSteps[6 - n]
  BY <1>2, <1>3, <1>5
<1>8. \A i \in 1..m : Tail(s)[i] = Body!ImportSteps[5 - m + i]
  <2> SUFFICES ASSUME NEW i \in 1..m
               PROVE  Tail(s)[i] = Body!ImportSteps[5 - m + i]
    OBVIOUS
  <2>1. i + 1 \in 1..n /\ 5 - n + (i + 1) = 5 - m + i
    BY <1>2, <1>4
  <2> QED
    BY <2>1, <1>4, <1>5
<1>9. ImportSuffix(Tail(s))
  BY <1>1, <1>2, <1>4, <1>8 DEF ImportSuffix, n, m
<1>10. /\ Body!ImportSteps[1] = "copy_body" /\ Body!ImportSteps[2] = "copy_depth"
       /\ Body!ImportSteps[3] = "sidecars" /\ Body!ImportSteps[4] = "delete_outputs"
       /\ Body!ImportSteps[5] = "delete_source"
  BY DEF Body!ImportSteps
<1>11. /\ n \in 1..5
       /\ Head(s) = "copy_body" <=> n = 5
       /\ Head(s) = "copy_depth" <=> n = 4
       /\ Head(s) = "sidecars" <=> n = 3
       /\ Head(s) = "delete_outputs" <=> n = 2
       /\ Head(s) = "delete_source" <=> n = 1
  BY <1>6, <1>7, <1>10
<1> QED
  BY <1>4, <1>9, <1>11 DEF n, m

(* What one step of an import makes of the refresh. *)
LEMMA SteppedType ==
  ASSUME BodyTypes, BodyAges, Importing, refresh.pc = "import", refresh' = Body!Stepped
  PROVE  /\ refresh' \in [pc : {"idle", "items", "import"}, job : BodyJobs, active : BOOLEAN,
                          todo : SUBSET BodyItems, item : BodyItems, steps : Seq(StepNames)]
         /\ ImportSuffix(refresh'.steps)
         /\ refresh'.item = refresh.item /\ refresh'.todo = refresh.todo
         /\ \A item \in refresh'.job.items : OldItem(item)
         /\ refresh'.pc = IF Len(refresh.steps) > 1 THEN "import" ELSE "items"
         /\ refresh'.pc = "import" => /\ refresh'.steps # <<>>
                                      /\ Len(refresh'.steps) = Len(refresh.steps) - 1
<1>1. refresh.steps # <<>> /\ ImportSuffix(refresh.steps)
  BY DEF Importing, BodyTypes
<1>2. /\ Len(refresh.steps) \in 1..5
      /\ Tail(refresh.steps) \in Seq(StepNames) /\ ImportSuffix(Tail(refresh.steps))
      /\ Len(Tail(refresh.steps)) = Len(refresh.steps) - 1
  BY <1>1, SuffixStep
<1> DEFINE n == Len(refresh.steps)
<1>3. CASE n > 1
  <2>1. refresh' = [refresh EXCEPT !.steps = Tail(refresh.steps)]
    BY <1>3 DEF Body!Stepped
  <2>2. Tail(refresh.steps) # <<>>
    <3> DEFINE m == Len(Tail(refresh.steps))
    <3>1. m = n - 1 /\ n \in 1..5 /\ n > 1 /\ Len(<<>>) = 0
      BY <1>2, <1>3
    <3>2. m # 0
      <4> HIDE DEF m, n
      <4> QED
        BY <3>1
    <3> QED
      BY <3>1, <3>2
  <2> QED
    BY <1>2, <1>3, <2>1, <2>2 DEF BodyTypes, BodyAges
<1>4. CASE ~(n > 1)
  <2> DEFINE done == [refresh.item EXCEPT !.imported = TRUE]
             items == (refresh.job.items \ {refresh.item}) \cup {done}
  <2>1. refresh' = [refresh EXCEPT !.pc = "items", !.steps = <<>>, !.job.items = items]
    BY <1>4 DEF Body!Stepped
  <2>2. done \in BodyItems /\ done.id = refresh.item.id /\ done.source = refresh.item.source
    BY DEF BodyTypes, BodyItems
  <2>3. OldItem(done) /\ items \in SUBSET BodyItems /\ \A item \in items : OldItem(item)
    BY <2>2 DEF OldItem, BodyAges, BodyTypes, BodyJobs
  <2>4. ImportSuffix(<<>>) /\ <<>> \in Seq(StepNames)
    BY DEF ImportSuffix
  <2>5. /\ refresh'.pc = "items" /\ refresh'.steps = <<>> /\ refresh'.item = refresh.item
        /\ refresh'.todo = refresh.todo /\ refresh'.active = refresh.active
        /\ refresh'.job = [refresh.job EXCEPT !.items = items]
        /\ refresh' = [pc |-> "items", job |-> [refresh.job EXCEPT !.items = items], active |-> refresh.active,
                       todo |-> refresh.todo, item |-> refresh.item, steps |-> <<>>]
    BY <2>1 DEF BodyTypes
  <2>6. [refresh.job EXCEPT !.items = items] \in BodyJobs
        /\ [refresh.job EXCEPT !.items = items].items = items
    BY <2>3 DEF BodyTypes, BodyJobs
  <2> HIDE DEF done, items
  <2> QED
    BY <1>4, <2>3, <2>4, <2>5, <2>6 DEF BodyTypes
<1> QED
  BY <1>3, <1>4

(* What a step that leaves the files alone preserves. *)
LEMMA FilesFrame ==
  ASSUME OthersStandIn, OwnPictureStays, BodyPhotosKept, refs' = refs, bodyOutputs' = bodyOutputs
  PROVE  OthersStandIn' /\ OwnPictureStays' /\ BodyPhotosKept'
BY DEF OthersStandIn, StandsIn, DepthWaits, OwnPictureStays, BodyPhotosKept, Body!BodyPhotosKept, BodyFiles,
       Body!BodyImage

LEMMA PromptsFrame ==
  ASSUME PromptsAhead, queue' \subseteq queue, bodyOutputs' \subseteq bodyOutputs, refs' \subseteq refs
  PROVE  PromptsAhead'
BY DEF PromptsAhead, Unrendered, Body!Output, Body!Target

LEMMA ImportFrame ==
  ASSUME Importing, queue' \subseteq queue, refs' = refs, bodyOutputs' = bodyOutputs, refresh' = refresh
  PROVE  Importing'
BY DEF Importing, Unrendered, Body!Output, Body!Target

LEMMA NotImporting ==
  ASSUME refresh'.pc # "import"
  PROVE  Importing'
BY DEF Importing

LEMMA GenerateKeeps ==
  ASSUME BodyInv, NEW selected \in SUBSET (refs \cup torn), NEW replace \in BOOLEAN,
         Body!Generate(selected, replace)
  PROVE  BodyInv'
<1>1. /\ refs' = refs /\ torn' = torn /\ job' = job /\ queue' = queue /\ bodyOutputs' = bodyOutputs
      /\ refresh' = refresh /\ jobs' = jobs
      /\ request' = [pc |-> "start", sources |-> Body!Sources(selected), replace |-> replace]
  BY DEF Body!Generate, Body!files
<1>2. Body!Sources(selected) \subseteq refs \cup torn \cup {Body!BodyImage}
  BY DEF Body!Sources
<1>3. Body!BodyImage \in BodyFiles /\ OldFile(Body!BodyImage)
  <2>1. <<>> \in Seq(Nat)
    BY EmptySeq
  <2>2. Body!BodyImage[2] = <<>> /\ DOMAIN <<>> = {}
    BY DEF Body!BodyImage
  <2>3. Body!BodyImage \in BodyFiles
    BY <2>1 DEF Body!BodyImage, BodyFiles
  <2> QED
    BY <2>2, <2>3 DEF OldFile
<1>4. BodyTypes'
  BY <1>1, <1>2, <1>3 DEF BodyInv, BodyTypes
<1>5. BodyAges'
  BY <1>1, <1>2, <1>3 DEF BodyInv, BodyAges, OldFile, OldItem
<1> QED
  BY <1>1, <1>4, <1>5, FilesFrame, PromptsFrame, ImportFrame DEF BodyInv

LEMMA StartFailsKeeps ==
  ASSUME BodyInv, Body!StartFails
  PROVE  BodyInv'
<1>1. /\ refs' = refs /\ torn' = torn /\ job' = job /\ queue' = queue /\ bodyOutputs' = bodyOutputs
      /\ refresh' = refresh /\ jobs' = jobs
      /\ request' = [pc |-> "none", sources |-> {}, replace |-> FALSE]
  BY DEF Body!StartFails, Body!files, Body!NoRequest
<1>2. BodyTypes'
  BY <1>1 DEF BodyInv, BodyTypes
<1>3. BodyAges'
  BY <1>1 DEF BodyInv, BodyAges, OldFile, OldItem
<1> QED
  BY <1>1, <1>2, <1>3, FilesFrame, PromptsFrame, ImportFrame DEF BodyInv

LEMMA LeavesKeeps ==
  ASSUME BodyInv, NEW p \in queue, Body!Leaves(p)
  PROVE  BodyInv'
<1>1. /\ refs' = refs /\ torn' = torn /\ job' = job /\ queue' \subseteq queue /\ bodyOutputs' = bodyOutputs
      /\ refresh' = refresh /\ jobs' = jobs /\ request' = request
  BY DEF Body!Leaves, Body!files
<1>2. BodyTypes'
  BY <1>1 DEF BodyInv, BodyTypes
<1>3. BodyAges'
  BY <1>1 DEF BodyInv, BodyAges, OldFile, OldItem
<1> QED
  BY <1>1, <1>2, <1>3, FilesFrame, PromptsFrame, ImportFrame DEF BodyInv

(* The prompts of a request bear a number of their own, so nothing is      *)
(* there yet under their names.                                            *)
LEMMA SubmitsKeeps ==
  ASSUME BodyInv, Body!Submits
  PROVE  BodyInv'
<1> DEFINE new == {[source |-> s, id |-> jobs + 1, imported |-> FALSE] : s \in request.sources}
           prompts == {[item |-> i, saved |-> {}] : i \in new}
<1>1. /\ refs' = refs /\ torn' = torn /\ bodyOutputs' = bodyOutputs /\ refresh' = refresh
      /\ jobs' = jobs + 1 /\ request' = [pc |-> "none", sources |-> {}, replace |-> FALSE]
      /\ job' = [items |-> new, status |-> "submitted", replace |-> request.replace]
      /\ queue' = queue \cup prompts
  BY DEF Body!Submits, Body!files, Body!NoRequest
<1>2. jobs \in Nat
  BY DEF BodyInv, BodyTypes
<1>3. \A i \in new : i \in BodyItems /\ i.id = jobs + 1 /\ ~i.imported /\ OldFile(i.source)
  <2>1. \A f \in request.sources : f \in BodyFiles /\ OldFile(f)
    BY DEF BodyInv, BodyTypes, BodyAges
  <2>2. ASSUME NEW s \in BodyFiles
        PROVE  [source |-> s, id |-> jobs + 1, imported |-> FALSE] \in BodyItems
    BY <1>2 DEF BodyItems
  <2> QED
    BY <2>1, <2>2
<1>4. \A p \in prompts : p.item \in new /\ p = [item |-> p.item, saved |-> {}]
  OBVIOUS
<1> HIDE DEF new, prompts
<1>5. BodyTypes'
  <2>1. prompts \subseteq [item : BodyItems, saved : SUBSET Body!Sides]
    BY <1>3, <1>4
  <2>2. job' \in BodyJobs
    <3>1. new \in SUBSET BodyItems /\ request.replace \in BOOLEAN
      BY <1>3 DEF BodyInv, BodyTypes
    <3> QED
      BY <1>1, <3>1 DEF BodyJobs
  <2> QED
    BY <1>1, <1>2, <2>1, <2>2 DEF BodyInv, BodyTypes
<1>6. ASSUME NEW f \in BodyFiles, OldFile(f)
      PROVE  OldFile(f)'
  <2>1. \A i \in DOMAIN f[2] : f[2][i] \in Nat
    <3>1. f[2] \in Seq(Nat)
      BY DEF BodyFiles
    <3> QED
      BY <3>1
  <2> QED
    BY <1>1, <1>2, <1>6, <2>1 DEF OldFile
<1>7. ASSUME NEW i \in BodyItems, OldItem(i)
      PROVE  OldItem(i)'
  BY <1>1, <1>2, <1>6, <1>7 DEF OldItem, BodyItems
<1>8. BodyAges'
  <2>1. \A f \in refs \cup torn : f \in BodyFiles /\ OldFile(f)
    BY DEF BodyInv, BodyTypes, BodyAges
  <2>2. \A o \in bodyOutputs : o[2] \in BodyFiles /\ OldFile(o[2])
    BY DEF BodyInv, BodyTypes, BodyAges
  <2>3. \A i \in refresh.job.items \cup refresh.todo \cup {refresh.item} : i \in BodyItems /\ OldItem(i)
    BY DEF BodyInv, BodyTypes, BodyAges, BodyJobs
  <2>4. \A p \in queue : p.item \in BodyItems /\ OldItem(p.item)
    BY DEF BodyInv, BodyTypes, BodyAges
  <2>5. \A i \in new : OldItem(i)'
    BY <1>1, <1>2, <1>3, <1>6 DEF OldItem, BodyItems
  <2>6. \A p \in queue' : OldItem(p.item)' /\ ~p.item.imported
    BY <1>1, <1>3, <1>4, <1>7, <2>4, <2>5 DEF BodyInv, BodyAges
  <2>7. \A f \in (refs \cup torn \cup request.sources)' : OldFile(f)'
    BY <1>1, <1>6, <2>1
  <2>8. \A o \in bodyOutputs' : OldFile(o[2])'
    BY <1>1, <1>6, <2>2
  <2>9. \A i \in (job.items \cup refresh.job.items)' : OldItem(i)'
    BY <1>1, <1>7, <2>3, <2>5
  <2>10. \A i \in (refresh.todo \cup {refresh.item})' : OldItem(i)' /\ ~i.imported
    BY <1>1, <1>7, <2>3 DEF BodyInv, BodyAges
  <2> QED
    BY <2>6, <2>7, <2>8, <2>9, <2>10 DEF BodyAges
<1>9. ASSUME NEW p \in prompts
      PROVE  /\ Body!Output(p.item, "depth") \notin bodyOutputs /\ Body!Target(p.item) \notin refs
             /\ \A q \in queue : q.item # p.item
             /\ p.item # refresh.item
  <2>1. p.item \in BodyItems /\ p.item.id = jobs + 1
    BY <1>3, <1>4
  <2>2. ~OldFile(Body!Target(p.item))
    BY <1>2, <2>1, TargetAge
  <2>3. ~OldItem(p.item)
    BY <1>2, <2>1 DEF OldItem
  <2> QED
    BY <2>2, <2>3 DEF BodyInv, BodyAges, Body!Output
<1>10. PromptsAhead'
  <2>1. \A p \in queue' : Unrendered(p) =>
          Body!Output(p.item, "depth") \notin bodyOutputs /\ Body!Target(p.item) \notin refs
    BY <1>1, <1>9 DEF BodyInv, PromptsAhead
  <2>2. ASSUME NEW p \in queue', NEW q \in queue', p.item = q.item
        PROVE  p = q
    BY <1>1, <1>4, <1>9, <2>2 DEF BodyInv, PromptsAhead
  <2> QED
    BY <1>1, <2>1, <2>2 DEF PromptsAhead, Unrendered, Body!Output, Body!Target
<1>11. Importing'
  BY <1>1, <1>9 DEF BodyInv, Importing, Unrendered, Body!Output, Body!Target
<1> QED
  BY <1>1, <1>5, <1>8, <1>10, <1>11, FilesFrame DEF BodyInv

(* A prompt renders its photo while the photo is there, which makes the    *)
(* photo the stand-in for what it saves.                                   *)
LEMMA RendersKeeps ==
  ASSUME BodyInv, NEW p \in queue, NEW side \in Body!Sides, Body!Renders(p, side)
  PROVE  BodyInv'
<1> DEFINE out == Body!Output(p.item, side)
           r == [p EXCEPT !.saved = @ \cup {side}]
           t == Body!Target(p.item)
<1>1. /\ refs' = refs /\ torn' = torn /\ bodyOutputs' = bodyOutputs \cup {out} /\ refresh' = refresh
      /\ jobs' = jobs /\ request' = request /\ job' = job /\ queue' = (queue \ {p}) \cup {r}
      /\ p.item.source \in refs \cup {Body!BodyImage}
      /\ p.saved = IF side = "body" THEN {} ELSE {"body"}
  BY DEF Body!Renders, Body!files
<1>2. /\ jobs \in Nat /\ p.item \in BodyItems /\ OldItem(p.item) /\ ~p.item.imported
      /\ p \in [item : BodyItems, saved : SUBSET Body!Sides]
  BY DEF BodyInv, BodyTypes, BodyAges
<1>3. /\ r \in [item : BodyItems, saved : SUBSET Body!Sides] /\ r.item = p.item
      /\ r.saved = p.saved \cup {side} /\ side \in {"body", "depth"}
  BY <1>2 DEF Body!Sides
<1>4. /\ t \in BodyFiles /\ OldFile(t) /\ t[1] = p.item.source[1] /\ t # p.item.source
      /\ Len(p.item.source[2]) < Len(t[2]) /\ out = <<side, t>> /\ t # Body!BodyImage
  <2> DEFINE n == Len(p.item.source[2])
             m == Len(t[2])
  <2>1. n \in Nat /\ m = n + 1
    BY <1>2, TargetType
  <2>2. n < m
    <3> HIDE DEF n, m
    <3> QED
      BY <2>1
  <2> QED
    BY <1>2, <2>2, TargetType, TargetAge DEF Body!Output
<1> HIDE DEF out, r, t
<1>5. BodyTypes'
  <2>1. out \in Body!Sides \X BodyFiles
    BY <1>4
  <2> QED
    BY <1>1, <1>3, <2>1 DEF BodyInv, BodyTypes
<1>6. BodyAges'
  <2>1. out[2] = t
    BY <1>4
  <2> QED
    BY <1>1, <1>2, <1>3, <1>4, <2>1 DEF BodyInv, BodyAges, OldFile, OldItem
<1>7. side = "depth" => Unrendered(p)
  BY <1>1, <1>3 DEF Unrendered
<1>8. \A q \in queue : q # p => q.item # p.item
  BY DEF BodyInv, PromptsAhead
<1>9. ASSUME NEW q \in queue, q # p
      PROVE  Body!Target(q.item) # t
  <2>1. q.item \in BodyItems /\ ~q.item.imported
    BY DEF BodyInv, BodyTypes, BodyAges
  <2> QED
    BY <1>2, <1>8, <1>9, <2>1, TargetsDiffer DEF t
<1>10. PromptsAhead'
  <2>1. ASSUME NEW q \in queue', Unrendered(q)
        PROVE  Body!Output(q.item, "depth") \notin bodyOutputs' /\ Body!Target(q.item) \notin refs
    <3>1. CASE q = r
      <4>1. Unrendered(p) /\ side # "depth"
        BY <1>3, <2>1, <3>1 DEF Unrendered
      <4>2. Body!Output(p.item, "depth") \notin bodyOutputs /\ Body!Target(p.item) \notin refs
        BY <4>1 DEF BodyInv, PromptsAhead
      <4>3. Body!Output(p.item, "depth") # out
        BY <4>1, <1>4 DEF Body!Output
      <4> QED
        BY <1>1, <1>3, <3>1, <4>2, <4>3
    <3>2. CASE q # r
      <4>1. q \in queue /\ q # p
        BY <1>1, <3>2
      <4>2. Body!Output(q.item, "depth") \notin bodyOutputs /\ Body!Target(q.item) \notin refs
        BY <2>1, <4>1 DEF BodyInv, PromptsAhead
      <4>3. Body!Output(q.item, "depth") # out
        BY <1>4, <1>9, <4>1 DEF Body!Output
      <4> QED
        BY <1>1, <4>2, <4>3
    <3> QED
      BY <3>1, <3>2
  <2>2. ASSUME NEW q \in queue', NEW u \in queue', q.item = u.item
        PROVE  q = u
    BY <1>1, <1>3, <1>8, <2>2 DEF BodyInv, PromptsAhead
  <2> QED
    BY <1>1, <2>1, <2>2 DEF PromptsAhead, Unrendered, Body!Output, Body!Target
<1>11. Importing'
  <2> SUFFICES ASSUME refresh.pc = "import"
               PROVE  /\ \A q \in queue' : q.item = refresh.item => ~Unrendered(q)
                      /\ Body!Output(refresh.item, "depth") \in bodyOutputs' <=>
                           Body!Output(refresh.item, "depth") \in bodyOutputs
    BY <1>1 DEF BodyInv, Importing, Unrendered, Body!Output, Body!Target
  <2>1. \A q \in queue' : q.item = refresh.item => ~Unrendered(q)
    BY <1>1, <1>3 DEF BodyInv, Importing, Unrendered
  <2>2. Body!Output(refresh.item, "depth") = out => FALSE
    <3> SUFFICES ASSUME Body!Output(refresh.item, "depth") = out
                 PROVE  FALSE
      OBVIOUS
    <3>1. side = "depth" /\ Body!Target(refresh.item) = t
      BY <1>4 DEF Body!Output
    <3>2. refresh.item \in BodyItems /\ ~refresh.item.imported
      BY DEF BodyInv, BodyTypes, BodyAges
    <3>3. p.item = refresh.item
      BY <1>2, <3>1, <3>2, TargetsDiffer DEF t
    <3> QED
      BY <1>7, <3>1, <3>3 DEF BodyInv, Importing
  <2> QED
    BY <1>1, <2>1, <2>2
<1>12. OthersStandIn'
  <2> SUFFICES ASSUME NEW u \in BodyFiles, DepthWaits(u)'
               PROVE  \E f \in refs \cup {Body!BodyImage} : StandsIn(f, u)'
    BY <1>1 DEF OthersStandIn, BodyFiles, Body!BodyImage
  <2>1. CASE side = "depth" /\ u = t
    BY <1>1, <1>4, <2>1 DEF StandsIn, t
  <2>2. CASE ~(side = "depth" /\ u = t)
    <3>1. DepthWaits(u)
      BY <1>1, <1>4, <2>2 DEF DepthWaits
    <3>2. PICK f \in refs \cup {Body!BodyImage} : StandsIn(f, u)
      BY <3>1 DEF BodyInv, OthersStandIn
    <3>3. ~DepthWaits(f) => ~DepthWaits(f)'
      <4> SUFFICES ASSUME ~DepthWaits(f), DepthWaits(f)'
                   PROVE  FALSE
        OBVIOUS
      <4>1. side = "depth" /\ f = t
        BY <1>1, <1>4 DEF DepthWaits
      <4>2. t \notin refs
        BY <1>7, <4>1 DEF BodyInv, PromptsAhead, t
      <4> QED
        BY <1>4, <4>1, <4>2
    <3> QED
      BY <3>2, <3>3 DEF StandsIn
  <2> QED
    BY <2>1, <2>2
<1>13. OwnPictureStays' /\ BodyPhotosKept'
  BY <1>1 DEF BodyInv, OwnPictureStays, BodyPhotosKept, Body!BodyPhotosKept, Body!BodyImage
<1> QED
  BY <1>5, <1>6, <1>10, <1>11, <1>12, <1>13 DEF BodyInv

(* The refresh that is over. *)
NoRefreshOK ==
  /\ Body!NoRefresh \in [pc : {"idle", "items", "import"}, job : BodyJobs, active : BOOLEAN,
                         todo : SUBSET BodyItems, item : BodyItems, steps : Seq(StepNames)]
  /\ ImportSuffix(Body!NoRefresh.steps)
  /\ Body!NoRefresh.job.items = {} /\ Body!NoRefresh.todo = {} /\ Body!NoRefresh.pc = "idle"
  /\ Body!NoRefresh.item = Body!NoItem /\ Body!NoItem \in BodyItems
  /\ OldItem(Body!NoItem) /\ ~Body!NoItem.imported

LEMMA NoRefreshType ==
  ASSUME jobs \in Nat
  PROVE  NoRefreshOK
<1>1. <<>> \in Seq(Nat) /\ <<>> \in Seq(StepNames) /\ DOMAIN <<>> = {} /\ Len(<<>>) = 0
  BY EmptySeq
<1>2. Body!BodyImage \in BodyFiles /\ Body!BodyImage[2] = <<>>
  BY <1>1 DEF Body!BodyImage, BodyFiles
<1>3. Body!NoItem \in BodyItems /\ Body!NoItem.source = Body!BodyImage /\ Body!NoItem.id = 0
      /\ ~Body!NoItem.imported
  BY <1>2 DEF Body!NoItem, BodyItems
<1>4. OldItem(Body!NoItem)
  BY <1>1, <1>2, <1>3 DEF OldItem, OldFile
<1>5. Body!NoJob \in BodyJobs /\ Body!NoJob.items = {}
  BY DEF Body!NoJob, BodyJobs
<1>6. ImportSuffix(<<>>)
  BY <1>1 DEF ImportSuffix
<1> QED
  BY <1>1, <1>3, <1>4, <1>5, <1>6 DEF NoRefreshOK, Body!NoRefresh

LEMMA ReadsKeeps ==
  ASSUME BodyInv, Body!Reads
  PROVE  BodyInv'
<1>1. /\ refs' = refs /\ torn' = torn /\ job' = job /\ queue' = queue /\ bodyOutputs' = bodyOutputs
      /\ jobs' = jobs /\ request' = request
      /\ refresh' = [Body!NoRefresh EXCEPT !.pc = "items", !.job = job,
                       !.active = \E p \in queue : p.item \in job.items,
                       !.todo = {i \in job.items : ~i.imported}]
  BY DEF Body!Reads, Body!files
<1>2. Body!NoItem \in BodyItems /\ OldItem(Body!NoItem) /\ ~Body!NoItem.imported
  BY NoRefreshType DEF NoRefreshOK, BodyInv, BodyTypes
<1>3. ImportSuffix(<<>>) /\ <<>> \in Seq(StepNames)
  BY EmptySeq DEF ImportSuffix
<1>4. /\ refresh'.pc = "items" /\ refresh'.job = job /\ refresh'.active \in BOOLEAN
      /\ refresh'.todo = {i \in job.items : ~i.imported} /\ refresh'.item = Body!NoItem
      /\ refresh'.steps = <<>>
      /\ refresh' = [pc |-> "items", job |-> job, active |-> refresh'.active, todo |-> refresh'.todo,
                     item |-> Body!NoItem, steps |-> <<>>]
  BY <1>1 DEF Body!NoRefresh
<1>5. job \in BodyJobs /\ job.items \subseteq BodyItems /\ \A i \in job.items : OldItem(i)
  BY DEF BodyInv, BodyTypes, BodyAges, BodyJobs
<1>6. BodyTypes'
  BY <1>1, <1>2, <1>3, <1>4, <1>5 DEF BodyInv, BodyTypes
<1>7. BodyAges'
  BY <1>1, <1>2, <1>4, <1>5 DEF BodyInv, BodyAges, OldFile, OldItem
<1> QED
  BY <1>1, <1>4, <1>6, <1>7, FilesFrame, PromptsFrame, NotImporting DEF BodyInv

(* An import begins when both outputs are there: the prompt of the item    *)
(* has saved all it will.                                                  *)
LEMMA LooksAtKeeps ==
  ASSUME BodyInv, NEW item \in refresh.todo, Body!LooksAt(item)
  PROVE  BodyInv'
<1>1. /\ refs' = refs /\ torn' = torn /\ job' = job /\ queue' = queue /\ bodyOutputs' = bodyOutputs
      /\ jobs' = jobs /\ request' = request
      /\ refresh' = [refresh EXCEPT !.todo = @ \ {item}, !.item = item, !.steps = Body!ImportSteps,
                       !.pc = IF Body!HasOutputs(item) THEN "import" ELSE "items"]
  BY DEF Body!LooksAt, Body!files
<1>2. item \in BodyItems /\ OldItem(item) /\ ~item.imported
  BY DEF BodyInv, BodyTypes, BodyAges
<1>3. /\ Body!ImportSteps \in Seq(StepNames) /\ Len(Body!ImportSteps) = 5
      /\ ImportSuffix(Body!ImportSteps) /\ Body!ImportSteps # <<>>
  <2>1. /\ Body!ImportSteps \in Seq(StepNames) /\ Len(Body!ImportSteps) = 5
        /\ Body!ImportSteps # <<>>
    BY DEF Body!ImportSteps, StepNames
  <2> DEFINE n == Len(Body!ImportSteps)
  <2>2. n = 5 /\ \A i \in 1..n : Body!ImportSteps[i] = Body!ImportSteps[5 - n + i]
    <3>1. n = 5
      BY <2>1
    <3> HIDE DEF n
    <3> QED
      BY <3>1
  <2> QED
    BY <2>1, <2>2 DEF ImportSuffix
<1>4. BodyTypes'
  BY <1>1, <1>2, <1>3 DEF BodyInv, BodyTypes
<1>5. BodyAges'
  BY <1>1, <1>2 DEF BodyInv, BodyTypes, BodyAges, OldFile, OldItem
<1>6. Importing'
  <2> SUFFICES ASSUME refresh'.pc = "import"
               PROVE  Importing'
    BY DEF Importing
  <2>1. Body!HasOutputs(item) /\ refresh'.item = item /\ refresh'.steps = Body!ImportSteps
    BY <1>1 DEF BodyInv, BodyTypes
  <2>2. Body!Output(item, "depth") \in bodyOutputs
    BY <2>1 DEF Body!HasOutputs, Body!Sides
  <2>3. \A p \in queue : p.item = item => ~Unrendered(p)
    BY <2>2 DEF BodyInv, PromptsAhead
  <2> QED
    <3>1. ~(Len(Body!ImportSteps) < 5) /\ Len(Body!ImportSteps) >= 2
      BY <1>3
    <3>2. /\ Len(refresh'.steps) < 5 <=> FALSE
          /\ Len(refresh'.steps) >= 2 <=> TRUE
          /\ refresh'.steps # <<>>
      BY <1>3, <2>1, <3>1
    <3>3. Body!Output(refresh'.item, "depth") \in bodyOutputs'
      BY <1>1, <2>1, <2>2
    <3>4. \A p \in queue' : p.item = refresh'.item => ~Unrendered(p)
      BY <1>1, <2>1, <2>3
    <3> QED
      BY <3>2, <3>3, <3>4 DEF Importing, Unrendered, Body!Output, Body!Target
<1> QED
  BY <1>1, <1>4, <1>5, <1>6, FilesFrame, PromptsFrame DEF BodyInv

(* The stages of an import, by the step that is next. *)
LEMMA ImportStage ==
  ASSUME BodyInv, NEW step, Body!Step(step)
  PROVE  /\ refresh.pc = "import" /\ refresh.item \in BodyItems /\ OldItem(refresh.item)
         /\ ~refresh.item.imported
         /\ step = "copy_body" => Len(refresh.steps) = 5
         /\ step = "copy_depth" => Len(refresh.steps) = 4
         /\ step = "sidecars" => Len(refresh.steps) = 3
         /\ step = "delete_outputs" => Len(refresh.steps) = 2
         /\ step = "delete_source" => Len(refresh.steps) = 1
         /\ Body!Target(refresh.item) \in BodyFiles
         /\ OldFile(Body!Target(refresh.item))
         /\ Body!Target(refresh.item)[1] = refresh.item.source[1]
         /\ Body!Target(refresh.item) # refresh.item.source
         /\ Body!Target(refresh.item) # Body!BodyImage
<1>1. refresh.pc = "import" /\ refresh.steps # <<>> /\ ImportSuffix(refresh.steps) /\ Head(refresh.steps) = step
  BY DEF BodyInv, BodyTypes, Importing, Body!Step
<1>2. refresh.item \in BodyItems /\ OldItem(refresh.item) /\ ~refresh.item.imported /\ jobs \in Nat
  BY DEF BodyInv, BodyTypes, BodyAges
<1> QED
  BY <1>1, <1>2, SuffixStep, TargetType, TargetAge

(* The prompts of an item that is being imported have saved all they will. *)
LEMMA OthersTarget ==
  ASSUME BodyInv, refresh.pc = "import", NEW p \in queue, Unrendered(p)
  PROVE  Body!Target(p.item) # Body!Target(refresh.item)
<1>1. p.item \in BodyItems /\ ~p.item.imported /\ refresh.item \in BodyItems /\ ~refresh.item.imported
  BY DEF BodyInv, BodyTypes, BodyAges
<1>2. p.item # refresh.item
  BY DEF BodyInv, Importing
<1> QED
  BY <1>1, <1>2, TargetsDiffer

(* Types and ages after a step of an import that changes refs or outputs   *)
(* only by the target of the item.                                         *)
LEMMA ImportStepTypes ==
  ASSUME BodyInv, refresh.pc = "import", refresh' = Body!Stepped \/ refresh' = refresh,
         refs' \subseteq refs \cup {Body!Target(refresh.item)}, torn' \subseteq torn,
         bodyOutputs' \subseteq bodyOutputs,
         queue' = queue, job' = job, jobs' = jobs, request' = request
  PROVE  BodyTypes' /\ BodyAges'
<1> DEFINE t == Body!Target(refresh.item)
<1>1. t \in BodyFiles /\ OldFile(t)
  BY TargetType, TargetAge DEF BodyInv, BodyTypes, BodyAges
<1>2. /\ refresh' \in [pc : {"idle", "items", "import"}, job : BodyJobs, active : BOOLEAN,
                       todo : SUBSET BodyItems, item : BodyItems, steps : Seq(StepNames)]
      /\ ImportSuffix(refresh'.steps)
      /\ refresh'.item = refresh.item /\ refresh'.todo = refresh.todo
      /\ \A item \in refresh'.job.items : OldItem(item)
  <2>1. CASE refresh' = Body!Stepped
    BY <2>1, SteppedType DEF BodyInv
  <2>2. CASE refresh' = refresh
    BY <2>2 DEF BodyInv, BodyTypes, BodyAges
  <2> QED
    BY <2>1, <2>2
<1> HIDE DEF t
<1>3. BodyTypes'
  BY <1>1, <1>2 DEF BodyInv, BodyTypes, t
<1>4. BodyAges'
  <2>1. refs' \subseteq refs \cup {t}
    BY DEF t
  <2> QED
    BY <1>1, <1>2, <2>1 DEF BodyInv, BodyAges, OldFile, OldItem
<1> QED
  BY <1>3, <1>4

(* The rest of an import after a step that leaves the queue and the depth  *)
(* map of the item alone.                                                  *)
LEMMA ImportGoesOn ==
  ASSUME BodyInv, NEW step, Body!Step(step), step \in {"copy_body", "copy_depth", "sidecars"},
         refresh' = Body!Stepped, queue' = queue, bodyOutputs' = bodyOutputs,
         Body!Target(refresh.item) \in refs'
  PROVE  Importing'
<1> DEFINE n == Len(refresh.steps)
           m == Len(refresh'.steps)
<1>1. n \in 3..5 /\ refresh.pc = "import"
  BY ImportStage
<1>2. /\ refresh'.item = refresh.item
      /\ refresh'.pc = IF n > 1 THEN "import" ELSE "items"
      /\ refresh'.pc = "import" => refresh'.steps # <<>> /\ m = n - 1
  BY <1>1, SteppedType DEF BodyInv
<1>3. /\ \A p \in queue : p.item = refresh.item => ~Unrendered(p)
      /\ n >= 2 <=> Body!Output(refresh.item, "depth") \in bodyOutputs
  BY <1>1 DEF BodyInv, Importing
<1>4. n > 1 /\ n >= 2 /\ (m = n - 1 => m >= 2)
  <2> HIDE DEF n, m
  <2> QED
    BY <1>1
<1> QED
  BY <1>2, <1>3, <1>4 DEF Importing, Unrendered, Body!Output, Body!Target

LEMMA CopiesBodyKeeps ==
  ASSUME BodyInv, Body!CopiesBody
  PROVE  BodyInv'
<1> DEFINE t == Body!Target(refresh.item)
<1>1. /\ Body!Step("copy_body") /\ refresh.pc = "import"
      /\ refs' = refs \cup {t} /\ torn' = torn \ {t} /\ refresh' = Body!Stepped
      /\ job' = job /\ queue' = queue /\ bodyOutputs' = bodyOutputs /\ jobs' = jobs /\ request' = request
  BY DEF Body!CopiesBody, Body!Step
<1>2. BodyTypes' /\ BodyAges'
  BY <1>1, ImportStepTypes
<1>3. PromptsAhead'
  <2>1. \A p \in queue : Unrendered(p) => Body!Target(p.item) # t
    BY <1>1, OthersTarget
  <2> QED
    BY <1>1, <2>1 DEF BodyInv, PromptsAhead, Unrendered, Body!Output, Body!Target
<1>4. Importing'
  BY <1>1, ImportGoesOn
<1>5. OthersStandIn' /\ OwnPictureStays' /\ BodyPhotosKept'
  BY <1>1 DEF BodyInv, OthersStandIn, StandsIn, DepthWaits, OwnPictureStays, BodyPhotosKept,
       Body!BodyPhotosKept, BodyFiles, Body!BodyImage
<1> QED
  BY <1>2, <1>3, <1>4, <1>5 DEF BodyInv

LEMMA CopiesDepthKeeps ==
  ASSUME BodyInv, Body!CopiesDepth \/ Body!WritesSidecars
  PROVE  BodyInv'
<1>1. PICK step \in {"copy_depth", "sidecars"} : Body!Step(step)
  BY DEF Body!CopiesDepth, Body!WritesSidecars
<1>2. /\ refresh.pc = "import" /\ refs' = refs /\ torn' = torn /\ refresh' = Body!Stepped
      /\ job' = job /\ queue' = queue /\ bodyOutputs' = bodyOutputs /\ jobs' = jobs /\ request' = request
  BY DEF Body!CopiesDepth, Body!WritesSidecars, Body!Step
<1>3. BodyTypes' /\ BodyAges'
  BY <1>2, ImportStepTypes
<1>4. Body!Target(refresh.item) \in refs
  <2>1. refresh.steps # <<>> /\ (Len(refresh.steps) = 4 \/ Len(refresh.steps) = 3)
    BY <1>1, ImportStage DEF BodyInv, Importing
  <2>2. Len(refresh.steps) < 5
    <3> DEFINE n == Len(refresh.steps)
    <3>1. n = 4 \/ n = 3
      BY <2>1
    <3>2. n < 5
      <4> HIDE DEF n
      <4> QED
        BY <3>1
    <3> QED
      BY <3>2
  <2> QED
    BY <1>2, <2>2 DEF BodyInv, Importing
<1>5. Importing'
  BY <1>1, <1>2, <1>4, ImportGoesOn
<1> QED
  BY <1>2, <1>3, <1>5, FilesFrame, PromptsFrame DEF BodyInv

LEMMA DeletesOutputsKeeps ==
  ASSUME BodyInv, Body!DeletesOutputs
  PROVE  BodyInv'
<1> DEFINE body == Body!Output(refresh.item, "body")
           depth == Body!Output(refresh.item, "depth")
           n == Len(refresh.steps)
           m == Len(refresh'.steps)
<1>1. /\ Body!Step("delete_outputs") /\ refresh.pc = "import"
      /\ \/ bodyOutputs' = bodyOutputs \ {body} /\ refresh' = refresh
         \/ bodyOutputs' = bodyOutputs \ {depth} /\ refresh' = Body!Stepped
      /\ refs' = refs /\ torn' = torn
      /\ job' = job /\ queue' = queue /\ jobs' = jobs /\ request' = request
  BY DEF Body!DeletesOutputs, Body!Step, Body!files
<1>2. BodyTypes' /\ BodyAges'
  BY <1>1, ImportStepTypes
<1>3. body # depth /\ n = 2
  BY <1>1, ImportStage DEF Body!Output
<1>4. refresh'.item = refresh.item
  BY <1>1, SteppedType DEF BodyInv
<1>5. Importing'
  <2> SUFFICES ASSUME refresh'.pc = "import"
               PROVE  Importing'
    BY DEF Importing
  <2>1. /\ \A p \in queue : p.item = refresh.item => ~Unrendered(p)
        /\ n < 5 => Body!Target(refresh.item) \in refs
        /\ n >= 2 <=> depth \in bodyOutputs
        /\ refresh.steps # <<>>
    BY <1>1 DEF BodyInv, Importing
  <2>2. CASE bodyOutputs' = bodyOutputs \ {body} /\ refresh' = refresh
    BY <1>1, <1>3, <2>1, <2>2 DEF Importing, Unrendered, Body!Output, Body!Target
  <2>3. CASE bodyOutputs' = bodyOutputs \ {depth} /\ refresh' = Body!Stepped
    <3>1. refresh'.steps # <<>> /\ m = n - 1
      BY <1>1, <2>3, SteppedType DEF BodyInv
    <3>2. n < 5 /\ ~(m >= 2)
      <4> HIDE DEF n, m
      <4> QED
        BY <1>3, <3>1
    <3> QED
      BY <1>1, <1>4, <2>1, <2>3, <3>1, <3>2 DEF Importing, Unrendered, Body!Output, Body!Target
  <2> QED
    BY <1>1, <2>2, <2>3
<1>6. OthersStandIn' /\ OwnPictureStays' /\ BodyPhotosKept'
  <2>1. bodyOutputs' \subseteq bodyOutputs
    BY <1>1
  <2>2. ASSUME NEW u \in BodyFiles, NEW f, StandsIn(f, u)
        PROVE  StandsIn(f, u)'
    BY <2>1, <2>2 DEF StandsIn, DepthWaits
  <2> QED
    BY <1>1, <2>1, <2>2 DEF BodyInv, OthersStandIn, DepthWaits, OwnPictureStays, BodyPhotosKept,
       Body!BodyPhotosKept, BodyFiles, Body!BodyImage
<1> QED
  BY <1>1, <1>2, <1>5, <1>6, PromptsFrame DEF BodyInv

(* The photo goes when its replacement is there, whose depth map is        *)
(* imported.                                                               *)
LEMMA DeletesSourceKeeps ==
  ASSUME BodyInv, Body!DeletesSource
  PROVE  BodyInv'
<1> DEFINE t == Body!Target(refresh.item)
           s == refresh.item.source
           gone == IF Body!Replaces THEN {s} ELSE {}
           n == Len(refresh.steps)
<1>1. /\ Body!Step("delete_source") /\ refresh.pc = "import"
      /\ refs' = refs \ gone /\ torn' = torn \ gone /\ refresh' = Body!Stepped
      /\ bodyOutputs' = bodyOutputs
      /\ job' = job /\ queue' = queue /\ jobs' = jobs /\ request' = request
  BY DEF Body!DeletesSource, Body!Step
<1>2. BodyTypes' /\ BodyAges'
  BY <1>1, ImportStepTypes
<1>3. n = 1 /\ t \in BodyFiles /\ t[1] = s[1] /\ t # s
  BY <1>1, ImportStage
<1>4. n < 5 /\ ~(n >= 2) /\ ~(n > 1)
  BY <1>3
<1>5. t \in refs /\ ~DepthWaits(t)
  BY <1>1, <1>4 DEF BodyInv, Importing, DepthWaits, Body!Output
<1>6. refresh'.pc = "items"
  BY <1>1, <1>4, SteppedType DEF BodyInv
<1>7. \A f \in refs : f \in refs' \/ (f = s /\ Body!Replaces)
  BY <1>1
<1>8. s = Body!BodyImage => ~Body!Replaces
  BY DEF Body!Replaces
<1>9. t \in refs'
  BY <1>1, <1>3, <1>5
<1> HIDE DEF t, s, gone
<1>10. OthersStandIn'
  <2> SUFFICES ASSUME NEW u \in BodyFiles, DepthWaits(u)
               PROVE  \E f \in refs' \cup {Body!BodyImage} : StandsIn(f, u)
    BY <1>1 DEF OthersStandIn, StandsIn, DepthWaits, BodyFiles, Body!BodyImage
  <2>1. PICK f \in refs \cup {Body!BodyImage} : StandsIn(f, u)
    BY DEF BodyInv, OthersStandIn
  <2>2. CASE f \in refs' \/ f = Body!BodyImage
    BY <2>1, <2>2
  <2>3. CASE f = s
    <3>1. StandsIn(t, u)
      BY <1>3, <1>5, <2>1, <2>3 DEF StandsIn
    <3> QED
      BY <1>9, <3>1
  <2> QED
    BY <1>7, <2>1, <2>2, <2>3
<1>11. OwnPictureStays'
  BY <1>7, <1>8 DEF BodyInv, OwnPictureStays, Body!BodyImage
<1>12. BodyPhotosKept'
  BY <1>3, <1>7, <1>9 DEF BodyInv, BodyPhotosKept, Body!BodyPhotosKept
<1> QED
  BY <1>1, <1>2, <1>6, <1>10, <1>11, <1>12, PromptsFrame, NotImporting DEF BodyInv, gone

LEMMA WritesJobKeeps ==
  ASSUME BodyInv, NEW aged \in BOOLEAN, Body!WritesJob(aged)
  PROVE  BodyInv'
<1>1. /\ refs' = refs /\ torn' = torn /\ queue' = queue /\ bodyOutputs' = bodyOutputs
      /\ jobs' = jobs /\ request' = request /\ refresh' = Body!NoRefresh
      /\ job' = [refresh.job EXCEPT !.status = Body!StatusOf(refresh, aged)]
  BY DEF Body!WritesJob, Body!files
<1>2. Body!StatusOf(refresh, aged) \in {"none", "submitted", "active", "completed", "failed"}
  BY DEF Body!StatusOf
<1>3. job' \in BodyJobs /\ job'.items = refresh.job.items
  BY <1>1, <1>2 DEF BodyInv, BodyTypes, BodyJobs
<1>4. NoRefreshOK
  BY NoRefreshType DEF BodyInv, BodyTypes
<1>5. BodyTypes'
  BY <1>1, <1>3, <1>4 DEF BodyInv, BodyTypes, NoRefreshOK
<1>6. BodyAges'
  BY <1>1, <1>3, <1>4 DEF BodyInv, BodyAges, OldFile, OldItem, NoRefreshOK
<1>7. refresh'.pc # "import"
  BY <1>1 DEF Body!NoRefresh
<1> QED
  BY <1>1, <1>5, <1>6, <1>7, FilesFrame, PromptsFrame, NotImporting DEF BodyInv

(* A crash in the middle of the copy of a photo may cut off a whole file,  *)
(* but then its depth map waits, so another one stands in.                 *)
LEMMA BodyCrashKeeps ==
  ASSUME BodyInv, Body!Crash
  PROVE  BodyInv'
<1> DEFINE t == Body!Target(refresh.item)
           half == IF Body!Step("copy_body") THEN {t} ELSE {}
<1>1. /\ refs' = refs \ half /\ torn' = torn \cup half /\ queue' = queue /\ bodyOutputs' = bodyOutputs
      /\ jobs' = jobs /\ request' = [pc |-> "none", sources |-> {}, replace |-> FALSE]
      /\ refresh' = Body!NoRefresh /\ job' = job
  BY DEF Body!Crash, Body!NoRequest
<1>2. Body!Step("copy_body") => /\ t \in BodyFiles /\ OldFile(t) /\ t # Body!BodyImage /\ DepthWaits(t)
  <2> SUFFICES ASSUME Body!Step("copy_body")
               PROVE  t \in BodyFiles /\ OldFile(t) /\ t # Body!BodyImage /\ DepthWaits(t)
    OBVIOUS
  <2>1. refresh.pc = "import" /\ Len(refresh.steps) = 5
    BY ImportStage
  <2>2. Len(refresh.steps) >= 2
    BY <2>1
  <2>3. DepthWaits(t)
    BY <2>1, <2>2 DEF BodyInv, Importing, DepthWaits, Body!Output
  <2> QED
    BY <2>3, ImportStage
<1>3. NoRefreshOK
  BY NoRefreshType DEF BodyInv, BodyTypes
<1>4. refresh'.pc # "import"
  BY <1>1 DEF Body!NoRefresh
<1>5. half \subseteq {t} /\ \A f \in half : f = t /\ Body!Step("copy_body")
  OBVIOUS
<1> HIDE DEF half, t
<1>6. BodyTypes'
  BY <1>1, <1>2, <1>3, <1>5 DEF BodyInv, BodyTypes, NoRefreshOK
<1>7. BodyAges'
  BY <1>1, <1>2, <1>3, <1>5 DEF BodyInv, BodyAges, OldFile, OldItem, NoRefreshOK
<1>8. ASSUME NEW u \in BodyFiles, DepthWaits(u)
      PROVE  \E f \in refs' \cup {Body!BodyImage} : StandsIn(f, u)
  <2>1. PICK f \in refs \cup {Body!BodyImage} : StandsIn(f, u)
    BY <1>8 DEF BodyInv, OthersStandIn
  <2>2. CASE f \notin half
    BY <1>1, <2>1, <2>2
  <2>3. CASE f \in half
    <3>1. f = t /\ DepthWaits(t) /\ t \in BodyFiles /\ t # Body!BodyImage
      BY <1>2, <1>5, <2>3
    <3>2. PICK g \in refs \cup {Body!BodyImage} : StandsIn(g, t)
      BY <3>1 DEF BodyInv, OthersStandIn
    <3>3. Len(t[2]) < Len(u[2])
      BY <2>1, <3>1 DEF StandsIn
    <3>4. g[1] = u[1] /\ g # t
      BY <2>1, <3>1, <3>2 DEF StandsIn
    <3>5. CASE Len(g[2]) < Len(t[2])
      <4> DEFINE a == Len(g[2])  b == Len(t[2])  c == Len(u[2])
      <4>1. a \in Nat /\ b \in Nat /\ c \in Nat
        <5>2. <<>> \in Seq(Nat)
          BY EmptySeq
        <5>3. Body!BodyImage \in BodyFiles
          BY <5>2 DEF BodyFiles, Body!BodyImage
        <5>1. g \in BodyFiles
          BY <5>3 DEF BodyInv, BodyTypes
        <5> QED
          BY <3>1, <5>1 DEF BodyFiles
      <4>2. a < c /\ a # c
        <5>1. a < b /\ b < c
          BY <3>3, <3>5
        <5> HIDE DEF a, b, c
        <5> QED
          BY <4>1, <5>1
      <4>3. StandsIn(g, u)
        BY <3>4, <4>2 DEF StandsIn
      <4>4. g \in refs' \cup {Body!BodyImage}
        BY <1>1, <1>5, <3>2, <3>4
      <4> QED
        BY <4>3, <4>4
    <3>6. CASE ~DepthWaits(g)
      <4>1. StandsIn(g, u)
        BY <1>8, <3>4, <3>6 DEF StandsIn
      <4>2. g \in refs' \cup {Body!BodyImage}
        BY <1>1, <1>5, <3>2, <3>4
      <4> QED
        BY <4>1, <4>2
    <3> QED
      BY <3>2, <3>5, <3>6 DEF StandsIn
  <2> QED
    BY <2>2, <2>3
<1>9. OthersStandIn'
  BY <1>1, <1>8 DEF OthersStandIn, StandsIn, DepthWaits, BodyFiles, Body!BodyImage
<1>10. OwnPictureStays'
  BY <1>1, <1>2, <1>5 DEF BodyInv, OwnPictureStays, Body!BodyImage
<1>11. BodyPhotosKept'
  <2> SUFFICES ASSUME NEW photo \in Photos
               PROVE  \E f \in refs' : f[1] = photo
    BY DEF BodyPhotosKept, Body!BodyPhotosKept
  <2>1. PICK f \in refs : f[1] = photo
    BY DEF BodyInv, BodyPhotosKept, Body!BodyPhotosKept
  <2>2. CASE f \notin half
    BY <1>1, <2>1, <2>2
  <2>3. CASE f \in half
    <3>1. f = t /\ DepthWaits(t) /\ t \in BodyFiles /\ t # Body!BodyImage
      BY <1>2, <1>5, <2>3
    <3>2. PICK g \in refs \cup {Body!BodyImage} : StandsIn(g, t)
      BY <3>1 DEF BodyInv, OthersStandIn
    <3>3. g[1] = photo /\ g \notin half
      BY <1>5, <2>1, <3>1, <3>2 DEF StandsIn
    <3>4. g = Body!BodyImage => g \in refs
      BY <3>3 DEF BodyInv, OwnPictureStays, Body!BodyImage
    <3> QED
      BY <1>1, <3>2, <3>3, <3>4
  <2> QED
    BY <2>2, <2>3
<1> QED
  BY <1>1, <1>4, <1>6, <1>7, <1>9, <1>10, <1>11, PromptsFrame, NotImporting DEF BodyInv

LEMMA BodyNextKeeps ==
  ASSUME BodyInv, [Body!Next]_(Body!vars)
  PROVE  BodyInv'
<1>1. CASE \E selected \in SUBSET (refs \cup torn), replace \in BOOLEAN : Body!Generate(selected, replace)
  BY <1>1, GenerateKeeps
<1>2. CASE Body!Submits \/ Body!StartFails
  BY <1>2, SubmitsKeeps, StartFailsKeeps
<1>3. CASE \E p \in queue : Body!Leaves(p) \/ \E side \in Body!Sides : Body!Renders(p, side)
  BY <1>3, LeavesKeeps, RendersKeeps
<1>4. CASE Body!Reads \/ \E item \in refresh.todo : Body!LooksAt(item)
  BY <1>4, ReadsKeeps, LooksAtKeeps
<1>5. CASE \/ Body!CopiesBody \/ Body!CopiesDepth \/ Body!WritesSidecars
           \/ Body!DeletesOutputs \/ Body!DeletesSource
  BY <1>5, CopiesBodyKeeps, CopiesDepthKeeps, DeletesOutputsKeeps, DeletesSourceKeeps
<1>6. CASE \E aged \in BOOLEAN : Body!WritesJob(aged)
  BY <1>6, WritesJobKeeps
<1>7. CASE Body!Crash
  BY <1>7, BodyCrashKeeps
<1>8. CASE UNCHANGED Body!vars
  <2>1. /\ refs' = refs /\ torn' = torn /\ job' = job /\ queue' = queue /\ bodyOutputs' = bodyOutputs
        /\ refresh' = refresh /\ jobs' = jobs /\ request' = request
    BY <1>8 DEF Body!vars
  <2>2. BodyTypes'
    BY <2>1 DEF BodyInv, BodyTypes
  <2>3. BodyAges'
    BY <2>1 DEF BodyInv, BodyAges, OldFile, OldItem
  <2> QED
    BY <2>1, <2>2, <2>3, FilesFrame, PromptsFrame, ImportFrame DEF BodyInv
<1> QED
  BY <1>1, <1>2, <1>3, <1>4, <1>5, <1>6, <1>7, <1>8 DEF Body!Next

LEMMA BodyStarts ==
  ASSUME Body!Init
  PROVE  BodyInv
<1>1. /\ refs = Photos \X {<<>>} /\ torn = {} /\ queue = {} /\ bodyOutputs = {} /\ jobs = 0
      /\ job = Body!NoJob /\ request = Body!NoRequest /\ refresh = Body!NoRefresh
  BY DEF Body!Init
<1>2. NoRefreshOK
  BY <1>1, NoRefreshType
<1>3. Body!NoJob \in BodyJobs /\ Body!NoJob.items = {}
  BY DEF Body!NoJob, BodyJobs
<1>4. /\ Body!NoRequest \in [pc : {"none", "start"}, sources : SUBSET BodyFiles, replace : BOOLEAN]
      /\ Body!NoRequest.sources = {}
  BY DEF Body!NoRequest
<1>5. \A f \in refs : f \in BodyFiles /\ f[2] = <<>> /\ DOMAIN <<>> = {}
  <2>1. <<>> \in Seq(Nat) /\ DOMAIN <<>> = {}
    BY EmptySeq
  <2>2. \A f \in Photos \X {<<>>} : f \in Photos \X Seq(Nat) /\ f[2] = <<>>
    BY <2>1
  <2> QED
    BY <1>1, <2>1, <2>2 DEF BodyFiles
<1>6. BodyTypes
  BY <1>1, <1>2, <1>3, <1>4, <1>5 DEF BodyTypes, NoRefreshOK
<1>7. BodyAges
  BY <1>1, <1>2, <1>3, <1>4, <1>5 DEF BodyAges, OldFile, NoRefreshOK
<1>8. PromptsAhead /\ Importing /\ OthersStandIn
  BY <1>1, <1>2 DEF PromptsAhead, Importing, OthersStandIn, DepthWaits, NoRefreshOK
<1>9. OwnPictureStays
  BY <1>1 DEF OwnPictureStays, Body!BodyImage
<1>10. BodyPhotosKept
  <2>1. ASSUME NEW photo \in Photos
        PROVE  <<photo, <<>>>> \in refs /\ <<photo, <<>>>>[1] = photo
    BY <1>1
  <2> QED
    BY <2>1 DEF BodyPhotosKept, Body!BodyPhotosKept
<1> QED
  BY <1>6, <1>7, <1>8, <1>9, <1>10 DEF BodyInv

(* A step of the studio is a step of each part, or leaves it alone.        *)
LEMMA StudioStepOfBody ==
  ASSUME [StudioNext]_studioVars
  PROVE  [Body!Next]_(Body!vars)
BY DEF StudioNext, studioVars, bodyVars, Body!vars

(* Replacing the body photos of a profile loses none of them, whatever     *)
(* requests overwrite the job of a refresh that is importing and wherever  *)
(* the node crashes in an import: the copy that replaces a photo is in     *)
(* refs/body_depth before the photo goes, and is never copied again        *)
(* afterwards.                                                             *)
THEOREM PhotosKept == StudioSpec => []BodyPhotosKept
<1>1. StudioInit => BodyInv
  BY BodyStarts DEF StudioInit
<1>2. BodyInv /\ [StudioNext]_studioVars => BodyInv'
  BY BodyNextKeeps, StudioStepOfBody
<1>3. BodyInv => BodyPhotosKept
  BY DEF BodyInv
<1> QED
  BY <1>1, <1>2, <1>3, PTL DEF StudioSpec

-----------------------------------------------------------------------------
(* Manual images *)

(* Records have their fields, whatever is in them. *)
IsJob(j) ==
  j = [prompts |-> j.prompts, at |-> j.at, run |-> j.run, cutout |-> j.cutout, status |-> j.status,
       output |-> j.output]
IsPoll(p) == p = [pc |-> p.pc, run |-> p.run, queue |-> p.queue, files |-> p.files, job |-> p.job]
IsExec(e) == e = [pc |-> e.pc, prompts |-> e.prompts, at |-> e.at, image |-> e.image, acked |-> e.acked]

(* No image in the directory is newer than the clock. *)
OutputsOK ==
  /\ outputs \in [DOMAIN outputs -> [at : Nat, age : Nat]]
  /\ \A p \in DOMAIN outputs : outputs[p].at <= now

(* A job is known by the time of its prompt, and its image is not older.   *)
IsPast(at) == at \in Nat /\ at <= now
JobIsFresh(j) ==
  /\ j = Images!NoJob \/ j.prompts = {j.at}
  /\ IsPast(j.output.at)
  /\ j.status \in {"completed", "fallback"} => j.output.at >= j.at
LatestOK == IsJob(latest) /\ JobIsFresh(latest)

(* Nor is an image in the listing of a status request newer than the       *)
(* clock, and the job it writes back is fresh too.                         *)
PollOK(p) ==
  /\ IsPoll(p) /\ IsJob(p.job) /\ JobIsFresh(p.job)
  /\ \A f \in p.files : IsPast(f.at)
PollsOK ==
  /\ poll = [w \in Images!Pollers |-> poll[w]]
  /\ \A w \in Images!Pollers : PollOK(poll[w])

(* An execution too is known by the time of its prompt.                    *)
ExecOK(e) ==
  /\ IsExec(e)
  /\ e.prompts = {} \/ e.prompts = {e.at}
  /\ e.pc = "idle" => e.prompts = {}
  /\ e.pc = "delivered" => e.image.at >= e.at
  /\ IsPast(e.image.at)
ExecsOK == exec = [e \in Execs |-> exec[e]] /\ \A e \in Execs : ExecOK(exec[e])

ImageInv == now \in Nat /\ OutputsOK /\ LatestOK /\ PollsOK /\ ExecsOK

(* Of images up to a time one is the newest. *)
LEMMA NewestIsOne ==
  ASSUME NEW S, S # {}, NEW n \in Nat, \A f \in S : f.at \in Nat /\ f.at <= n
  PROVE  Images!Newest(S) \in S
<1> DEFINE ages == {n - f.at : f \in S}
<1>1. ages \subseteq Nat /\ ages # {}
  OBVIOUS
<1>2. PICK a \in ages : \A b \in ages : ~ (<<b, a>> \in OpToRel(<, Nat))
  BY <1>1, NatLessThanWellFounded, WFMin, Zenon
<1>3. PICK f \in S : a = n - f.at
  BY <1>2
<1>4. ASSUME NEW x \in S
      PROVE  x.at <= f.at
  <2>1. n - x.at \in ages /\ n - x.at \in Nat /\ a \in Nat
    BY <1>1, <1>2
  <2>2. ~(n - x.at < a)
    <3>1. <<n - x.at, a>> \notin OpToRel(<, Nat)
      BY <1>2, <2>1, Zenon
    <3> QED
      BY <2>1, <3>1, Zenon DEF OpToRel
  <2>3. n \in Nat /\ x.at \in Nat /\ f.at \in Nat
    OBVIOUS
  <2> QED
    BY <1>3, <2>2, <2>3
<1> QED
  BY <1>4 DEF Images!Newest

(* A job with another status and another image. *)
LEMMA JobExcept ==
  ASSUME NEW j, IsJob(j), NEW status, NEW output
  PROVE  [j EXCEPT !.status = status, !.output = output] =
           [prompts |-> j.prompts, at |-> j.at, run |-> j.run, cutout |-> j.cutout,
            status |-> status, output |-> output]
<1> DEFINE k == [j EXCEPT !.status = status]
<1>1. k = [prompts |-> j.prompts, at |-> j.at, run |-> j.run, cutout |-> j.cutout,
           status |-> status, output |-> j.output]
  BY DEF IsJob
<1>2. [j EXCEPT !.status = status, !.output = output] = [k EXCEPT !.output = output]
  OBVIOUS
<1> HIDE DEF k
<1>3. [k EXCEPT !.output = output] =
        [prompts |-> k.prompts, at |-> k.at, run |-> k.run, cutout |-> k.cutout,
         status |-> k.status, output |-> output]
  BY <1>1
<1> QED
  BY <1>1, <1>2, <1>3

(* What the status request makes of a job is fresh if the job is. *)
LEMMA RefreshedIsFresh ==
  ASSUME ImageInv, NEW w \in Images!Pollers, latest # Images!NoJob
  PROVE  IsJob(Images!Refreshed(w, latest)) /\ JobIsFresh(Images!Refreshed(w, latest))
<1> DEFINE imgs == Images!JobImages(w, latest)
           whole == {f \in imgs : ~Images!IsRgb(f)}
           r == Images!Refreshed(w, latest)
<1>1. IsJob(latest) /\ latest.prompts = {latest.at} /\ now \in Nat
  BY DEF ImageInv, LatestOK, JobIsFresh
<1>2. \A f \in imgs : f.at \in Nat /\ f.at <= now /\ f.at >= latest.at
  BY DEF ImageInv, PollsOK, PollOK, IsPast, Images!JobImages
<1> DEFINE fallback == latest.cutout /\ whole = {} /\ imgs # {}
           failing == Images!RuntimeFailure(w, latest)
           inactive == Images!Inactive(w, latest)
           status == CASE failing -> "failed"
                       [] ~failing /\ ~inactive -> "active"
                       [] inactive /\ imgs = {} /\ ~failing -> "submitted"
                       [] inactive /\ imgs # {} -> IF fallback THEN "fallback" ELSE "completed"
           output == IF whole # {} THEN Images!Newest(whole)
                     ELSE IF imgs # {} THEN Images!Newest(imgs) ELSE Images!NoImage
<1>7. r = [latest EXCEPT !.status = status, !.output = output]
  BY DEF Images!Refreshed
<1>8. r = [prompts |-> latest.prompts, at |-> latest.at, run |-> latest.run, cutout |-> latest.cutout,
           status |-> status, output |-> output]
  <2> HIDE DEF status, output
  <2> QED
    BY <1>1, <1>7, JobExcept
<1>3. IsJob(r) /\ r.prompts = latest.prompts /\ r.at = latest.at /\ r.output = output
      /\ r.status = status
  <2> HIDE DEF status, output, r
  <2> QED
    BY <1>8 DEF IsJob
<1>4. r.status \in {"completed", "fallback"} => imgs # {}
  <2>1. failing => imgs = {}
    BY DEF Images!RuntimeFailure
  <2>2. imgs = {} => status \in {"failed", "active", "submitted"}
    <3> HIDE DEF imgs, inactive, failing, fallback, r, whole, output
    <3> QED
      OBVIOUS
  <2> HIDE DEF status, r
  <2> QED
    BY <1>3, <2>2
<1> HIDE DEF status, fallback, failing, inactive
<1>5. imgs # {} => r.output \in imgs
  <2>1. whole \subseteq imgs
    OBVIOUS
  <2> HIDE DEF imgs, r
  <2>2. whole # {} => Images!Newest(whole) \in whole
    BY <1>1, <1>2, <2>1, NewestIsOne
  <2>3. imgs # {} => Images!Newest(imgs) \in imgs
    BY <1>1, <1>2, NewestIsOne
  <2> HIDE DEF whole
  <2> QED
    BY <1>3, <2>1, <2>2, <2>3
<1>9. imgs = {} => r.output.at = 0
  <2>1. imgs = {} => whole = {}
    OBVIOUS
  <2> HIDE DEF imgs, whole, r
  <2> QED
    BY <1>3, <2>1 DEF Images!NoImage
<1> HIDE DEF imgs, whole, r, output
<1>10. IsPast(r.output.at)
  BY <1>1, <1>2, <1>5, <1>9 DEF IsPast
<1>6. JobIsFresh(r)
  BY <1>1, <1>2, <1>3, <1>4, <1>5, <1>10 DEF JobIsFresh
<1> QED
  BY <1>3, <1>6 DEF r

(* A directory without some of its images, with a new one, and with an     *)
(* older one.                                                              *)
LEMMA FewerImages ==
  ASSUME ImageInv, NEW gone, outputs' = Images!Without(outputs, gone), now' = now
  PROVE  OutputsOK'
BY DEF ImageInv, OutputsOK, Images!Without, Images!Restrict

LEMMA OneMoreImage ==
  ASSUME ImageInv, NEW path, outputs' = Images!WithImage(path, now + 1), now' = now + 1
  PROVE  OutputsOK'
<1>1. DOMAIN outputs' = DOMAIN outputs \cup {path}
  BY DEF Images!WithImage
<1>2. now \in Nat /\ \A p \in DOMAIN outputs : outputs[p] \in [at : Nat, age : Nat] /\ outputs[p].at <= now
  BY DEF ImageInv, OutputsOK
<1>3. ASSUME NEW p \in DOMAIN outputs'
      PROVE  outputs'[p] \in [at : Nat, age : Nat] /\ outputs'[p].at <= now + 1
  BY <1>1, <1>2 DEF Images!WithImage
<1>4. outputs' = [p \in DOMAIN outputs' |-> outputs'[p]]
  BY DEF Images!WithImage
<1> QED
  BY <1>3, <1>4 DEF OutputsOK

LEMMA AgedImage ==
  ASSUME ImageInv, NEW path, Images!Ages(path)
  PROVE  OutputsOK'
<1>1. path \in DOMAIN outputs /\ outputs' = [outputs EXCEPT ![path].age = @ + 1] /\ now' = now
  BY DEF Images!Ages
<1> QED
  BY <1>1 DEF ImageInv, OutputsOK

(* What is past stays past.                                                *)
LEMMA TimeGoesOn ==
  ASSUME ImageInv, now' \in {now, now + 1}
  PROVE  /\ now' \in Nat
         /\ \A at : IsPast(at) => IsPast(at)'
         /\ \A j : JobIsFresh(j) => JobIsFresh(j)'
         /\ \A p : PollOK(p) => PollOK(p)'
         /\ \A e : ExecOK(e) => ExecOK(e)'
<1>1. now' \in Nat /\ \A at : IsPast(at) => IsPast(at)'
  BY DEF ImageInv, IsPast
<1>2. \A j : JobIsFresh(j) => JobIsFresh(j)'
  BY <1>1 DEF JobIsFresh
<1>3. \A p : PollOK(p) => PollOK(p)'
  BY <1>1, <1>2 DEF PollOK
<1>4. \A e : ExecOK(e) => ExecOK(e)'
  BY <1>1 DEF ExecOK
<1> QED
  BY <1>1, <1>2, <1>3, <1>4

LEMMA OthersKeep ==
  ASSUME ImageInv, now' \in {now, now + 1}
  PROVE  /\ now' \in Nat
         /\ latest' = latest => LatestOK'
         /\ poll' = poll => PollsOK'
         /\ exec' = exec => ExecsOK'
<1>1. latest' = latest => LatestOK'
  BY TimeGoesOn DEF ImageInv, LatestOK
<1>2. poll' = poll => PollsOK'
  BY TimeGoesOn DEF ImageInv, PollsOK
<1>3. exec' = exec => ExecsOK'
  BY TimeGoesOn DEF ImageInv, ExecsOK
<1> QED
  BY <1>1, <1>2, <1>3, TimeGoesOn

(* The status requests after one of them went on.                          *)
LEMMA PollChanges ==
  ASSUME ImageInv, NEW w \in Images!Pollers, NEW r, poll' = [poll EXCEPT ![w] = r], PollOK(r), now' = now
  PROVE  PollsOK'
<1>1. poll' = [v \in Images!Pollers |-> poll'[v]]
  BY DEF ImageInv, PollsOK
<1>2. ASSUME NEW v \in Images!Pollers
      PROVE  PollOK(poll'[v])
  BY DEF ImageInv, PollsOK
<1>3. ASSUME NEW v \in Images!Pollers
      PROVE  PollOK(poll[v])'
  BY <1>2, TimeGoesOn
<1> QED
  BY <1>1, <1>3 DEF PollsOK

LEMMA NoPollOK ==
  ASSUME now \in Nat
  PROVE  PollOK(Images!NoPoll)
BY DEF PollOK, Images!NoPoll, Images!NoJob, Images!NoImage, IsPoll, IsJob, JobIsFresh, IsPast

LEMMA ExecChanges ==
  ASSUME ImageInv, NEW e \in Execs, NEW r, exec' = [exec EXCEPT ![e] = r], ExecOK(r),
         now' \in {now, now + 1}
  PROVE  ExecsOK'
<1>1. exec' = [v \in Execs |-> exec'[v]]
  BY DEF ImageInv, ExecsOK
<1>2. ASSUME NEW v \in Execs
      PROVE  ExecOK(exec'[v])
  BY DEF ImageInv, ExecsOK
<1>3. ASSUME NEW v \in Execs
      PROVE  ExecOK(exec[v])'
  BY <1>2, TimeGoesOn
<1> QED
  BY <1>1, <1>3 DEF ExecsOK

LEMMA SubmittedOK ==
  ASSUME ImageInv, NEW cutout, Images!Submitted(cutout), outputs' = outputs, poll' = poll
  PROVE  now' = now + 1 /\ now' \in Nat /\ OutputsOK' /\ LatestOK' /\ PollsOK'
<1>1. now' = now + 1 /\ now \in Nat
  BY DEF Images!Submitted, ImageInv
<1>2. LatestOK'
  <2>1. latest' = [prompts |-> {now + 1}, at |-> now + 1, run |-> imageComfy.run, cutout |-> cutout,
                   status |-> "submitted", output |-> Images!NoImage]
    BY DEF Images!Submitted
  <2> QED
    BY <1>1, <2>1 DEF LatestOK, IsJob, JobIsFresh, IsPast, Images!NoImage
<1>3. OutputsOK'
  BY <1>1 DEF ImageInv, OutputsOK
<1> QED
  BY <1>1, <1>2, <1>3, OthersKeep

LEMMA StartsKeeps ==
  ASSUME ImageInv, NEW e \in Execs, Images!Starts(e)
  PROVE  ImageInv'
<1>1. /\ Images!Submitted(e \in Transparent) /\ outputs' = outputs /\ poll' = poll
      /\ exec' = [exec EXCEPT ![e] = [@ EXCEPT !.pc = "wait", !.prompts = {now + 1}, !.at = now + 1]]
  BY DEF Images!Starts
<1> DEFINE r1 == [exec[e] EXCEPT !.pc = "wait"]
           r2 == [r1 EXCEPT !.prompts = {now + 1}]
           r == [r2 EXCEPT !.at = now + 1]
<1>2. exec' = [exec EXCEPT ![e] = r]
  BY <1>1
<1>3. IsExec(exec[e])
  BY DEF ImageInv, ExecsOK, ExecOK
<1>4. IsExec(r1) /\ r1.pc = "wait" /\ r1.image = exec[e].image
  BY <1>3 DEF IsExec
<1>5. IsExec(r2) /\ r2.pc = "wait" /\ r2.prompts = {now + 1} /\ r2.image = exec[e].image
  <2> HIDE DEF r1
  <2> QED
    BY <1>4 DEF IsExec
<1>6. IsExec(r) /\ r.pc = "wait" /\ r.prompts = {now + 1} /\ r.at = now + 1 /\ r.image = exec[e].image
  <2> HIDE DEF r2
  <2> QED
    BY <1>5 DEF IsExec
<1> HIDE DEF r
<1>7. ExecOK(r)
  BY <1>6 DEF ExecOK, ImageInv, ExecsOK
<1>9. now' = now + 1
  BY <1>1 DEF Images!Submitted
<1>8. ExecsOK'
  BY <1>2, <1>7, <1>9, ExecChanges
<1> QED
  BY <1>1, <1>8, SubmittedOK DEF ImageInv

LEMMA PollsQueueKeeps ==
  ASSUME ImageInv, NEW w \in Images!Pollers, NEW blind \in BOOLEAN, Images!PollsQueue(w, blind)
  PROVE  ImageInv'
<1> DEFINE q == IF blind THEN {} ELSE {imageComfy.queue[i].prompt : i \in DOMAIN imageComfy.queue}
           r == [pc |-> "files", run |-> imageComfy.run, queue |-> q, files |-> {}, job |-> Images!NoJob]
<1>1. /\ poll' = [poll EXCEPT ![w] = [Images!NoPoll EXCEPT !.pc = "files", !.run = imageComfy.run, !.queue = q]]
      /\ UNCHANGED <<now, latest, outputs, exec>>
  BY DEF Images!PollsQueue
<1>2. poll' = [poll EXCEPT ![w] = r]
  <2> HIDE DEF q
  <2>1. [Images!NoPoll EXCEPT !.pc = "files", !.run = imageComfy.run, !.queue = q] = r
    <3> DEFINE a == [Images!NoPoll EXCEPT !.pc = "files"]
               b == [a EXCEPT !.run = imageComfy.run]
               c == [b EXCEPT !.queue = q]
    <3>1. a = [pc |-> "files", run |-> 0, queue |-> {}, files |-> {}, job |-> Images!NoJob]
      BY DEF Images!NoPoll
    <3>2. b = [pc |-> "files", run |-> imageComfy.run, queue |-> {}, files |-> {}, job |-> Images!NoJob]
      <4> HIDE DEF a
      <4> QED
        BY <3>1
    <3>3. c = r
      <4> HIDE DEF b
      <4> QED
        BY <3>2
    <3> QED
      BY <3>3, Zenon
  <2> QED
    BY <1>1, <2>1
<1>3. PollOK(r)
  BY NoPollOK DEF PollOK, IsPoll, Images!NoPoll, ImageInv
<1> HIDE DEF r
<1> QED
  BY <1>1, <1>2, <1>3, PollChanges, OthersKeep DEF ImageInv, OutputsOK

LEMMA ListsFilesKeeps ==
  ASSUME ImageInv, NEW w \in Images!Pollers, Images!ListsFiles(w)
  PROVE  ImageInv'
<1> DEFINE fs == {[path |-> p, at |-> outputs[p].at] : p \in DOMAIN outputs}
           r1 == [poll[w] EXCEPT !.pc = "job"]
           r == [r1 EXCEPT !.files = fs]
           polls == [poll EXCEPT ![w] = r1]
<1>1. /\ poll' = [polls EXCEPT ![w].files = fs]
      /\ UNCHANGED <<now, latest, outputs, exec>>
  BY DEF Images!ListsFiles
<1>2. poll = [v \in Images!Pollers |-> poll[v]] /\ PollOK(poll[w])
  BY DEF ImageInv, PollsOK
<1>3. \A f \in fs : f.at \in Nat /\ f.at <= now
  BY DEF ImageInv, OutputsOK
<1> HIDE DEF fs
<1>4. IsPoll(r1) /\ r1.job = poll[w].job
  BY <1>2 DEF PollOK, IsPoll
<1>5. polls[w] = r1 /\ \A v \in Images!Pollers \ {w} : polls[v] = poll[v]
  <2> HIDE DEF r1
  <2> QED
    BY <1>2
<1>6. polls = [v \in Images!Pollers |-> polls[v]]
  <2> HIDE DEF r1
  <2> QED
    BY <1>2
<1> HIDE DEF polls
<1>7. poll' = [poll EXCEPT ![w] = r]
  <2>1. poll' = [polls EXCEPT ![w] = [polls[w] EXCEPT !.files = fs]]
    BY <1>1
  <2>2. poll' = [polls EXCEPT ![w] = r]
    BY <1>5, <2>1
  <2> HIDE DEF r
  <2> QED
    BY <1>2, <1>5, <1>6, <2>2
<1>8. IsPoll(r) /\ r.job = poll[w].job /\ r.files = fs
  <2> HIDE DEF r1
  <2> QED
    BY <1>4 DEF IsPoll
<1> HIDE DEF r
<1>9. PollOK(r)
  BY <1>2, <1>3, <1>8 DEF PollOK, IsPast
<1> QED
  BY <1>1, <1>7, <1>9, PollChanges, OthersKeep DEF ImageInv, OutputsOK

LEMMA ReadsJobKeeps ==
  ASSUME ImageInv, NEW w \in Images!Pollers, Images!ReadsJob(w)
  PROVE  ImageInv'
<1>1. UNCHANGED <<now, latest, exec>>
  BY DEF Images!ReadsJob
<1>2. CASE latest = Images!NoJob
  <2>1. poll' = [poll EXCEPT ![w] = Images!NoPoll] /\ outputs' = outputs
    BY <1>2 DEF Images!ReadsJob
  <2> QED
    BY <1>1, <2>1, NoPollOK, PollChanges, OthersKeep DEF ImageInv, OutputsOK
<1>3. CASE latest # Images!NoJob
  <2> DEFINE j == Images!Refreshed(w, latest)
             r == [pc |-> "write", run |-> 0, queue |-> {}, files |-> {}, job |-> j]
  <2>1. /\ poll' = [poll EXCEPT ![w] = [Images!NoPoll EXCEPT !.pc = "write", !.job = j]]
        /\ outputs' = Images!Without(outputs, Images!RgbLeftOver(w, latest))
    BY <1>3 DEF Images!ReadsJob
  <2>2. IsJob(j) /\ JobIsFresh(j)
    BY <1>3, RefreshedIsFresh
  <2> HIDE DEF j
  <2>3. [Images!NoPoll EXCEPT !.pc = "write", !.job = j] = r
    <3> DEFINE a == [Images!NoPoll EXCEPT !.pc = "write"]
               b == [a EXCEPT !.job = j]
    <3>1. a = [pc |-> "write", run |-> 0, queue |-> {}, files |-> {}, job |-> Images!NoJob]
      BY DEF Images!NoPoll
    <3>2. b = r
      <4> HIDE DEF a
      <4> QED
        BY <3>1
    <3> QED
      BY <3>2, Zenon
  <2>4. PollOK(r)
    BY <2>2 DEF PollOK, IsPoll
  <2> HIDE DEF r
  <2>5. PollsOK'
    BY <1>1, <2>1, <2>3, <2>4, PollChanges
  <2> QED
    BY <1>1, <2>1, <2>5, FewerImages, OthersKeep DEF ImageInv
<1> QED
  BY <1>2, <1>3

LEMMA WritesManualJobKeeps ==
  ASSUME ImageInv, NEW w \in Images!Pollers, Images!WritesJob(w)
  PROVE  ImageInv'
<1>1. latest' = poll[w].job /\ UNCHANGED <<now, outputs, exec>>
  BY DEF Images!WritesJob
<1>2. PollOK(poll[w])
  BY DEF ImageInv, PollsOK
<1>3. PollsOK'
  <2>1. CASE w = Images!Gui
    <3>1. poll' = [poll EXCEPT ![w] = Images!NoPoll]
      BY <2>1 DEF Images!WritesJob
    <3> QED
      BY <1>1, <3>1, NoPollOK, PollChanges DEF ImageInv
  <2>2. CASE w # Images!Gui
    <3> DEFINE r == [poll[w] EXCEPT !.pc = "answer"]
    <3>1. poll' = [poll EXCEPT ![w] = r]
      BY <2>2 DEF Images!WritesJob
    <3>2. IsPoll(r) /\ r.job = poll[w].job /\ r.files = poll[w].files
      BY <1>2 DEF PollOK, IsPoll
    <3> HIDE DEF r
    <3>3. PollOK(r)
      BY <1>2, <3>2 DEF PollOK
    <3> QED
      BY <1>1, <3>1, <3>3, PollChanges
  <2> QED
    BY <2>1, <2>2
<1>4. LatestOK'
  BY <1>1, <1>2, TimeGoesOn DEF LatestOK, PollOK
<1> QED
  BY <1>1, <1>3, <1>4, OthersKeep DEF ImageInv, OutputsOK

(* The execution after it looked at the answer: delivered, with the image  *)
(* of the job, if that is its own and over.                                *)
Over(e) ==
  Images!OwnJob(e, poll[e].job) /\ poll[e].job.status \in {"completed", "fallback"}

AnsweredBy(e, r) ==
  /\ exec' = [exec EXCEPT ![e] = r] /\ IsExec(r)
  /\ r.prompts = exec[e].prompts /\ r.at = exec[e].at /\ r.pc # "idle"
  /\ IF r.pc = "delivered" THEN Over(e) /\ r.image = poll[e].job.output ELSE r.image = exec[e].image

LEMMA AnsweredExec ==
  ASSUME ImageInv, NEW e \in Execs, Images!Answered(e)
  PROVE  \E r : AnsweredBy(e, r)
<1> DEFINE j == poll[e].job
           own == Images!OwnJob(e, j)
           over == own /\ j.status \in {"completed", "fallback"}
           pc == IF over THEN "delivered" ELSE IF own /\ j.status = "failed" THEN "failed" ELSE "wait"
           image == IF over THEN j.output ELSE exec[e].image
           r1 == [exec[e] EXCEPT !.pc = pc]
           r == [r1 EXCEPT !.image = image]
           execs == [exec EXCEPT ![e] = r1]
<1>1. exec' = [execs EXCEPT ![e].image = IF over THEN j.output ELSE @]
  BY DEF Images!Answered
<1>2. IsExec(exec[e]) /\ exec = [v \in Execs |-> exec[v]]
  BY DEF ImageInv, ExecsOK, ExecOK
<1>3. /\ pc # "idle" /\ (pc = "delivered" => over /\ image = j.output)
      /\ (pc # "delivered" => image = exec[e].image)
  OBVIOUS
<1>4. over => Over(e)
  BY DEF Over
<1> HIDE DEF over, pc, own
<1>6. IsExec(r1) /\ r1.pc = pc /\ r1.prompts = exec[e].prompts /\ r1.at = exec[e].at
      /\ r1.image = exec[e].image
  BY <1>2 DEF IsExec
<1>7. execs[e] = r1 /\ (\A v \in Execs \ {e} : execs[v] = exec[v]) /\ execs = [v \in Execs |-> execs[v]]
  <2> HIDE DEF r1
  <2> QED
    BY <1>2
<1>8. exec' = [exec EXCEPT ![e] = r]
  <2>1. exec' = [execs EXCEPT ![e] = [execs[e] EXCEPT !.image = IF over THEN j.output ELSE execs[e].image]]
    BY <1>1
  <2>2. exec' = [execs EXCEPT ![e] = r]
    <3> HIDE DEF r1, execs
    <3> QED
      BY <1>6, <1>7, <2>1
  <2> HIDE DEF r, execs
  <2> QED
    BY <1>2, <1>7, <2>2
<1> HIDE DEF execs, image
<1>9. IsExec(r) /\ r.pc = pc /\ r.prompts = exec[e].prompts /\ r.at = exec[e].at /\ r.image = image
  <2> HIDE DEF r1
  <2> QED
    BY <1>6 DEF IsExec
<1> HIDE DEF r
<1>10. AnsweredBy(e, r)
  BY <1>3, <1>4, <1>8, <1>9 DEF AnsweredBy
<1> QED
  BY <1>10

(* The answer an execution acts on is of its own prompt, so it is as fresh *)
(* for the execution as for the job.                                       *)
LEMMA AnsweredKeeps ==
  ASSUME ImageInv, NEW e \in Execs, Images!Answered(e)
  PROVE  ImageInv'
<1> DEFINE j == poll[e].job
<1>1. poll' = [poll EXCEPT ![e] = Images!NoPoll] /\ UNCHANGED <<now, latest, outputs>>
  BY DEF Images!Answered
<1>2. e \in Images!Pollers /\ PollOK(poll[e]) /\ ExecOK(exec[e])
  BY DEF ImageInv, PollsOK, ExecsOK, Images!Pollers
<1>3. PollsOK'
  BY <1>1, <1>2, NoPollOK, PollChanges DEF ImageInv
<1>4. Over(e) => exec[e].prompts = {j.at} /\ exec[e].at = j.at /\ j.output.at >= j.at
  <2>1. Over(e) => j.prompts \cap exec[e].prompts # {} /\ j.status \in {"completed", "fallback"}
    BY DEF Images!OwnJob, Over
  <2>2. Images!NoJob.prompts = {}
    BY DEF Images!NoJob
  <2>3. j = Images!NoJob \/ j.prompts = {j.at}
    BY <1>2 DEF PollOK, JobIsFresh
  <2>4. exec[e].prompts = {} \/ exec[e].prompts = {exec[e].at}
    BY <1>2 DEF ExecOK
  <2>5. j.status \in {"completed", "fallback"} => j.output.at >= j.at
    BY <1>2 DEF PollOK, JobIsFresh
  <2> HIDE DEF j
  <2> QED
    BY <2>1, <2>2, <2>3, <2>4, <2>5
<1>5. IsPast(j.output.at)
  BY <1>2 DEF PollOK, JobIsFresh
<1>6. PICK r : AnsweredBy(e, r)
  BY AnsweredExec
<1>7. ExecOK(r)
  <2> HIDE DEF j
  <2>1. IsPast(r.image.at) /\ (r.pc = "delivered" => r.image.at >= r.at)
    BY <1>2, <1>4, <1>5, <1>6 DEF AnsweredBy, ExecOK, j
  <2> QED
    BY <1>2, <1>6, <2>1 DEF AnsweredBy, ExecOK
<1>8. ExecsOK'
  BY <1>1, <1>6, <1>7, ExecChanges DEF AnsweredBy
<1> QED
  BY <1>1, <1>3, <1>8, OthersKeep DEF ImageInv, OutputsOK

LEMMA AckedExec ==
  ASSUME NEW e, IsExec(e), NEW acked
  PROVE  [e EXCEPT !.acked = acked] =
           [pc |-> e.pc, prompts |-> e.prompts, at |-> e.at, image |-> e.image, acked |-> acked]
BY DEF IsExec

LEMMA ExecEndsKeeps ==
  ASSUME ImageInv, NEW e \in Execs, Images!TimesOut(e) \/ Images!Acknowledge(e)
  PROVE  ImageInv'
<1>0. now' = now
  BY DEF Images!TimesOut, Images!Acknowledge
<1>1. ExecOK(exec[e]) /\ IsExec(exec[e])
  BY DEF ImageInv, ExecsOK, ExecOK
<1>2. ExecsOK'
  <2>1. CASE Images!TimesOut(e)
    <3> DEFINE r == [exec[e] EXCEPT !.pc = "timeout"]
    <3>1. exec' = [exec EXCEPT ![e] = r]
      BY <2>1 DEF Images!TimesOut
    <3>2. /\ IsExec(r) /\ r.pc = "timeout" /\ r.prompts = exec[e].prompts /\ r.at = exec[e].at
          /\ r.image = exec[e].image
      BY <1>1 DEF IsExec
    <3> HIDE DEF r
    <3>3. ExecOK(r)
      BY <1>1, <3>2 DEF ExecOK
    <3> QED
      BY <1>0, <3>1, <3>3, ExecChanges
  <2>2. CASE Images!Acknowledge(e)
    <3> DEFINE r == [exec[e] EXCEPT !.acked = TRUE]
    <3>1. exec' = [exec EXCEPT ![e] = r]
      BY <2>2 DEF Images!Acknowledge
    <3>2. /\ IsExec(r) /\ r.pc = exec[e].pc /\ r.prompts = exec[e].prompts /\ r.at = exec[e].at
          /\ r.image = exec[e].image
      <4>1. r = [pc |-> exec[e].pc, prompts |-> exec[e].prompts, at |-> exec[e].at,
                 image |-> exec[e].image, acked |-> TRUE]
        BY <1>1, AckedExec
      <4> HIDE DEF r
      <4> QED
        BY <4>1 DEF IsExec
    <3> HIDE DEF r
    <3>3. ExecOK(r)
      BY <1>1, <3>2 DEF ExecOK
    <3> QED
      BY <1>0, <3>1, <3>3, ExecChanges
  <2> QED
    BY <2>1, <2>2
<1>3. /\ UNCHANGED <<now, latest, poll>>
      /\ outputs' = outputs \/ \E gone : outputs' = Images!Without(outputs, gone)
  BY DEF Images!TimesOut, Images!Acknowledge
<1>4. OutputsOK'
  BY <1>3, FewerImages DEF ImageInv, OutputsOK
<1> QED
  BY <1>2, <1>3, <1>4, OthersKeep DEF ImageInv

(* The steps that touch no job and no execution. *)
LEMMA FilesOnlyKeep ==
  ASSUME ImageInv, UNCHANGED <<latest, poll, exec>>, now' \in {now, now + 1}, OutputsOK'
  PROVE  ImageInv'
BY OthersKeep DEF ImageInv

LEMMA ImagesNextKeeps ==
  ASSUME ImageInv, [Images!Next]_(Images!vars)
  PROVE  ImageInv'
<1>1. CASE \E cutout \in BOOLEAN : Images!GuiSubmits(cutout)
  <2>1. PICK cutout \in BOOLEAN : Images!GuiSubmits(cutout)
    BY <1>1
  <2>2. Images!Submitted(cutout) /\ UNCHANGED <<outputs, exec, poll>>
    BY <2>1 DEF Images!GuiSubmits
  <2>3. now' = now + 1
    BY <2>2 DEF Images!Submitted
  <2> QED
    BY <2>2, <2>3, SubmittedOK, OthersKeep DEF ImageInv
<1>2. CASE Images!OthersRender \/ \E cut_1 \in BOOLEAN : Images!Renders(cut_1)
  <2>1. /\ UNCHANGED <<latest, poll, exec>> /\ now' = now + 1
        /\ \E path : outputs' = Images!WithImage(path, now + 1)
    BY <1>2 DEF Images!OthersRender, Images!Renders, Images!Saves
  <2> QED
    BY <2>1, OneMoreImage, FilesOnlyKeep
<1>3. CASE \E path \in DOMAIN outputs : Images!Ages(path)
  <2>1. UNCHANGED <<now, latest, poll, exec>>
    BY <1>3 DEF Images!Ages
  <2> QED
    BY <1>3, <2>1, AgedImage, FilesOnlyKeep
<1>4. CASE \/ Images!Restarts \/ \E path \in deleting : Images!DropRecord(path)
           \/ Images!CleanupReads \/ Images!CleanupLists \/ Images!CleanupEnds
           \/ UNCHANGED Images!vars
  <2>1. UNCHANGED <<now, latest, poll, exec, outputs>>
    BY <1>4 DEF Images!Restarts, Images!DropRecord, Images!CleanupReads, Images!CleanupLists,
       Images!CleanupEnds, Images!vars
  <2> QED
    BY <2>1, FilesOnlyKeep DEF ImageInv, OutputsOK
<1>5. CASE \/ \E path \in DOMAIN outputs : Images!DeleteOutput(path)
           \/ \E path \in cleanup.doomed : Images!CleanupDeletes(path)
  <2>1. /\ UNCHANGED <<now, latest, poll, exec>>
        /\ \E gone : outputs' = Images!Without(outputs, gone)
    BY <1>5 DEF Images!DeleteOutput, Images!CleanupDeletes
  <2> QED
    BY <2>1, FewerImages, FilesOnlyKeep
<1>6. CASE \E w \in Images!Pollers : \/ Images!ListsFiles(w) \/ Images!ReadsJob(w) \/ Images!WritesJob(w)
                                    \/ \E blind \in BOOLEAN : Images!PollsQueue(w, blind)
  BY <1>6, ListsFilesKeeps, ReadsJobKeeps, WritesManualJobKeeps, PollsQueueKeeps
<1>7. CASE \E e \in Execs : \/ Images!Starts(e) \/ Images!Answered(e)
                            \/ Images!TimesOut(e) \/ Images!Acknowledge(e)
  BY <1>7, StartsKeeps, AnsweredKeeps, ExecEndsKeeps
<1> QED
  BY <1>1, <1>2, <1>3, <1>4, <1>5, <1>6, <1>7 DEF Images!Next

LEMMA ImagesStart ==
  ASSUME Images!Init
  PROVE  ImageInv
<1>1. /\ now = 0 /\ latest = Images!NoJob /\ outputs = <<>>
      /\ exec = [e \in Execs |-> Images!NoExec] /\ poll = [w \in Images!Pollers |-> Images!NoPoll]
  BY DEF Images!Init
<1>2. OutputsOK
  BY <1>1 DEF OutputsOK
<1>3. LatestOK
  BY <1>1 DEF LatestOK, IsJob, JobIsFresh, IsPast, Images!NoJob, Images!NoImage
<1>4. PollsOK
  BY <1>1, NoPollOK DEF PollsOK
<1>5. ExecOK(Images!NoExec)
  BY <1>1 DEF ExecOK, IsExec, IsPast, Images!NoExec, Images!NoImage
<1>6. ExecsOK
  BY <1>1, <1>5 DEF ExecsOK
<1> QED
  BY <1>1, <1>2, <1>3, <1>4, <1>6 DEF ImageInv

LEMMA StudioStepOfImages ==
  ASSUME [StudioNext]_studioVars
  PROVE  [Images!Next]_(Images!vars)
BY DEF StudioNext, studioVars, imageVars, Images!vars

(* A direct execution never delivers an image that is older than its       *)
(* submission: the latest-job file may be overwritten by newer submissions *)
(* and by polls that read it long ago, but a job never names an image from *)
(* before itself, and an execution only takes the answer of its own job.   *)
THEOREM ImagesFresh == StudioSpec => []DeliveredIsFresh
<1>1. StudioInit => ImageInv
  BY ImagesStart DEF StudioInit
<1>2. ImageInv /\ [StudioNext]_studioVars => ImageInv'
  BY ImagesNextKeeps, StudioStepOfImages
<1>3. ImageInv => DeliveredIsFresh
  BY DEF ImageInv, ExecsOK, ExecOK, DeliveredIsFresh, Images!DeliveredIsFresh
<1> QED
  BY <1>1, <1>2, <1>3, PTL DEF StudioSpec

-----------------------------------------------------------------------------
(* Retention records *)

IsCleanup(c) == c = [pc |-> c.pc, records |-> c.records, doomed |-> c.doomed, deleted |-> c.deleted]

(* An image at a path whose record is still to be dropped is one that was  *)
(* saved there after the deletion.                                         *)
PendingMarked == \A p \in DOMAIN outputs : p \in Images!Pending => outputs[p].at \in reused

RecordInv == IsCleanup(cleanup) /\ PendingMarked /\ DeliveredIsRecorded

(* Steps that save no image and deliver none: what they drop is pending or *)
(* gone.                                                                   *)
NoNewImage ==
  \A p \in DOMAIN outputs' : p \in DOMAIN outputs /\ outputs'[p].at = outputs[p].at
NoNewDelivery ==
  \A e \in Execs : exec'[e].pc = "delivered" => exec[e].pc = "delivered" /\ exec'[e].image = exec[e].image

LEMMA RecordsStayThere ==
  ASSUME RecordInv, IsCleanup(cleanup'), NoNewImage, NoNewDelivery, reused' = reused,
         \A p \in DOMAIN outputs' : p \in Images!Pending' => p \in Images!Pending,
         \A p \in DOMAIN retention \ DOMAIN retention' : p \in DOMAIN outputs' => p \in Images!Pending
  PROVE  RecordInv'
<1>1. PendingMarked'
  BY DEF RecordInv, PendingMarked, NoNewImage
<1>2. ASSUME NEW e \in Execs, exec'[e].pc = "delivered", Images!Keeps(e),
             Images!IsThere(exec[e].image)', exec'[e].image.at \notin reused
      PROVE  exec'[e].image.path \in DOMAIN retention'
  <2>1. exec[e].pc = "delivered" /\ exec'[e].image = exec[e].image
    BY <1>2 DEF NoNewDelivery
  <2>2. Images!IsThere(exec[e].image) /\ exec[e].image.path \in DOMAIN outputs'
    <3>1. /\ exec'[e].image.path \in DOMAIN outputs'
          /\ outputs'[exec'[e].image.path].at = exec'[e].image.at
      BY <1>2 DEF Images!IsThere
    <3> QED
      BY <2>1, <3>1 DEF NoNewImage, Images!IsThere
  <2>3. exec[e].image.path \in DOMAIN retention
    BY <1>2, <2>1, <2>2 DEF RecordInv, DeliveredIsRecorded, Images!DeliveredIsRecorded
  <2>4. exec[e].image.path \notin Images!Pending
    BY <1>2, <2>1, <2>2 DEF RecordInv, PendingMarked, Images!IsThere
  <2> QED
    BY <2>1, <2>2, <2>3, <2>4
<1>3. DeliveredIsRecorded'
  BY <1>2 DEF DeliveredIsRecorded, Images!DeliveredIsRecorded, Images!Keeps
<1> QED
  BY <1>1, <1>3 DEF RecordInv

(* A new image is not one that was delivered.                              *)
LEMMA SavedIsNew ==
  ASSUME ImageInv, RecordInv, NEW path, Images!Saves(path), UNCHANGED <<retention, exec, cleanup, deleting>>
  PROVE  RecordInv'
<1>1. /\ DOMAIN outputs' = DOMAIN outputs \cup {path}
      /\ outputs'[path].at = now + 1
      /\ \A p \in DOMAIN outputs \ {path} : outputs'[p] = outputs[p]
  BY DEF Images!Saves, Images!WithImage
<1>2. reused \subseteq reused' /\ (path \in Images!Pending => now + 1 \in reused')
  BY DEF Images!Saves
<1>3. PendingMarked'
  BY <1>1, <1>2 DEF RecordInv, PendingMarked, Images!Pending
<1>4. ASSUME NEW e \in Execs, exec[e].pc = "delivered", Images!Keeps(e),
             Images!IsThere(exec[e].image)', exec[e].image.at \notin reused'
      PROVE  exec[e].image.path \in DOMAIN retention
  <2>1. exec[e].image.at <= now /\ exec[e].image.at \in Nat /\ now \in Nat
    BY DEF ImageInv, ExecsOK, ExecOK, IsPast
  <2>2. exec[e].image.path # path
    BY <1>1, <1>4, <2>1 DEF Images!IsThere
  <2>3. Images!IsThere(exec[e].image) /\ exec[e].image.at \notin reused
    BY <1>1, <1>2, <1>4, <2>2 DEF Images!IsThere
  <2> QED
    BY <1>4, <2>3 DEF RecordInv, DeliveredIsRecorded, Images!DeliveredIsRecorded
<1>5. DeliveredIsRecorded'
  BY <1>4 DEF DeliveredIsRecorded, Images!DeliveredIsRecorded, Images!Keeps
<1> QED
  BY <1>3, <1>5 DEF RecordInv

(* An execution records what it delivers.                                  *)
LEMMA AnsweredIsRecorded ==
  ASSUME ImageInv, RecordInv, NEW e \in Execs, Images!Answered(e)
  PROVE  RecordInv'
<1>1. UNCHANGED <<outputs, cleanup, deleting, reused>>
  BY DEF Images!Answered
<1>2. PICK r : AnsweredBy(e, r)
  BY AnsweredExec
<1>3. /\ \A v \in Execs \ {e} : exec'[v] = exec[v]
      /\ exec'[e] = r
  BY <1>2 DEF AnsweredBy, ImageInv, ExecsOK
<1>4. /\ DOMAIN retention \subseteq DOMAIN retention'
      /\ Over(e) /\ Images!Keeps(e) => poll[e].job.output.path \in DOMAIN retention'
  BY DEF Images!Answered, Images!Recorded, Over
<1>5. ASSUME NEW v \in Execs, exec'[v].pc = "delivered", Images!Keeps(v),
             Images!IsThere(exec'[v].image), exec'[v].image.at \notin reused
      PROVE  exec'[v].image.path \in DOMAIN retention'
  <2>1. CASE v = e
    BY <1>2, <1>3, <1>4, <1>5, <2>1 DEF AnsweredBy
  <2>2. CASE v # e
    BY <1>3, <1>4, <1>5, <2>2 DEF RecordInv, DeliveredIsRecorded, Images!DeliveredIsRecorded
  <2> QED
    BY <2>1, <2>2
<1>6. DeliveredIsRecorded'
  BY <1>1, <1>5 DEF DeliveredIsRecorded, Images!DeliveredIsRecorded, Images!Keeps, Images!IsThere
<1>7. PendingMarked' /\ IsCleanup(cleanup')
  BY <1>1 DEF RecordInv, PendingMarked, Images!Pending
<1> QED
  BY <1>6, <1>7 DEF RecordInv

(* Executions that begin or end; a delivered one can only be acknowledged. *)
LEMMA ExecEndsRecorded ==
  ASSUME ImageInv, RecordInv, NEW e \in Execs,
         Images!Starts(e) \/ Images!TimesOut(e) \/ Images!Acknowledge(e)
  PROVE  RecordInv'
<1>1. UNCHANGED <<cleanup, deleting, reused>>
  BY DEF Images!Starts, Images!TimesOut, Images!Acknowledge
<1>2. exec = [v \in Execs |-> exec[v]] /\ IsExec(exec[e])
  BY DEF ImageInv, ExecsOK, ExecOK
<1>3. NoNewDelivery
  <2>1. CASE Images!Starts(e)
    <3> DEFINE r1 == [exec[e] EXCEPT !.pc = "wait"]
               r2 == [r1 EXCEPT !.prompts = {now + 1}]
               r == [r2 EXCEPT !.at = now + 1]
    <3>1. exec' = [exec EXCEPT ![e] = r]
      BY <2>1 DEF Images!Starts
    <3>2. IsExec(r1) /\ r1.pc = "wait"
      BY <1>2 DEF IsExec
    <3>3. IsExec(r2) /\ r2.pc = "wait"
      <4> HIDE DEF r1
      <4> QED
        BY <3>2 DEF IsExec
    <3>4. r.pc = "wait"
      <4> HIDE DEF r2
      <4> QED
        BY <3>3 DEF IsExec
    <3> HIDE DEF r
    <3> QED
      BY <1>2, <3>1, <3>4 DEF NoNewDelivery
  <2>2. CASE Images!TimesOut(e)
    <3> DEFINE r == [exec[e] EXCEPT !.pc = "timeout"]
    <3>1. exec' = [exec EXCEPT ![e] = r]
      BY <2>2 DEF Images!TimesOut
    <3>2. r.pc = "timeout"
      BY <1>2 DEF IsExec
    <3> HIDE DEF r
    <3> QED
      BY <1>2, <3>1, <3>2 DEF NoNewDelivery
  <2>3. CASE Images!Acknowledge(e)
    <3> DEFINE r == [exec[e] EXCEPT !.acked = TRUE]
    <3>1. exec' = [exec EXCEPT ![e] = r]
      BY <2>3 DEF Images!Acknowledge
    <3>2. r.pc = exec[e].pc /\ r.image = exec[e].image
      BY <1>2 DEF IsExec
    <3> HIDE DEF r
    <3> QED
      BY <1>2, <3>1, <3>2 DEF NoNewDelivery
  <2> QED
    BY <2>1, <2>2, <2>3
<1>4. CASE UNCHANGED <<outputs, retention>>
  BY <1>1, <1>3, <1>4, RecordsStayThere DEF RecordInv, NoNewImage, Images!Pending
<1>5. CASE /\ outputs' = Images!Without(outputs, {exec[e].image.path})
           /\ retention' = Images!Without(retention, {exec[e].image.path})
  <2>1. NoNewImage /\ DOMAIN outputs' = DOMAIN outputs \ {exec[e].image.path}
    BY <1>5 DEF NoNewImage, Images!Without, Images!Restrict
  <2>2. DOMAIN retention \ DOMAIN retention' \subseteq {exec[e].image.path}
    BY <1>5 DEF Images!Without, Images!Restrict
  <2> QED
    BY <1>1, <1>3, <2>1, <2>2, RecordsStayThere DEF RecordInv, Images!Pending
<1> QED
  BY <1>4, <1>5 DEF Images!Starts, Images!TimesOut, Images!Acknowledge

(* Deletions and cleanups drop what is pending, and what becomes pending   *)
(* is gone.                                                                *)
LEMMA DeletionRecorded ==
  ASSUME RecordInv,
         \/ \E path \in DOMAIN outputs : Images!DeleteOutput(path)
         \/ \E path \in deleting : Images!DropRecord(path)
  PROVE  RecordInv'
<1>1. UNCHANGED <<exec, cleanup, reused>>
  BY DEF Images!DeleteOutput, Images!DropRecord
<1>2. CASE \E path \in DOMAIN outputs : Images!DeleteOutput(path)
  <2>1. PICK path \in DOMAIN outputs : Images!DeleteOutput(path)
    BY <1>2
  <2>2. retention' = retention /\ deleting' = deleting \cup {path}
    BY <2>1 DEF Images!DeleteOutput
  <2>3. NoNewImage /\ DOMAIN outputs' = DOMAIN outputs \ {path}
    BY <2>1 DEF NoNewImage, Images!DeleteOutput, Images!Without, Images!Restrict
  <2> QED
    BY <1>1, <2>2, <2>3, RecordsStayThere DEF RecordInv, NoNewDelivery, Images!Pending
<1>3. CASE \E path \in deleting : Images!DropRecord(path)
  <2>1. PICK path \in deleting : Images!DropRecord(path)
    BY <1>3
  <2>2. outputs' = outputs /\ deleting' = deleting \ {path}
    BY <2>1 DEF Images!DropRecord
  <2>3. DOMAIN retention \ DOMAIN retention' \subseteq {path}
    BY <2>1 DEF Images!DropRecord, Images!Without, Images!Restrict
  <2> QED
    BY <1>1, <2>2, <2>3, RecordsStayThere DEF RecordInv, NoNewImage, NoNewDelivery, Images!Pending
<1> QED
  BY <1>2, <1>3

LEMMA CleanupRecorded ==
  ASSUME RecordInv,
         \/ Images!CleanupReads \/ Images!CleanupLists \/ Images!CleanupEnds
         \/ \E path \in cleanup.doomed : Images!CleanupDeletes(path)
  PROVE  RecordInv'
<1> USE DEF IsCleanup
<1>1. UNCHANGED <<exec, deleting, reused>>
  BY DEF Images!CleanupReads, Images!CleanupLists, Images!CleanupEnds, Images!CleanupDeletes
<1>2. IsCleanup(cleanup)
  BY DEF RecordInv
<1>3. CASE Images!CleanupReads
  <2>1. cleanup' = [pc |-> "list", records |-> retention, doomed |-> {}, deleted |-> {}]
    BY <1>3 DEF Images!CleanupReads, Images!NoCleanup
  <2>2. UNCHANGED <<outputs, retention>>
    BY <1>3 DEF Images!CleanupReads
  <2> QED
    BY <1>1, <2>1, <2>2, RecordsStayThere DEF NoNewImage, NoNewDelivery, Images!Pending
<1>4. CASE Images!CleanupLists
  <2>1. cleanup' = [pc |-> "delete", records |-> cleanup.records, doomed |-> Images!Doomed,
                    deleted |-> cleanup.deleted]
    <3> DEFINE d == Images!Doomed
    <3>1. cleanup' = [cleanup EXCEPT !.pc = "delete", !.doomed = d]
      BY <1>4 DEF Images!CleanupLists
    <3> HIDE DEF d
    <3>2. cleanup' = [pc |-> "delete", records |-> cleanup.records, doomed |-> d, deleted |-> cleanup.deleted]
      BY <1>2, <3>1
    <3> QED
      BY <3>2 DEF d
  <2>2. UNCHANGED <<outputs, retention>>
    BY <1>4 DEF Images!CleanupLists
  <2> QED
    BY <1>1, <2>1, <2>2, RecordsStayThere DEF NoNewImage, NoNewDelivery, Images!Pending
<1>5. CASE Images!CleanupEnds
  <2>1. cleanup' = [pc |-> "idle", records |-> <<>>, doomed |-> {}, deleted |-> {}]
    BY <1>5 DEF Images!CleanupEnds, Images!NoCleanup
  <2>2. outputs' = outputs /\ DOMAIN retention \ DOMAIN retention' \subseteq cleanup.deleted
    BY <1>5 DEF Images!CleanupEnds, Images!RecordsAfter, Images!Without, Images!Restrict
  <2> QED
    BY <1>1, <2>1, <2>2, RecordsStayThere DEF NoNewImage, NoNewDelivery, Images!Pending
<1>6. CASE \E path \in cleanup.doomed : Images!CleanupDeletes(path)
  <2>1. PICK path \in cleanup.doomed : Images!CleanupDeletes(path)
    BY <1>6
  <2>2. retention' = retention
    BY <2>1 DEF Images!CleanupDeletes
  <2>3. NoNewImage /\ DOMAIN outputs' = DOMAIN outputs \ {path}
    BY <2>1 DEF NoNewImage, Images!CleanupDeletes, Images!Without, Images!Restrict
  <2>4. IsCleanup(cleanup') /\ cleanup'.deleted \subseteq cleanup.deleted \cup {path}
    <3> DEFINE doomed == cleanup.doomed \ {path}
               deleted == IF path \in DOMAIN outputs THEN cleanup.deleted \cup {path} ELSE cleanup.deleted
               c == [cleanup EXCEPT !.doomed = doomed]
    <3>1. cleanup' = [c EXCEPT !.deleted = deleted]
      BY <1>2, <2>1 DEF Images!CleanupDeletes
    <3>2. deleted \subseteq cleanup.deleted \cup {path}
      OBVIOUS
    <3>3. c = [pc |-> cleanup.pc, records |-> cleanup.records, doomed |-> doomed, deleted |-> cleanup.deleted]
      <4> HIDE DEF doomed
      <4> QED
        BY <1>2
    <3> HIDE DEF doomed, deleted, c
    <3>4. cleanup' = [pc |-> cleanup.pc, records |-> cleanup.records, doomed |-> doomed, deleted |-> deleted]
      BY <3>1, <3>3
    <3> QED
      BY <3>2, <3>4
  <2> QED
    BY <1>1, <2>2, <2>3, <2>4, RecordsStayThere DEF NoNewDelivery, Images!Pending
<1> QED
  BY <1>3, <1>4, <1>5, <1>6

LEMMA RecordsNextKeeps ==
  ASSUME ImageInv, RecordInv, [Images!Next]_(Images!vars)
  PROVE  RecordInv'
<1>1. CASE Images!OthersRender \/ \E cut_1 \in BOOLEAN : Images!Renders(cut_1)
  <2>1. (\E path : Images!Saves(path)) /\ UNCHANGED <<retention, exec, cleanup, deleting>>
    BY <1>1 DEF Images!OthersRender, Images!Renders
  <2> QED
    BY <2>1, SavedIsNew
<1>2. CASE \E e \in Execs : \/ Images!Starts(e) \/ Images!Answered(e)
                            \/ Images!TimesOut(e) \/ Images!Acknowledge(e)
  BY <1>2, AnsweredIsRecorded, ExecEndsRecorded
<1>3. CASE \/ \E path \in DOMAIN outputs : Images!DeleteOutput(path)
           \/ \E path \in deleting : Images!DropRecord(path)
  BY <1>3, DeletionRecorded
<1>4. CASE \/ Images!CleanupReads \/ Images!CleanupLists \/ Images!CleanupEnds
           \/ \E path \in cleanup.doomed : Images!CleanupDeletes(path)
  BY <1>4, CleanupRecorded
<1>5. CASE /\ NoNewImage
           /\ UNCHANGED <<retention, exec, cleanup, deleting, reused>>
  BY <1>5, RecordsStayThere DEF RecordInv, NoNewDelivery, Images!Pending
<1>6. CASE \E path \in DOMAIN outputs : Images!Ages(path)
  <2>1. PICK path \in DOMAIN outputs : Images!Ages(path)
    BY <1>6
  <2>2. /\ outputs' = [outputs EXCEPT ![path].age = @ + 1]
        /\ UNCHANGED <<retention, exec, cleanup, deleting, reused>>
    BY <2>1 DEF Images!Ages
  <2>3. outputs[path] \in [at : Nat, age : Nat]
    BY DEF ImageInv, OutputsOK
  <2>4. NoNewImage
    BY <2>2, <2>3 DEF NoNewImage
  <2> QED
    BY <1>5, <2>2, <2>4
<1>7. CASE \E w \in Images!Pollers : Images!ReadsJob(w)
  <2>1. PICK w \in Images!Pollers : Images!ReadsJob(w)
    BY <1>7
  <2>2. outputs' = outputs \/ \E gone : outputs' = Images!Without(outputs, gone)
    BY <2>1 DEF Images!ReadsJob
  <2>3. NoNewImage
    BY <2>2 DEF NoNewImage, Images!Without, Images!Restrict
  <2>4. UNCHANGED <<retention, exec, cleanup, deleting, reused>>
    BY <2>1 DEF Images!ReadsJob
  <2> QED
    BY <1>5, <2>3, <2>4
<1>8. CASE \/ \E cutout_1 \in BOOLEAN : Images!GuiSubmits(cutout_1)
           \/ Images!Restarts \/ UNCHANGED Images!vars
           \/ \E w \in Images!Pollers : \/ Images!ListsFiles(w) \/ Images!WritesJob(w)
                                       \/ \E blind \in BOOLEAN : Images!PollsQueue(w, blind)
  <2>1. UNCHANGED <<outputs, retention, exec, cleanup, deleting, reused>>
    BY <1>8 DEF Images!GuiSubmits, Images!Restarts, Images!ListsFiles, Images!WritesJob, Images!PollsQueue,
                Images!vars
  <2> QED
    BY <1>5, <2>1 DEF NoNewImage
<1> QED
  BY <1>1, <1>2, <1>3, <1>4, <1>6, <1>7, <1>8 DEF Images!Next

LEMMA RecordsStart ==
  ASSUME Images!Init
  PROVE  RecordInv
<1>1. outputs = <<>> /\ cleanup = Images!NoCleanup /\ exec = [e \in Execs |-> Images!NoExec]
  BY DEF Images!Init
<1> QED
  BY <1>1 DEF RecordInv, IsCleanup, PendingMarked, DeliveredIsRecorded, Images!DeliveredIsRecorded,
              Images!NoCleanup, Images!NoExec

(* The image of an execution that asked for a lifetime has its retention   *)
(* record as long as it is there, over any cleanups, deletions by hand and *)
(* acknowledgements between the steps of one another, unless it was saved  *)
(* at a path whose record was still to be dropped.                         *)
THEOREM RecordsStay == StudioSpec => []DeliveredIsRecorded
<1>1. StudioInit => ImageInv /\ RecordInv
  BY ImagesStart, RecordsStart DEF StudioInit
<1>2. ImageInv /\ RecordInv /\ [StudioNext]_studioVars => ImageInv' /\ RecordInv'
  BY ImagesNextKeeps, RecordsNextKeeps, StudioStepOfImages
<1>3. RecordInv => DeliveredIsRecorded
  BY DEF RecordInv
<1> QED
  BY <1>1, <1>2, <1>3, PTL DEF StudioSpec

-----------------------------------------------------------------------------
(* LoRA trainings *)

(* A profile whose trainings have their checkpoints in the profile, and    *)
(* whose bootstrap LoRA is there for ComfyUI.                              *)
KeptJob ==
  [id : Nat, status : {"none", "running", "failed", "completed"},
   copied : SUBSET (kept \cup tornCopies), home : BOOLEAN]
KeptFile ==
  [jobs : [Training!Slots -> KeptJob], dataset : [Training!Sections -> Nat], active : Nat,
   bootstrap : loras \cup {Training!NoModel}]

(* What handlers do, and where they stand. *)
StepKinds == {"upload", "lora", "stock", "copy", "launch", "models", "await", "write", "raise"}
TrainStep == [do : StepKinds, slot : Training!Slots]
Handler ==
  [pc : {"idle", "run", "payload", "read", "locked"}, copy : KeptFile, todo : Seq(TrainStep),
   files : SUBSET Training!Model, got : SUBSET (kept \cup tornCopies)]
Ask ==
  [do : {"upload", "upload_lora", "train", "epoch_review", "generate", "approve", "next"},
   slot : Training!Slots]

TrainLeft == [requests : Seq(Ask), refreshes : Nat, crashes : Nat, busy : BOOLEAN]

(* The ids of trainings are used in their order, and only what was started *)
(* left checkpoints.                                                       *)
ProcessesOK ==
  /\ proc \in [Training!JobIds -> {"none", "running", "zombie", "gone"}]
  /\ checkpoints \subseteq Training!Model
  /\ \E n \in 0..MaxJobs : \A id \in Training!JobIds : proc[id] # "none" <=> id <= n
  /\ \A m \in checkpoints : proc[m[1]] # "none"

(* A handler's steps end with a write or a raise, and none but the first   *)
(* copies checkpoints.                                                     *)
Ends(t) == t[Len(t)].do \in {"write", "raise"}
Plan(t) ==
  /\ t \in Seq(TrainStep) /\ t # <<>> /\ Ends(t)
  /\ \A i \in 1..Len(t) : t[i].do # "copy"

(* Whoever finalises a training has every checkpoint ahead or in the       *)
(* profile, and nobody writes any more of them.                            *)
JobOf(r) == r.copy.jobs[Head(r.todo).slot]
Finalising(w) ==
  LET id == JobOf(trainWorker[w]).id
  IN  /\ id \in Training!JobIds /\ proc[id] = "gone"
      /\ Training!ModelsOf(checkpoints, id) \subseteq trainWorker[w].files \cup kept \cup tornCopies
RunOK(w) ==
  trainWorker[w].pc = "run" =>
    /\ trainWorker[w].todo # <<>>
    /\ Head(trainWorker[w].todo).do # "copy" => Plan(trainWorker[w].todo)
    /\ Head(trainWorker[w].todo).do = "copy" => Plan(Tail(trainWorker[w].todo)) /\ Finalising(w)
HandlersOK ==
  trainWorker \in [Training!Workers -> Handler] /\ \A w \in Training!Workers : RunOK(w)

(* The profile, and the copies of it that are not a running handler's.     *)
FilesOK ==
  /\ file \in KeptFile /\ thread \in Handler
  /\ trainAwaiting \in Handler /\ (trainAwaiting.pc = "run" => Plan(trainAwaiting.todo))

CheckpointsKept == made \subseteq checkpoints \cup kept \cup tornCopies

TrainInv ==
  /\ FilesOK /\ HandlersOK /\ ProcessesOK /\ CheckpointsKept
  /\ external \in Nat /\ trainLeft \in TrainLeft

(* What every step keeps: copies stay, a process that is gone stays gone,  *)
(* and its checkpoints grow no more.                                       *)
TrainFrame ==
  /\ kept \subseteq kept' /\ tornCopies \subseteq tornCopies' /\ loras \subseteq loras'
  /\ \A id \in Training!JobIds :
       proc[id] = "gone" =>
         proc'[id] = "gone" /\ Training!ModelsOf(checkpoints', id) \subseteq Training!ModelsOf(checkpoints, id)

LEMMA KeptGrows ==
  ASSUME TrainFrame
  PROVE  KeptJob \subseteq KeptJob' /\ KeptFile \subseteq KeptFile' /\ Handler \subseteq Handler'
<1>1. SUBSET (kept \cup tornCopies) \subseteq (SUBSET (kept \cup tornCopies))'
  BY DEF TrainFrame
<1>2. KeptJob \subseteq KeptJob'
  BY <1>1 DEF KeptJob
<1>3. loras \cup {Training!NoModel} \subseteq (loras \cup {Training!NoModel})'
  BY DEF TrainFrame
<1>4. ASSUME NEW f \in KeptFile
      PROVE  f \in KeptFile'
  BY <1>2, <1>3 DEF KeptFile
<1>5. ASSUME NEW r \in Handler
      PROVE  r \in Handler'
  BY <1>1, <1>4 DEF Handler
<1> QED
  BY <1>2, <1>4, <1>5

LEMMA TrainRest ==
  /\ Training!EmptyFile \in KeptFile
  /\ Training!NoJob \in KeptJob
  /\ Training!Idle \in Handler
<1>1. Training!NoJob \in KeptJob
  BY DEF KeptJob, Training!NoJob
<1>2. Training!EmptyFile \in KeptFile
  BY <1>1 DEF KeptFile, Training!EmptyFile
<1>3. <<>> \in Seq(TrainStep)
  BY EmptySeq
<1>4. Training!Idle \in Handler
  BY <1>2, <1>3 DEF Handler, Training!Idle
<1> QED
  BY <1>1, <1>2, <1>4

(* A handler that runs a plan on a copy of the profile. *)
LEMMA RunsHandler ==
  ASSUME NEW c \in KeptFile, NEW t \in Seq(TrainStep)
  PROVE  /\ Training!Runs(c, t) \in Handler
         /\ Training!Runs(c, t).pc = "run" /\ Training!Runs(c, t).todo = t
<1> DEFINE i == Training!Idle
           r1 == [i EXCEPT !.pc = "run"]
           r2 == [r1 EXCEPT !.copy = c]
<1>3. i \in Handler
  BY TrainRest
<1>4. Training!Runs(c, t) = [r2 EXCEPT !.todo = t]
  BY Zenon DEF Training!Runs
<1> HIDE DEF i
<1>5. r1 \in Handler /\ r1.pc = "run"
  BY <1>3 DEF Handler
<1> HIDE DEF r1
<1>6. r2 \in Handler /\ r2.pc = "run"
  BY <1>5 DEF Handler
<1> HIDE DEF r2
<1>7. [r2 EXCEPT !.todo = t] \in Handler /\ [r2 EXCEPT !.todo = t].pc = "run" /\ [r2 EXCEPT !.todo = t].todo = t
  BY <1>6 DEF Handler
<1> QED
  BY <1>4, <1>7

(* Plans *)
LEMMA PlanHead ==
  ASSUME NEW t, Plan(t)
  PROVE  t # <<>> /\ Head(t) \in TrainStep /\ Head(t).do # "copy" /\ Tail(t) \in Seq(TrainStep)
<1>1. t \in Seq(TrainStep) /\ t # <<>>
  BY DEF Plan
<1>2. Len(t) \in Nat \ {0} /\ Head(t) = t[1] /\ Head(t) \in TrainStep /\ Tail(t) \in Seq(TrainStep)
  BY <1>1, HeadTailProperties
<1>3. 1 \in 1..Len(t)
  BY <1>2
<1>4. t[1].do # "copy"
  BY <1>3 DEF Plan
<1> QED
  BY <1>1, <1>2, <1>4

LEMMA PlanGoesOn ==
  ASSUME NEW t, Plan(t), Head(t).do \notin {"write", "raise"}
  PROVE  Plan(Tail(t))
<1> DEFINE n == Len(t)
<1>1. t \in Seq(TrainStep) /\ t # <<>> /\ t[n].do \in {"write", "raise"}
  BY DEF Plan, Ends
<1>2. n \in Nat \ {0} /\ Head(t) = t[1] /\ Tail(t) \in Seq(TrainStep)
  BY <1>1, HeadTailProperties
<1>3. Len(Tail(t)) = n - 1 /\ \A i \in 1..(n - 1) : Tail(t)[i] = t[i + 1]
  BY <1>1, HeadTailProperties
<1>4. \A i \in 1..n : t[i].do # "copy"
  BY DEF Plan
<1> HIDE DEF n
<1>5. n # 1
  BY <1>1, <1>2
<1>6. n - 1 \in Nat \ {0} /\ n - 1 \in 1..(n - 1) /\ (n - 1) + 1 = n
  BY <1>2, <1>5
<1>7. Tail(t) # <<>>
  BY <1>2, <1>3, <1>6, EmptySeq
<1>8. Ends(Tail(t))
  BY <1>1, <1>3, <1>6 DEF Ends
<1>9. \A i \in 1..Len(Tail(t)) : Tail(t)[i].do # "copy"
  <2>1. ASSUME NEW i \in 1..(n - 1)
        PROVE  i + 1 \in 1..n
    BY <1>2
  <2> QED
    BY <2>1, <1>3, <1>4
<1> QED
  BY <1>2, <1>7, <1>8, <1>9 DEF Plan

LEMMA PlanAfter ==
  ASSUME NEW s \in Seq(TrainStep), \A i \in 1..Len(s) : s[i].do # "copy", NEW t, Plan(t)
  PROVE  Plan(s \o t)
<1> DEFINE m == Len(s)  n == Len(t)  st == s \o t
<1>1. t \in Seq(TrainStep) /\ t # <<>> /\ t[n].do \in {"write", "raise"}
      /\ \A i \in 1..n : t[i].do # "copy"
  BY DEF Plan, Ends
<1>2. /\ st \in Seq(TrainStep) /\ Len(st) = m + n
      /\ \A i \in 1..(m + n) : st[i] = IF i <= m THEN s[i] ELSE t[i - m]
  BY <1>1, ConcatProperties
<1>3. m \in Nat /\ n \in Nat \ {0}
  BY <1>1, LenProperties, EmptySeq
<1>4. \A i \in 1..m : s[i].do # "copy"
  OBVIOUS
<1>5. Len(<<>>) = 0
  BY EmptySeq
<1>6. s \o t = st
  OBVIOUS
<1> HIDE DEF m, n, st
<1>7. m + n \in 1..(m + n) /\ ~(m + n <= m) /\ (m + n) - m = n
  BY <1>3
<1>8. st[Len(st)].do \in {"write", "raise"}
  BY <1>1, <1>2, <1>7
<1>9. ASSUME NEW i \in 1..(m + n)
      PROVE  st[i].do # "copy"
  <2>1. CASE i <= m
    <3>1. i \in 1..m
      BY <2>1, <1>3
    <3> QED
      BY <3>1, <2>1, <1>2, <1>4
  <2>2. CASE ~(i <= m)
    <3>1. i - m \in 1..n
      BY <2>2, <1>3
    <3> QED
      BY <3>1, <2>2, <1>1, <1>2
  <2> QED
    BY <2>1, <2>2
<1>10. st # <<>>
  BY <1>2, <1>3, <1>5
<1> QED
  BY <1>2, <1>6, <1>8, <1>9, <1>10 DEF Plan, Ends

LEMMA DoTyped ==
  ASSUME NEW what \in StepKinds, NEW slot \in Training!Slots
  PROVE  Training!Do(what, slot) \in TrainStep /\ Training!Do(what, slot).do = what
BY DEF Training!Do, TrainStep, StepKinds

LEMMA PlanOf ==
  ASSUME NEW t \in Seq(TrainStep), NEW n \in Nat \ {0}, Len(t) = n,
         t[n].do \in {"write", "raise"}, \A i \in 1..n : t[i].do # "copy"
  PROVE  Plan(t)
<1>1. t # <<>>
  BY EmptySeq
<1> QED
  BY <1>1 DEF Plan, Ends

LEMMA LastStep ==
  ASSUME NEW what \in {"write", "raise"}, NEW slot \in Training!Slots
  PROVE  Plan(<<Training!Do(what, slot)>>)
<1> DEFINE x == Training!Do(what, slot)
<1>1. x \in TrainStep /\ x.do = what
  BY DoTyped DEF StepKinds
<1> HIDE DEF x
<1>2. <<x>> \in Seq(TrainStep) /\ Len(<<x>>) = 1 /\ <<x>>[1] = x
  BY <1>1
<1>3. \A i \in 1..1 : <<x>>[i].do # "copy"
  BY <1>1, <1>2
<1> QED
  BY <1>1, <1>2, <1>3, PlanOf DEF x

LEMMA FirstStep ==
  ASSUME NEW what \in StepKinds \ {"copy"}, NEW slot \in Training!Slots, NEW t, Plan(t)
  PROVE  Plan(<<Training!Do(what, slot)>> \o t)
<1> DEFINE x == Training!Do(what, slot)
<1>1. x \in TrainStep /\ x.do = what
  BY DoTyped
<1> HIDE DEF x
<1>2. <<x>> \in Seq(TrainStep) /\ Len(<<x>>) = 1 /\ <<x>>[1] = x
  BY <1>1
<1>3. \A i \in 1..Len(<<x>>) : <<x>>[i].do # "copy"
  BY <1>1, <1>2
<1> QED
  BY <1>2, <1>3, PlanAfter DEF x

(* What the handlers of the requests and the refresh do are plans. *)
LEMMA StockFirst ==
  ASSUME NEW sec, NEW t, Plan(t)
  PROVE  Plan(Training!StockSteps(sec) \o t)
<1> DEFINE h == Training!Do("stock", "head")  b == Training!Do("stock", "bootstrap")
           u == Training!Do("stock", "torso")
<1>1. /\ h \in TrainStep /\ b \in TrainStep /\ u \in TrainStep
      /\ h.do # "copy" /\ b.do # "copy" /\ u.do # "copy"
  BY DEF Training!Do, TrainStep, StepKinds, Training!Slots, Training!Sections
<1>2. Training!StockSteps(sec) = IF sec = "head" THEN <<h>> ELSE <<b, u>>
  BY DEF Training!StockSteps
<1> HIDE DEF h, b, u
<1>3. <<h>> \in Seq(TrainStep) /\ Len(<<h>>) = 1 /\ <<h>>[1] = h
  BY <1>1
<1>4. <<b, u>> \in Seq(TrainStep) /\ Len(<<b, u>>) = 2 /\ <<b, u>>[1] = b /\ <<b, u>>[2] = u
  BY <1>1
<1>5. \A i \in 1..Len(<<h>>) : <<h>>[i].do # "copy"
  BY <1>1, <1>3
<1>6. \A i \in 1..Len(<<b, u>>) : <<b, u>>[i].do # "copy"
  BY <1>1, <1>4
<1> QED
  BY <1>2, <1>3, <1>4, <1>5, <1>6, PlanAfter

LEMMA TwoSteps ==
  ASSUME NEW a \in StepKinds \ {"copy"}, NEW z \in {"write", "raise"},
         NEW s \in Training!Slots, NEW v \in Training!Slots
  PROVE  Plan(<<Training!Do(a, s), Training!Do(z, v)>>)
<1> DEFINE x == Training!Do(a, s)  y == Training!Do(z, v)
<1>1. x \in TrainStep /\ y \in TrainStep
  BY DoTyped DEF StepKinds
<1>2. x.do # "copy" /\ y.do # "copy" /\ y.do \in {"write", "raise"}
  BY DoTyped DEF StepKinds
<1> HIDE DEF x, y
<1> DEFINE tup == <<x, y>>
<1>3. tup \in Seq(TrainStep) /\ Len(tup) = 2
      /\ tup[1] = x /\ tup[2] = y
  BY <1>1
<1>4. \A i \in 1..2 : tup[i].do # "copy"
  BY <1>2, <1>3
<1>5. tup[2].do \in {"write", "raise"}
  BY <1>2, <1>3
<1> HIDE DEF tup
<1>6. Plan(tup)
  BY <1>3, <1>4, <1>5, PlanOf
<1> QED
  BY <1>6 DEF tup, x, y

LEMMA ThreeSteps ==
  ASSUME NEW a \in StepKinds \ {"copy"}, NEW b \in StepKinds \ {"copy"}, NEW z \in {"write", "raise"},
         NEW s \in Training!Slots, NEW u \in Training!Slots, NEW v \in Training!Slots
  PROVE  Plan(<<Training!Do(a, s), Training!Do(b, u), Training!Do(z, v)>>)
<1> DEFINE x == Training!Do(a, s)  y == Training!Do(b, u)  w == Training!Do(z, v)
<1>1. x \in TrainStep /\ y \in TrainStep /\ w \in TrainStep
  BY DoTyped DEF StepKinds
<1>2. x.do # "copy" /\ y.do # "copy" /\ w.do # "copy" /\ w.do \in {"write", "raise"}
  BY DoTyped DEF StepKinds
<1> HIDE DEF x, y, w
<1> DEFINE tup == <<x, y, w>>
<1>3. tup \in Seq(TrainStep) /\ Len(tup) = 3
      /\ tup[1] = x /\ tup[2] = y /\ tup[3] = w
  BY <1>1
<1>4. \A i \in 1..3 : tup[i].do # "copy"
  BY <1>2, <1>3
<1>5. tup[3].do \in {"write", "raise"}
  BY <1>2, <1>3
<1> HIDE DEF tup
<1>6. Plan(tup)
  BY <1>3, <1>4, <1>5, PlanOf, SMTT(30)
<1> QED
  BY <1>6 DEF tup, x, y, w

LEMMA FourSteps ==
  ASSUME NEW a \in StepKinds \ {"copy"}, NEW b \in StepKinds \ {"copy"}, NEW c \in StepKinds \ {"copy"},
         NEW z \in {"write", "raise"},
         NEW s \in Training!Slots, NEW t \in Training!Slots, NEW u \in Training!Slots, NEW v \in Training!Slots
  PROVE  Plan(<<Training!Do(a, s), Training!Do(b, t), Training!Do(c, u), Training!Do(z, v)>>)
<1> DEFINE x == Training!Do(a, s)  y == Training!Do(b, t)  w == Training!Do(c, u)  o == Training!Do(z, v)
<1>1. x \in TrainStep /\ y \in TrainStep /\ w \in TrainStep /\ o \in TrainStep
  BY DoTyped DEF StepKinds
<1>2. x.do # "copy" /\ y.do # "copy" /\ w.do # "copy" /\ o.do # "copy" /\ o.do \in {"write", "raise"}
  BY DoTyped DEF StepKinds
<1> HIDE DEF x, y, w, o
<1> DEFINE tup == <<x, y, w, o>>
<1>3. tup \in Seq(TrainStep) /\ Len(tup) = 4
      /\ tup[1] = x /\ tup[2] = y /\ tup[3] = w /\ tup[4] = o
  BY <1>1
<1>4. \A i \in 1..4 : tup[i].do # "copy"
  BY <1>2, <1>3
<1>5. tup[4].do \in {"write", "raise"}
  BY <1>2, <1>3
<1> HIDE DEF tup
<1>6. Plan(tup)
  BY <1>3, <1>4, <1>5, PlanOf
<1> QED
  BY <1>6 DEF tup, x, y, w, o

LEMMA RefreshPlan == Plan(Training!RefreshSteps)
<1>1. /\ "stock" \in StepKinds \ {"copy"} /\ "write" \in {"write", "raise"}
      /\ "head" \in Training!Slots /\ "torso" \in Training!Slots /\ "bootstrap" \in Training!Slots
  BY DEF StepKinds, Training!Slots, Training!Sections
<1> QED
  BY <1>1, FourSteps DEF Training!RefreshSteps

LEMMA ProgramPlan ==
  ASSUME NEW op \in {"train", "epoch_review", "generate", "approve", "next"}, NEW slot \in Training!Slots
  PROVE  Plan(Training!Program(op, slot))
<1>1. /\ {"launch", "stock", "models", "await"} \subseteq StepKinds \ {"copy"}
      /\ "torso" \in Training!Slots
  BY DEF StepKinds, Training!Slots, Training!Sections
<1>2. CASE op = "train"
  <2>1. Plan(<<Training!Do("stock", slot), Training!Do("launch", slot), Training!Do("stock", "torso"),
               Training!Do("write", slot)>>)
    BY <1>1, FourSteps
  <2>2. Plan(<<Training!Do("launch", slot), Training!Do("write", slot)>>)
    BY <1>1, TwoSteps
  <2> QED
    BY <1>2, <2>1, <2>2, StockFirst DEF Training!Program
<1>3. CASE op = "epoch_review"
  <2>1. Plan(<<Training!Do("models", slot), Training!Do("await", slot), Training!Do("write", slot)>>)
    BY <1>1, ThreeSteps
  <2> QED
    BY <1>3, <2>1, StockFirst DEF Training!Program
<1>4. CASE op = "generate"
  <2> DEFINE a == <<Training!Do("await", slot)>>  s == Training!StockSteps(slot)
             z == <<Training!Do("write", slot)>>
  <2>1. Plan(a \o (s \o z))
    BY <1>1, LastStep, StockFirst, FirstStep
  <2>2. /\ Training!Do("await", slot) \in TrainStep /\ Training!Do("write", slot) \in TrainStep
        /\ Training!Do("stock", "head") \in TrainStep
        /\ Training!Do("stock", "bootstrap") \in TrainStep /\ Training!Do("stock", "torso") \in TrainStep
    BY DEF Training!Do, TrainStep, StepKinds, Training!Slots, Training!Sections
  <2>3. a \in Seq(TrainStep) /\ s \in Seq(TrainStep) /\ z \in Seq(TrainStep)
    BY <2>2 DEF Training!StockSteps
  <2> HIDE DEF a, s, z
  <2>4. (a \o s) \o z = a \o (s \o z)
    BY <2>3, ConcatAssociative
  <2>5. Plan((a \o s) \o z)
    BY <2>1, <2>4
  <2> QED
    BY <1>4, <2>5 DEF Training!Program, a, s, z
<1>5. CASE op = "approve"
  BY <1>5, LastStep, StockFirst DEF Training!Program
<1>6. CASE op = "next"
  BY <1>6, LastStep, StockFirst DEF Training!Program
<1> QED
  BY <1>2, <1>3, <1>4, <1>5, <1>6

(* A handler that does not move stays in order whatever the others do. *)
LEMMA StaysOK ==
  ASSUME TrainFrame, NEW w \in Training!Workers, trainWorker \in [Training!Workers -> Handler],
         RunOK(w), trainWorker'[w] = trainWorker[w]
  PROVE  RunOK(w)'
<1> DEFINE r == trainWorker[w]  id == JobOf(r).id
<1>1. JobOf(trainWorker'[w]) = JobOf(r)
  BY DEF JobOf
<1>2. CASE r.pc = "run" /\ Head(r.todo).do = "copy"
  <2>1. /\ id \in Training!JobIds /\ proc[id] = "gone" /\ Plan(Tail(r.todo)) /\ r.todo # <<>>
        /\ Training!ModelsOf(checkpoints, id) \subseteq r.files \cup kept \cup tornCopies
    BY <1>2 DEF RunOK, Finalising
  <2> HIDE DEF id
  <2>2. /\ proc'[id] = "gone"
        /\ Training!ModelsOf(checkpoints', id) \subseteq Training!ModelsOf(checkpoints, id)
        /\ kept \subseteq kept' /\ tornCopies \subseteq tornCopies'
    BY <2>1 DEF TrainFrame
  <2>3. Training!ModelsOf(checkpoints', id) \subseteq r.files \cup kept' \cup tornCopies'
    BY <2>1, <2>2
  <2>4. Finalising(w)'
    BY <1>1, <2>1, <2>2, <2>3 DEF Finalising, id
  <2> QED
    BY <1>2, <2>1, <2>4 DEF RunOK
<1>3. CASE ~(r.pc = "run" /\ Head(r.todo).do = "copy")
  BY <1>3 DEF RunOK
<1> QED
  BY <1>2, <1>3

(* A handler that moves on with a plan, or ends. *)
LEMMA MovesOK ==
  ASSUME NEW w \in Training!Workers, NEW r, trainWorker'[w] = r, r.pc = "run" => Plan(r.todo)
  PROVE  RunOK(w)'
<1>1. trainWorker'[w].pc = "run" => Plan(trainWorker'[w].todo)
  OBVIOUS
<1>2. trainWorker'[w].pc = "run" =>
        trainWorker'[w].todo # <<>> /\ Head(trainWorker'[w].todo).do # "copy"
  BY <1>1, PlanHead
<1> QED
  BY <1>1, <1>2 DEF RunOK

LEMMA OneMoves ==
  ASSUME HandlersOK, TrainFrame, NEW w \in Training!Workers, NEW r \in Handler',
         r.pc = "run" => Plan(r.todo), trainWorker' = [trainWorker EXCEPT ![w] = r]
  PROVE  HandlersOK'
<1>1. /\ trainWorker' = [v \in Training!Workers |-> trainWorker'[v]]
      /\ trainWorker'[w] = r /\ \A v \in Training!Workers \ {w} : trainWorker'[v] = trainWorker[v]
  BY DEF HandlersOK
<1>2. \A v \in Training!Workers : trainWorker[v] \in Handler'
  BY KeptGrows DEF HandlersOK
<1>3. trainWorker' \in [Training!Workers -> Handler']
  BY <1>1, <1>2
<1>4. RunOK(w)'
  BY <1>1, MovesOK
<1>5. ASSUME NEW v \in Training!Workers \ {w}
      PROVE  RunOK(v)'
  BY <1>1, StaysOK DEF HandlersOK
<1> QED
  BY <1>3, <1>4, <1>5 DEF HandlersOK

LEMMA NoneMoves ==
  ASSUME HandlersOK, TrainFrame, trainWorker' = trainWorker
  PROVE  HandlersOK'
<1>1. trainWorker' \in [Training!Workers -> Handler']
  BY KeptGrows DEF HandlersOK
<1>2. ASSUME NEW v \in Training!Workers
      PROVE  RunOK(v)'
  BY StaysOK DEF HandlersOK
<1> QED
  BY <1>1, <1>2 DEF HandlersOK

LEMMA FailsKeeps ==
  ASSUME HandlersOK, TrainFrame, NEW w \in Training!Workers, Training!Fails(w)
  PROVE  HandlersOK'
<1>1. Training!Idle \in Handler' /\ Training!Idle.pc # "run"
  BY TrainRest, KeptGrows DEF Training!Idle
<1>2. trainWorker' = [trainWorker EXCEPT ![w] = Training!Idle]
  BY DEF Training!Fails
<1> HIDE DEF Training!Idle
<1> QED
  BY <1>1, <1>2, OneMoves

(* The rest of the plan that a handler follows. *)
LEMMA RunsFrom ==
  ASSUME TrainFrame, NEW c \in KeptFile', NEW t, Plan(t)
  PROVE  Training!Runs(c, t) \in Handler' /\ (Training!Runs(c, t).pc = "run" => Plan(Training!Runs(c, t).todo))
<1>1. t \in Seq(TrainStep)
  BY DEF Plan
<1> DEFINE i == Training!Idle
           r1 == [i EXCEPT !.pc = "run"]
           r2 == [r1 EXCEPT !.copy = c]
<1>3. i \in Handler'
  BY TrainRest, KeptGrows
<1>4. Training!Runs(c, t) = [r2 EXCEPT !.todo = t]
  BY Zenon DEF Training!Runs
<1> HIDE DEF i
<1>5. r1 \in Handler'
  BY <1>3 DEF Handler
<1> HIDE DEF r1
<1>6. r2 \in Handler'
  BY <1>5 DEF Handler
<1> HIDE DEF r2
<1>7. [r2 EXCEPT !.todo = t] \in Handler' /\ [r2 EXCEPT !.todo = t].todo = t
  BY <1>1, <1>6 DEF Handler
<1> QED
  BY <1>4, <1>7

LEMMA StartsPlan ==
  ASSUME HandlersOK, TrainFrame, NEW w \in Training!Workers, NEW c \in KeptFile', NEW t, Plan(t),
         trainWorker' = [trainWorker EXCEPT ![w] = Training!Runs(c, t)]
  PROVE  HandlersOK'
<1> DEFINE r == Training!Runs(c, t)
<1>1. r \in Handler' /\ (r.pc = "run" => Plan(r.todo))
  BY RunsFrom
<1> HIDE DEF r
<1> QED
  BY <1>1, OneMoves DEF r

LEMMA TrainGoesOn ==
  ASSUME HandlersOK, TrainFrame, NEW w \in Training!Workers, NEW c \in KeptFile',
         Plan(Tail(trainWorker[w].todo)), Training!GoesOn(w, c)
  PROVE  HandlersOK'
<1>1. trainWorker' = [trainWorker EXCEPT ![w] = Training!Runs(c, Tail(trainWorker[w].todo))]
  BY DEF Training!GoesOn, HandlersOK
<1> QED
  BY <1>1, StartsPlan

(* A handler about to do anything but a copy follows its plan. *)
LEMMA AtStep ==
  ASSUME HandlersOK, NEW w \in Training!Workers, NEW what, Training!NextIs(w, what), what # "copy"
  PROVE  /\ Plan(trainWorker[w].todo)
         /\ what \notin {"write", "raise"} => Plan(Tail(trainWorker[w].todo))
         /\ Training!Slot(w) \in Training!Slots
<1>1. Plan(trainWorker[w].todo) /\ Head(trainWorker[w].todo).do = what
  BY DEF Training!NextIs, HandlersOK, RunOK
<1>2. Training!Slot(w) \in Training!Slots
  BY <1>1, PlanHead DEF Training!Slot, TrainStep
<1> QED
  BY <1>1, <1>2, PlanGoesOn

LEMMA AtCopy ==
  ASSUME HandlersOK, NEW w \in Training!Workers, Training!NextIs(w, "copy")
  PROVE  /\ Plan(Tail(trainWorker[w].todo)) /\ Finalising(w)
         /\ Training!Slot(w) \in Training!Slots
<1>1. trainWorker[w].todo # <<>> /\ trainWorker[w].todo \in Seq(TrainStep)
      /\ Plan(Tail(trainWorker[w].todo)) /\ Finalising(w)
  BY DEF Training!NextIs, HandlersOK, RunOK, Handler
<1>2. Head(trainWorker[w].todo) \in TrainStep
  BY <1>1, HeadTailProperties
<1> QED
  BY <1>1, <1>2 DEF Training!Slot, TrainStep

(* The record of a training in a copy of the profile. *)
LEMMA JobKept ==
  ASSUME NEW c \in KeptFile, NEW s \in Training!Slots
  PROVE  c.jobs[s] \in KeptJob
BY DEF KeptFile

LEMMA WithJobKept ==
  ASSUME NEW c \in KeptFile', NEW s, NEW j \in KeptJob'
  PROVE  [c EXCEPT !.jobs[s] = j] \in KeptFile' /\ [c EXCEPT !.jobs[s] = j].bootstrap = c.bootstrap
<1> DEFINE js == [c.jobs EXCEPT ![s] = j]
<1>1. js \in [Training!Slots -> KeptJob']
  BY DEF KeptFile
<1>2. [c EXCEPT !.jobs[s] = j] = [c EXCEPT !.jobs = js]
  OBVIOUS
<1> HIDE DEF js
<1> QED
  BY <1>1, <1>2 DEF KeptFile

(* What a step leaves alone. *)
LEMMA SameFrame ==
  ASSUME UNCHANGED <<kept, tornCopies, loras, proc, checkpoints>>
  PROVE  TrainFrame
BY DEF TrainFrame

LEMMA FilesStay ==
  ASSUME FilesOK, TrainFrame, UNCHANGED <<file, trainAwaiting, thread>>
  PROVE  FilesOK'
BY KeptGrows DEF FilesOK

LEMMA ProcessesStay ==
  ASSUME ProcessesOK, UNCHANGED <<proc, checkpoints>>
  PROVE  ProcessesOK'
BY DEF ProcessesOK

LEMMA KeptStay ==
  ASSUME CheckpointsKept, TrainFrame, UNCHANGED <<made, checkpoints>>
  PROVE  CheckpointsKept'
BY DEF CheckpointsKept, TrainFrame

(* Taking stock of a training whose record has its checkpoints in the      *)
(* profile.                                                                *)
LEMMA StockGrows ==
  ASSUME NEW w, NEW j, Training!TakesStock(w, j)
  PROVE  loras \subseteq loras'
BY DEF Training!TakesStock

LEMMA StockGoesOn ==
  ASSUME HandlersOK, TrainFrame, NEW w \in Training!Workers, NEW j \in KeptJob',
         Plan(Tail(trainWorker[w].todo)), Training!Slot(w) \in Training!Slots, Training!TakesStock(w, j)
  PROVE  HandlersOK'
<1> DEFINE c == trainWorker[w].copy
           d == Training!WithJob(w, j)
<1>1. c \in KeptFile'
  BY KeptGrows DEF HandlersOK, Handler
<1>2. d \in KeptFile'
  BY <1>1, WithJobKept DEF Training!WithJob
<1>3. CASE Training!GoesOn(w, d)
  <2> HIDE DEF d
  <2> QED
    BY <1>2, <1>3, TrainGoesOn
<1>4. CASE Training!Fails(w)
  BY <1>4, FailsKeeps
<1>5. CASE /\ Training!GoesOn(w, [d EXCEPT !.bootstrap = Training!LatestModel(j.copied)])
           /\ loras' = loras \cup {Training!LatestModel(j.copied)}
  <2> DEFINE m == Training!LatestModel(j.copied)
             e == [d EXCEPT !.bootstrap = m]
  <2>1. m \in (loras \cup {Training!NoModel})'
    BY <1>5
  <2> HIDE DEF m, d
  <2>2. e \in KeptFile'
    BY <1>2, <2>1 DEF KeptFile
  <2>3. Training!GoesOn(w, e)
    BY <1>5 DEF m, d
  <2> HIDE DEF e
  <2> QED
    BY <2>2, <2>3, TrainGoesOn
<1> QED
  BY <1>3, <1>4, <1>5 DEF Training!TakesStock

LEMMA JobExceptStatus ==
  ASSUME NEW j \in KeptJob, NEW status \in {"none", "running", "failed", "completed"}
  PROVE  [j EXCEPT !.status = status] \in KeptJob
BY DEF KeptJob

LEMMA StatusTyped ==
  ASSUME NEW j \in KeptJob
  PROVE  Training!StatusOf(j) \in {"none", "running", "failed", "completed"}
BY DEF KeptJob, Training!StatusOf

(* What finalising starts from: the process is over, and every checkpoint  *)
(* it left is on the list.                                                 *)
LEMMA FinalisesGone ==
  ASSUME ProcessesOK, NEW j \in KeptJob, Training!Finalises(j)
  PROVE  j.id \in Training!JobIds /\ proc[j.id] = "gone"
<1>1. PICK m \in checkpoints : m[1] = j.id
  BY DEF Training!Finalises, Training!ModelsOf
<1>2. m[1] \in Training!JobIds /\ proc[m[1]] # "none"
  BY DEF ProcessesOK, Training!Model
<1>3. j.id # 0
  BY <1>1, <1>2, TrainingsAssumption DEF Training!JobIds
<1> QED
  BY <1>1, <1>2, <1>3 DEF Training!Finalises, Training!Alive, ProcessesOK

LEMMA StockKeeps ==
  ASSUME TrainInv, NEW w \in Training!Workers, Training!Stock(w)
  PROVE  TrainInv'
<1> DEFINE j == Training!Job(w)
<1>1. /\ Training!NextIs(w, "stock")
      /\ UNCHANGED <<file, uploads, external, checkpoints, kept, tornCopies, proc, failedLog, made, trainComfy,
                     trainAwaiting, thread, trainLeft>>
  BY DEF Training!Stock, Training!trainer
<1>2. /\ Plan(trainWorker[w].todo) /\ Plan(Tail(trainWorker[w].todo))
      /\ Training!Slot(w) \in Training!Slots
  BY <1>1, AtStep DEF TrainInv
<1>3. trainWorker[w] \in Handler /\ j \in KeptJob
  BY <1>2, JobKept DEF TrainInv, HandlersOK, Handler, Training!Job
<1>4. SUFFICES TrainFrame /\ HandlersOK'
  BY <1>1, FilesStay, ProcessesStay, KeptStay DEF TrainInv
<1>5. CASE ~Training!Finalises(j)
  <2> DEFINE k == IF Training!Settled(j) THEN j ELSE [j EXCEPT !.status = Training!StatusOf(j)]
  <2>1. Training!TakesStock(w, k)
    BY <1>5 DEF Training!Stock
  <2>2. k \in KeptJob
    BY <1>3, StatusTyped, JobExceptStatus
  <2> HIDE DEF k
  <2>3. TrainFrame
    BY <1>1, <2>1, StockGrows DEF TrainFrame
  <2> QED
    BY <1>2, <2>1, <2>2, <2>3, KeptGrows, StockGoesOn DEF TrainInv
<1>6. CASE Training!Finalises(j)
  <2> DEFINE s == Training!Slot(w)
             t == Tail(trainWorker[w].todo)
             todo == <<Training!Do("copy", s)>> \o t
             fs == Training!ModelsOf(checkpoints, j.id)
             r1 == [trainWorker[w] EXCEPT !.todo = todo]
             r2 == [r1 EXCEPT !.files = fs]
             r == [r2 EXCEPT !.got = {}]
  <2>1. /\ trainWorker' = [trainWorker EXCEPT ![w].todo = todo, ![w].files = fs, ![w].got = {}]
        /\ UNCHANGED loras
    BY <1>6 DEF Training!Stock, TrainInv, HandlersOK
  <2>2. TrainFrame
    BY <1>1, <2>1, SameFrame
  <2>3. /\ todo \in Seq(TrainStep) /\ Head(todo) = Training!Do("copy", s) /\ Tail(todo) = t
        /\ todo # <<>>
    <3>1. Training!Do("copy", s) \in TrainStep /\ t \in Seq(TrainStep)
      BY <1>2, DoTyped DEF Plan, StepKinds
    <3> DEFINE x == Training!Do("copy", s)
    <3> HIDE DEF x, t
    <3> QED
      BY <3>1 DEF x
  <2>4. Training!Do("copy", s).do = "copy" /\ Training!Do("copy", s).slot = s
    BY DEF Training!Do
  <2>5. fs \in SUBSET Training!Model
    BY DEF TrainInv, ProcessesOK, Training!ModelsOf
  <2>6. trainWorker' = [trainWorker EXCEPT ![w] = r]
    BY <2>1, Zenon DEF TrainInv, HandlersOK
  <2>7. r \in Handler /\ r.pc = "run" /\ r.copy = trainWorker[w].copy /\ r.todo = todo /\ r.files = fs
    <3>1. trainWorker[w].pc = "run"
      BY <1>1 DEF Training!NextIs
    <3> HIDE DEF todo, fs
    <3>2. r1 \in Handler /\ r1.pc = "run" /\ r1.copy = trainWorker[w].copy /\ r1.todo = todo
      BY <1>3, <2>3, <3>1 DEF Handler
    <3> HIDE DEF r1
    <3>3. r2 \in Handler /\ r2.pc = "run" /\ r2.copy = trainWorker[w].copy /\ r2.todo = todo /\ r2.files = fs
      BY <2>5, <3>2 DEF Handler
    <3> HIDE DEF r2
    <3> QED
      BY <3>3 DEF Handler
  <2>8. JobOf(r) = j
    BY <2>3, <2>4, <2>7 DEF JobOf, Training!Job
  <2>9. j.id \in Training!JobIds /\ proc[j.id] = "gone"
    BY <1>3, <1>6, FinalisesGone DEF TrainInv
  <2> HIDE DEF r, j, s, t, todo
  <2>10. trainWorker'[w] = r /\ \A v \in Training!Workers \ {w} : trainWorker'[v] = trainWorker[v]
    BY <2>6 DEF TrainInv, HandlersOK
  <2>11. trainWorker' \in [Training!Workers -> Handler']
    BY <2>2, <2>6, <2>7, KeptGrows DEF TrainInv, HandlersOK
  <2>12. Finalising(w)'
    BY <1>1, <2>7, <2>8, <2>9, <2>10 DEF Finalising
  <2>13. RunOK(w)'
    BY <1>2, <2>3, <2>4, <2>7, <2>10, <2>12 DEF RunOK, t
  <2>14. ASSUME NEW v \in Training!Workers \ {w}
         PROVE  RunOK(v)'
    BY <2>2, <2>10, StaysOK DEF TrainInv, HandlersOK
  <2> QED
    BY <2>2, <2>11, <2>13, <2>14 DEF HandlersOK
<1> QED
  BY <1>5, <1>6

LEMMA CopiesModelKeeps ==
  ASSUME TrainInv, NEW w \in Training!Workers, Training!CopiesModel(w)
  PROVE  TrainInv'
<1> DEFINE m == Training!FirstFile(w)
           fs == trainWorker[w].files \ {m}
           got == IF m \in checkpoints THEN trainWorker[w].got \cup {m} ELSE trainWorker[w].got
           r1 == [trainWorker[w] EXCEPT !.files = fs]
           r == [r1 EXCEPT !.got = got]
<1>1. /\ Training!NextIs(w, "copy")
      /\ kept' = IF m \in checkpoints THEN Training!CopiedIfMissing(m) ELSE kept
      /\ trainWorker' = [trainWorker EXCEPT ![w].files = @ \ {m},
                                            ![w].got = IF m \in checkpoints THEN @ \cup {m} ELSE @]
      /\ UNCHANGED <<file, uploads, external, checkpoints, tornCopies, loras, proc, failedLog, made, trainComfy,
                     trainAwaiting, thread, trainLeft>>
  BY Zenon DEF Training!CopiesModel, Training!trainer
<1>2. Plan(Tail(trainWorker[w].todo)) /\ Finalising(w)
  BY <1>1, AtCopy DEF TrainInv
<1> HIDE DEF m
<1>3. kept \subseteq kept' /\ (m \in checkpoints => m \in kept' \cup tornCopies)
  BY <1>1 DEF Training!CopiedIfMissing
<1>4. TrainFrame
  BY <1>1, <1>3 DEF TrainFrame
<1>5. trainWorker[w] \in Handler /\ trainWorker[w].pc = "run"
  BY <1>1 DEF TrainInv, HandlersOK, Training!NextIs
<1>6. trainWorker' = [trainWorker EXCEPT ![w] = r]
  BY <1>1, Zenon DEF TrainInv, HandlersOK
<1>7. /\ r \in Handler' /\ r.pc = "run" /\ r.copy = trainWorker[w].copy /\ r.todo = trainWorker[w].todo
      /\ r.files = fs
  <2>1. trainWorker[w] \in Handler'
    BY <1>4, <1>5, KeptGrows
  <2>2. fs \in SUBSET Training!Model
    BY <1>5 DEF Handler
  <2>3. got \in SUBSET (kept' \cup tornCopies')
    BY <1>1, <1>3, <1>5 DEF Handler
  <2> HIDE DEF fs, got
  <2>4. r1 \in Handler' /\ r1.pc = "run" /\ r1.copy = trainWorker[w].copy /\ r1.todo = trainWorker[w].todo
        /\ r1.files = fs
    BY <1>5, <2>1, <2>2 DEF Handler
  <2> HIDE DEF r1
  <2> QED
    BY <2>3, <2>4 DEF Handler
<1> DEFINE id == JobOf(trainWorker[w]).id
<1>8. JobOf(r) = JobOf(trainWorker[w])
  BY <1>7 DEF JobOf
<1>9. /\ id \in Training!JobIds /\ proc[id] = "gone"
      /\ Training!ModelsOf(checkpoints, id) \subseteq trainWorker[w].files \cup kept \cup tornCopies
  BY <1>2 DEF Finalising
<1> HIDE DEF r, id
<1>10. trainWorker'[w] = r /\ \A v \in Training!Workers \ {w} : trainWorker'[v] = trainWorker[v]
  BY <1>6 DEF TrainInv, HandlersOK
<1>11. trainWorker' \in [Training!Workers -> Handler']
  BY <1>4, <1>6, <1>7, KeptGrows DEF TrainInv, HandlersOK
<1>12. Training!ModelsOf(checkpoints, id) \subseteq fs \cup kept' \cup tornCopies'
  <2>1. ASSUME NEW x \in Training!ModelsOf(checkpoints, id)
        PROVE  x \in fs \cup kept' \cup tornCopies'
    BY <1>1, <1>3, <1>9 DEF Training!ModelsOf
  <2> QED
    BY <2>1
<1>13. Finalising(w)'
  BY <1>1, <1>7, <1>8, <1>9, <1>10, <1>12 DEF Finalising, id
<1>14. RunOK(w)'
  BY <1>1, <1>2, <1>5, <1>7, <1>10, <1>13 DEF RunOK, Training!NextIs, TrainInv, HandlersOK
<1>15. ASSUME NEW v \in Training!Workers \ {w}
       PROVE  RunOK(v)'
  BY <1>4, <1>10, StaysOK DEF TrainInv, HandlersOK
<1> QED
  BY <1>1, <1>4, <1>11, <1>14, <1>15, FilesStay, ProcessesStay, KeptStay DEF TrainInv, HandlersOK

(* The record of a training that is finalised. *)
LEMMA CompletedJob ==
  ASSUME NEW j \in KeptJob, NEW got \in SUBSET (kept \cup tornCopies), NEW home \in BOOLEAN
  PROVE  [j EXCEPT !.status = "completed", !.copied = got, !.home = home] \in KeptJob
<1> DEFINE j1 == [j EXCEPT !.status = "completed"]
           j2 == [j1 EXCEPT !.copied = got]
<1>1. [j EXCEPT !.status = "completed", !.copied = got, !.home = home] = [j2 EXCEPT !.home = home]
  OBVIOUS
<1>2. j1 \in KeptJob
  BY DEF KeptJob
<1> HIDE DEF j1
<1>3. j2 \in KeptJob
  BY <1>2 DEF KeptJob
<1> HIDE DEF j2
<1>4. [j2 EXCEPT !.home = home] \in KeptJob
  BY <1>3 DEF KeptJob
<1> QED
  BY <1>1, <1>4

LEMMA RemovesJobDirKeeps ==
  ASSUME TrainInv, NEW w \in Training!Workers, Training!RemovesJobDir(w)
  PROVE  TrainInv'
<1> DEFINE j == Training!Job(w)
           k == [j EXCEPT !.status = "completed", !.copied = trainWorker[w].got, !.home = TRUE]
<1>1. /\ Training!NextIs(w, "copy") /\ trainWorker[w].files = {}
      /\ Training!TakesStock(w, k)
      /\ checkpoints' = checkpoints \ Training!ModelsOf(checkpoints, j.id)
      /\ UNCHANGED <<file, uploads, external, kept, tornCopies, proc, made, trainComfy, trainAwaiting, thread,
                     trainLeft>>
  BY DEF Training!RemovesJobDir
<1>2. /\ Plan(Tail(trainWorker[w].todo)) /\ Finalising(w)
      /\ Training!Slot(w) \in Training!Slots
  BY <1>1, AtCopy DEF TrainInv
<1>3. trainWorker[w] \in Handler /\ j \in KeptJob
  BY <1>2, JobKept DEF TrainInv, HandlersOK, Handler, Training!Job
<1>4. k \in KeptJob
  BY <1>3, CompletedJob DEF Handler
<1>5. JobOf(trainWorker[w]) = j
  BY DEF JobOf, Training!Job, Training!Slot
<1>6. Training!ModelsOf(checkpoints, j.id) \subseteq kept \cup tornCopies
  BY <1>1, <1>2, <1>5 DEF Finalising
<1> HIDE DEF j, k
<1>7. TrainFrame
  BY <1>1, StockGrows DEF TrainFrame, Training!ModelsOf
<1>8. HandlersOK'
  BY <1>1, <1>2, <1>4, <1>7, KeptGrows, StockGoesOn DEF TrainInv
<1>9. ProcessesOK'
  BY <1>1 DEF TrainInv, ProcessesOK
<1>10. CheckpointsKept'
  BY <1>1, <1>6 DEF TrainInv, CheckpointsKept
<1> QED
  BY <1>1, <1>7, <1>8, <1>9, <1>10, FilesStay DEF TrainInv

(* Launching gives the next id. *)
LEMMA NextIdIsNew ==
  ASSUME ProcessesOK, Training!NextId <= MaxJobs
  PROVE  /\ Training!NextId \in Training!JobIds /\ proc[Training!NextId] = "none"
         /\ \A id \in Training!JobIds : proc[id] # "none" <=> id < Training!NextId
<1>1. PICK n \in 0..MaxJobs : \A id \in Training!JobIds : proc[id] # "none" <=> id <= n
  BY DEF ProcessesOK
<1>2. n \in Nat /\ MaxJobs \in Nat
  BY TrainingsAssumption
<1> DEFINE started == {id \in Training!JobIds : proc[id] # "none"}
<1>9. Training!NextId = Cardinality(started) + 1
  BY DEF Training!NextId, Training!Cardinality, Cardinality
<1>3. started = 1..n
  BY <1>1, <1>2 DEF Training!JobIds
<1>4. Cardinality(1..n) = n
  BY <1>2, FS_Interval
<1> HIDE DEF started
<1>5. Training!NextId = n + 1
  BY <1>3, <1>4, <1>9
<1>6. n + 1 \in Training!JobIds
  BY <1>2, <1>5 DEF Training!JobIds
<1>7. proc[n + 1] = "none"
  BY <1>1, <1>2, <1>6
<1>8. ASSUME NEW id \in Training!JobIds
      PROVE  id <= n <=> id < n + 1
  BY <1>2 DEF Training!JobIds
<1> QED
  BY <1>1, <1>5, <1>6, <1>7, <1>8

LEMMA LaunchKeeps ==
  ASSUME TrainInv, NEW w \in Training!Workers, NEW approved, NEW prepared, Training!Launch(w, approved, prepared)
  PROVE  TrainInv'
<1> DEFINE j == Training!Job(w)
<1>1. /\ Training!NextIs(w, "launch")
      /\ UNCHANGED <<file, uploads, external, checkpoints, kept, tornCopies, loras, failedLog, made,
                     trainAwaiting, thread, trainLeft>>
  BY DEF Training!Launch, Training!disk
<1>2. Plan(Tail(trainWorker[w].todo)) /\ Training!Slot(w) \in Training!Slots
  BY <1>1, AtStep DEF TrainInv
<1>3. trainWorker[w] \in Handler /\ j \in KeptJob
  BY <1>2, JobKept DEF TrainInv, HandlersOK, Handler, Training!Job
<1>4. CASE Training!GoesOn(w, Training!WithJob(w, [j EXCEPT !.status = "running"])) /\ UNCHANGED proc
  <2> DEFINE k == [j EXCEPT !.status = "running"]
             d == Training!WithJob(w, k)
  <2>1. TrainFrame
    BY <1>1, <1>4, SameFrame
  <2>2. k \in KeptJob'
    BY <1>3, <2>1, JobExceptStatus, KeptGrows
  <2> HIDE DEF k
  <2>3. d \in KeptFile'
    BY <1>3, <2>1, <2>2, KeptGrows, WithJobKept DEF Training!WithJob, Handler
  <2>4. Training!GoesOn(w, d)
    BY <1>4 DEF k
  <2> HIDE DEF d
  <2>5. HandlersOK'
    BY <1>2, <2>1, <2>3, <2>4, TrainGoesOn DEF TrainInv
  <2> QED
    BY <1>1, <1>4, <2>1, <2>5, FilesStay, ProcessesStay, KeptStay DEF TrainInv
<1>5. CASE Training!Fails(w) /\ UNCHANGED proc
  <2>1. TrainFrame
    BY <1>1, <1>5, SameFrame
  <2> QED
    BY <1>1, <1>5, <2>1, FailsKeeps, FilesStay, ProcessesStay, KeptStay DEF TrainInv
<1>6. CASE /\ Training!NextId <= MaxJobs
           /\ Training!GoesOn(w, Training!WithJob(w, [Training!NoJob EXCEPT !.id = Training!NextId, !.status = "running"]))
           /\ proc' = [proc EXCEPT ![Training!NextId] = "running"]
  <2> DEFINE id == Training!NextId
             k0 == [Training!NoJob EXCEPT !.id = id]
             k == [Training!NoJob EXCEPT !.id = id, !.status = "running"]
             d == Training!WithJob(w, k)
  <2>1. /\ id \in Training!JobIds /\ proc[id] = "none"
        /\ \A i \in Training!JobIds : proc[i] # "none" <=> i < id
    BY <1>6, NextIdIsNew DEF TrainInv
  <2>2. id \in Nat \ {0} /\ id <= MaxJobs
    BY <2>1, TrainingsAssumption DEF Training!JobIds
  <2>3. proc' = [proc EXCEPT ![id] = "running"] /\ Training!GoesOn(w, d)
    BY <1>6
  <2>4. k = [k0 EXCEPT !.status = "running"]
    OBVIOUS
  <2> HIDE DEF id
  <2>5. TrainFrame
    BY <1>1, <2>1, <2>3 DEF TrainFrame, TrainInv, ProcessesOK
  <2>6. k0 \in KeptJob
    BY <2>2, TrainRest DEF KeptJob
  <2> HIDE DEF k0
  <2>7. k \in KeptJob'
    BY <2>4, <2>5, <2>6, JobExceptStatus, KeptGrows
  <2> HIDE DEF k
  <2>8. d \in KeptFile'
    BY <1>3, <2>5, <2>7, KeptGrows, WithJobKept DEF Training!WithJob, Handler
  <2> HIDE DEF d
  <2>9. HandlersOK'
    BY <1>2, <2>3, <2>5, <2>8, TrainGoesOn DEF TrainInv
  <2>10. ProcessesOK'
    <3>1. proc' \in [Training!JobIds -> {"none", "running", "zombie", "gone"}]
      BY <2>3 DEF TrainInv, ProcessesOK
    <3>2. ASSUME NEW i \in Training!JobIds
          PROVE  proc'[i] # "none" <=> i <= id
      BY <2>1, <2>2, <2>3 DEF Training!JobIds, TrainInv, ProcessesOK
    <3>3. id \in 0..MaxJobs
      BY <2>2, TrainingsAssumption
    <3>4. \A m \in checkpoints : proc'[m[1]] # "none"
      BY <2>1, <2>3 DEF TrainInv, ProcessesOK, Training!Model
    <3> QED
      BY <1>1, <3>1, <3>2, <3>3, <3>4 DEF TrainInv, ProcessesOK
  <2> QED
    BY <1>1, <2>5, <2>9, <2>10, FilesStay, KeptStay DEF TrainInv
<1> QED
  BY <1>4, <1>5, <1>6 DEF Training!Launch

(* A request has come to a worker. *)
LEMMA RequestedKeeps ==
  ASSUME TrainInv, NEW w \in Training!Workers, NEW op, Training!Requested(w, op)
  PROVE  /\ TrainFrame /\ Training!Asked \in Training!Slots
         /\ FilesOK' /\ ProcessesOK' /\ CheckpointsKept' /\ external' \in Nat /\ trainLeft' \in TrainLeft
<1>1. /\ UNCHANGED <<file, external, checkpoints, kept, tornCopies, loras, proc, failedLog, made, trainAwaiting,
                     thread>>
      /\ trainLeft.requests # <<>> /\ trainLeft' = [trainLeft EXCEPT !.requests = Tail(@)]
  BY DEF Training!Requested, Training!trainer
<1>2. trainLeft \in TrainLeft /\ trainLeft.requests \in Seq(Ask)
  BY DEF TrainInv, TrainLeft
<1>3. Head(trainLeft.requests) \in Ask /\ Tail(trainLeft.requests) \in Seq(Ask)
  BY <1>1, <1>2, HeadTailProperties
<1> DEFINE rest == Tail(trainLeft.requests)
<1>7. trainLeft' = [trainLeft EXCEPT !.requests = rest] /\ rest \in Seq(Ask)
  BY <1>1, <1>3
<1> HIDE DEF rest
<1>4. trainLeft' \in TrainLeft
  BY <1>2, <1>7 DEF TrainLeft
<1>5. TrainFrame
  BY <1>1, SameFrame
<1>6. Training!Asked \in Training!Slots
  BY <1>3 DEF Training!Asked, Ask
<1> QED
  BY <1>1, <1>4, <1>5, <1>6, FilesStay, ProcessesStay, KeptStay DEF TrainInv

LEMMA RequestsKeep ==
  ASSUME TrainInv,
         \/ \E replace \in BOOLEAN : Training!Upload(replace)
         \/ Training!UploadLora
         \/ \E op \in {"train", "epoch_review", "generate", "approve", "next"} : Training!Dataset(op)
  PROVE  TrainInv'
<1>1. "pool" \in Training!Workers /\ "loop" \in Training!Workers
  BY DEF Training!Workers
<1>2. file \in KeptFile /\ HandlersOK
  BY DEF TrainInv, FilesOK
<1> DEFINE s == Training!Asked
<1>3. CASE \E replace \in BOOLEAN : Training!Upload(replace)
  <2> DEFINE t == <<Training!Do("upload", s), Training!Do("write", s)>>
  <2>1. Training!Requested("pool", "upload") /\ trainWorker' = [trainWorker EXCEPT !["pool"] = Training!Runs(file, t)]
    BY <1>3 DEF Training!Upload
  <2>2. Training!Asked \in Training!Slots /\ TrainFrame
    BY <1>1, <2>1, RequestedKeeps
  <2>3. Plan(t)
    BY <2>2, TwoSteps DEF StepKinds
  <2> HIDE DEF t
  <2>4. HandlersOK'
    BY <1>1, <1>2, <2>1, <2>2, <2>3, StartsPlan, KeptGrows
  <2> QED
    BY <1>1, <2>1, <2>4, RequestedKeeps DEF TrainInv
<1>4. CASE Training!UploadLora
  <2> DEFINE t == <<Training!Do("lora", s), Training!Do("write", s)>>
  <2>1. Training!Requested("pool", "upload_lora")
        /\ trainWorker' = [trainWorker EXCEPT !["pool"] = Training!Runs(file, t)]
    BY <1>4 DEF Training!UploadLora
  <2>2. Training!Asked \in Training!Slots /\ TrainFrame
    BY <1>1, <2>1, RequestedKeeps
  <2>3. Plan(t)
    BY <2>2, TwoSteps DEF StepKinds
  <2> HIDE DEF t
  <2>4. HandlersOK'
    BY <1>1, <1>2, <2>1, <2>2, <2>3, StartsPlan, KeptGrows
  <2> QED
    BY <1>1, <2>1, <2>4, RequestedKeeps DEF TrainInv
<1>5. ASSUME NEW op \in {"train", "epoch_review", "generate", "approve", "next"}, Training!Dataset(op)
      PROVE  TrainInv'
  <2> DEFINE t == Training!Program(op, s)
  <2>1. Training!Requested("loop", op) /\ trainWorker' = [trainWorker EXCEPT !["loop"] = Training!Runs(file, t)]
    BY <1>5 DEF Training!Dataset
  <2>2. Training!Asked \in Training!Slots /\ TrainFrame
    BY <1>1, <2>1, RequestedKeeps
  <2>3. Plan(t)
    BY <2>2, ProgramPlan
  <2> HIDE DEF t
  <2>4. HandlersOK'
    BY <1>1, <1>2, <2>1, <2>2, <2>3, StartsPlan, KeptGrows
  <2> QED
    BY <1>1, <2>1, <2>4, RequestedKeeps DEF TrainInv
<1> QED
  BY <1>3, <1>4, <1>5

(* A handler that goes on with another copy of the profile, and nothing    *)
(* else.                                                                   *)
LEMMA UploadsImagesKeeps ==
  ASSUME TrainInv, NEW w \in Training!Workers, NEW n \in UploadSizes, NEW ok \in BOOLEAN,
         Training!UploadsImages(w, n, ok)
  PROVE  TrainInv'
<1>1. /\ Training!NextIs(w, "upload")
      /\ UNCHANGED <<file, external, checkpoints, kept, tornCopies, loras, proc, failedLog, made, trainAwaiting,
                     thread, trainLeft>>
  BY DEF Training!UploadsImages, Training!trainer
<1>2. TrainFrame
  BY <1>1, SameFrame
<1>3. SUFFICES HandlersOK'
  BY <1>1, <1>2, FilesStay, ProcessesStay, KeptStay DEF TrainInv
<1>4. CASE Training!Fails(w)
  BY <1>2, <1>4, FailsKeeps DEF TrainInv
<1>5. CASE Training!GoesOn(w, [trainWorker[w].copy EXCEPT !.dataset[Training!Slot(w)] = n])
  <2> DEFINE c == trainWorker[w].copy
             ds == [c.dataset EXCEPT ![Training!Slot(w)] = n]
             d == [c EXCEPT !.dataset = ds]
  <2>1. c \in KeptFile' /\ n \in Nat
    BY <1>2, KeptGrows, TrainingsAssumption DEF TrainInv, HandlersOK, Handler
  <2>2. Training!GoesOn(w, d)
    BY <1>5
  <2> HIDE DEF c
  <2>3. ds \in [Training!Sections -> Nat]
    BY <2>1 DEF KeptFile
  <2> HIDE DEF ds
  <2>4. d \in KeptFile'
    BY <2>1, <2>3 DEF KeptFile
  <2> HIDE DEF d
  <2>5. Plan(Tail(trainWorker[w].todo))
    BY <1>1, AtStep DEF TrainInv
  <2> QED
    BY <1>2, <2>2, <2>4, <2>5, TrainGoesOn DEF TrainInv
<1> QED
  BY <1>4, <1>5 DEF Training!UploadsImages

LEMMA UploadsLoraKeeps ==
  ASSUME TrainInv, NEW w \in Training!Workers, NEW activate \in BOOLEAN, Training!UploadsLora(w, activate)
  PROVE  TrainInv'
<1>1. /\ Training!NextIs(w, "lora") /\ external' = external + 1
      /\ UNCHANGED <<file, checkpoints, kept, tornCopies, loras, proc, failedLog, made, trainAwaiting,
                     thread, trainLeft>>
  BY DEF Training!UploadsLora, Training!trainer
<1>2. TrainFrame
  BY <1>1, SameFrame
<1> DEFINE c == trainWorker[w].copy
           a == IF activate THEN external + 1 ELSE c.active
           d == [c EXCEPT !.active = a]
<1>3. c \in KeptFile'
  BY <1>2, KeptGrows DEF TrainInv, HandlersOK, Handler
<1>4. a \in Nat
  BY <1>3 DEF KeptFile, TrainInv
<1>5. Training!GoesOn(w, d)
  BY DEF Training!UploadsLora
<1> HIDE DEF c, a
<1>6. d \in KeptFile'
  BY <1>3, <1>4 DEF KeptFile
<1> HIDE DEF d
<1>7. Plan(Tail(trainWorker[w].todo))
  BY <1>1, AtStep DEF TrainInv
<1>8. HandlersOK'
  BY <1>2, <1>5, <1>6, <1>7, TrainGoesOn DEF TrainInv
<1> QED
  BY <1>1, <1>2, <1>8, FilesStay, ProcessesStay, KeptStay DEF TrainInv

(* Steps that leave the models, the processes and the requests alone: it   *)
(* is enough that the profile and the handlers stay in order.              *)
LEMMA OnlyHandlers ==
  ASSUME TrainInv,
         UNCHANGED <<external, checkpoints, kept, tornCopies, proc, made>>, trainLeft' \in TrainLeft,
         loras \subseteq loras'
  PROVE  TrainFrame /\ ProcessesOK' /\ CheckpointsKept' /\ external' \in Nat /\ trainLeft' \in TrainLeft
<1>1. TrainFrame
  BY DEF TrainFrame
<1> QED
  BY <1>1, ProcessesStay, KeptStay DEF TrainInv

LEMMA PayloadKeeps ==
  ASSUME TrainInv, NEW w \in Training!Workers,
         \/ Training!PayloadReads(w) \/ Training!PayloadRefreshes(w)
         \/ Training!Poll /\ w = "pool"
  PROVE  TrainInv'
<1>1. UNCHANGED <<file, external, checkpoints, kept, tornCopies, loras, proc, made, trainAwaiting, thread, trainLeft>>
  BY DEF Training!PayloadReads, Training!PayloadRefreshes, Training!Poll, Training!disk, Training!trainer
<1>2. TrainFrame
  BY <1>1, SameFrame
<1>3. SUFFICES HandlersOK'
  BY <1>1, OnlyHandlers, FilesStay DEF TrainInv
<1>4. trainWorker[w] \in Handler' /\ file \in KeptFile' /\ Training!Idle \in Handler' /\ Training!Idle.pc = "idle"
  BY <1>2, KeptGrows, TrainRest DEF TrainInv, HandlersOK, FilesOK, Training!Idle
<1>5. CASE Training!PayloadReads(w)
  <2> DEFINE r1 == [trainWorker[w] EXCEPT !.pc = "read"]
             r == [r1 EXCEPT !.copy = file]
  <2>1. trainWorker' = [trainWorker EXCEPT ![w].pc = "read", ![w].copy = file]
    BY <1>5 DEF Training!PayloadReads
  <2>2. trainWorker' = [trainWorker EXCEPT ![w] = r]
    BY <2>1, Zenon DEF TrainInv, HandlersOK
  <2>3. r1 \in Handler' /\ r1.pc = "read"
    BY <1>4 DEF Handler
  <2> HIDE DEF r1
  <2>4. r \in Handler' /\ r.pc = "read"
    BY <1>4, <2>3 DEF Handler
  <2> HIDE DEF r
  <2> QED
    BY <1>2, <2>2, <2>4, OneMoves DEF TrainInv
<1>6. CASE Training!PayloadRefreshes(w)
  <2>1. \/ trainWorker' = [trainWorker EXCEPT ![w] = Training!Runs(trainWorker[w].copy, Training!RefreshSteps)]
        \/ trainWorker' = [trainWorker EXCEPT ![w] = Training!Idle]
    BY <1>6 DEF Training!PayloadRefreshes, TrainInv, HandlersOK
  <2>2. CASE trainWorker' = [trainWorker EXCEPT ![w] = Training!Idle]
    <3> DEFINE i == Training!Idle
    <3> HIDE DEF i
    <3> QED
      BY <1>2, <1>4, <2>2, OneMoves DEF TrainInv, i
  <2>3. CASE trainWorker' = [trainWorker EXCEPT ![w] = Training!Runs(trainWorker[w].copy, Training!RefreshSteps)]
    <3>1. trainWorker[w].copy \in KeptFile'
      BY <1>4 DEF Handler
    <3> QED
      BY <1>2, <2>3, <3>1, StartsPlan, RefreshPlan DEF TrainInv
  <2> QED
    BY <2>1, <2>2, <2>3
<1>7. CASE Training!Poll /\ w = "pool"
  <2> DEFINE i == Training!Idle
             r == [i EXCEPT !.pc = "payload"]
  <2>1. trainWorker' = [trainWorker EXCEPT ![w] = r]
    BY <1>7 DEF Training!Poll
  <2> HIDE DEF i
  <2>2. r \in Handler' /\ r.pc = "payload"
    BY <1>4 DEF Handler, i
  <2> HIDE DEF r
  <2> QED
    BY <1>2, <2>1, <2>2, OneMoves DEF TrainInv
<1> QED
  BY <1>5, <1>6, <1>7

LEMMA EnsuresKeeps ==
  ASSUME TrainInv, NEW w \in Training!Workers, Training!EnsureEpochModels(w) \/ Training!Raises(w)
  PROVE  TrainInv'
<1>1. /\ UNCHANGED <<file, external, checkpoints, kept, tornCopies, proc, made, trainAwaiting, thread, trainLeft>>
      /\ loras \subseteq loras'
  BY DEF Training!EnsureEpochModels, Training!Raises, Training!disk, Training!trainer
<1>2. TrainFrame
  BY <1>1 DEF TrainFrame
<1>3. SUFFICES HandlersOK'
  BY <1>1, <1>2, OnlyHandlers, FilesStay DEF TrainInv
<1>4. CASE Training!Fails(w)
  BY <1>2, <1>4, FailsKeeps DEF TrainInv
<1>5. CASE Training!EnsureEpochModels(w) /\ Training!GoesOn(w, trainWorker[w].copy)
  <2>1. trainWorker[w].copy \in KeptFile'
    BY <1>2, KeptGrows DEF TrainInv, HandlersOK, Handler
  <2>2. Training!NextIs(w, "models")
    BY <1>5 DEF Training!EnsureEpochModels
  <2>3. Plan(Tail(trainWorker[w].todo))
    BY <2>2, AtStep DEF TrainInv
  <2> QED
    BY <1>2, <1>5, <2>1, <2>3, TrainGoesOn DEF TrainInv
<1> QED
  BY <1>4, <1>5 DEF Training!EnsureEpochModels, Training!Raises

LEMMA AwaitsKeeps ==
  ASSUME TrainInv, NEW w \in Training!Workers, Training!Awaits(w)
  PROVE  TrainInv'
<1> DEFINE t == Tail(trainWorker[w].todo)
           r == Training!Runs(trainWorker[w].copy, t)
<1>1. /\ Training!NextIs(w, "await") /\ trainAwaiting' = r /\ Training!Fails(w)
      /\ UNCHANGED <<file, external, checkpoints, kept, tornCopies, loras, proc, made, thread, trainLeft>>
  BY DEF Training!Awaits, Training!disk, Training!trainer
<1>2. TrainFrame
  BY <1>1, SameFrame
<1>3. HandlersOK'
  BY <1>1, <1>2, FailsKeeps DEF TrainInv
<1>4. Plan(t)
  BY <1>1, AtStep DEF TrainInv
<1>5. trainWorker[w].copy \in KeptFile'
  BY <1>2, KeptGrows DEF TrainInv, HandlersOK, Handler
<1> HIDE DEF t
<1>6. r \in Handler' /\ (r.pc = "run" => Plan(r.todo))
  BY <1>2, <1>4, <1>5, RunsFrom
<1> HIDE DEF r
<1>7. FilesOK'
  BY <1>1, <1>2, <1>6, KeptGrows DEF TrainInv, FilesOK
<1> QED
  BY <1>1, <1>3, <1>7, OnlyHandlers DEF TrainInv

LEMMA ResumesKeeps ==
  ASSUME TrainInv, NEW ok \in BOOLEAN, Training!Resumes(ok)
  PROVE  TrainInv'
<1> DEFINE i == Training!Idle
           r == IF ok THEN trainAwaiting ELSE i
<1>1. /\ trainWorker' = [trainWorker EXCEPT !["loop"] = r] /\ trainAwaiting' = i
      /\ UNCHANGED <<file, external, checkpoints, kept, tornCopies, loras, proc, made, thread, trainLeft>>
  BY DEF Training!Resumes, Training!disk, Training!trainer
<1>2. TrainFrame
  BY <1>1, SameFrame
<1>3. i \in Handler' /\ i.pc = "idle"
  BY <1>2, KeptGrows, TrainRest DEF Training!Idle
<1>4. trainAwaiting \in Handler' /\ (trainAwaiting.pc = "run" => Plan(trainAwaiting.todo))
  BY <1>2, KeptGrows DEF TrainInv, FilesOK
<1> HIDE DEF i
<1>5. r \in Handler' /\ (r.pc = "run" => Plan(r.todo))
  BY <1>3, <1>4
<1> HIDE DEF r
<1>6. "loop" \in Training!Workers
  BY DEF Training!Workers
<1>7. HandlersOK'
  BY <1>1, <1>2, <1>5, <1>6, OneMoves DEF TrainInv
<1>8. FilesOK'
  BY <1>1, <1>2, <1>3, KeptGrows DEF TrainInv, FilesOK
<1> QED
  BY <1>1, <1>7, <1>8, OnlyHandlers DEF TrainInv

LEMMA WritesKeeps ==
  ASSUME TrainInv, NEW w \in Training!Workers, Training!Writes(w)
  PROVE  TrainInv'
<1> DEFINE i == Training!Idle
           pc == IF refresher = w THEN "idle" ELSE "payload"
           r == [i EXCEPT !.pc = pc]
<1>1. /\ trainWorker' = [trainWorker EXCEPT ![w] = r] /\ file' = trainWorker[w].copy
      /\ UNCHANGED <<external, checkpoints, kept, tornCopies, loras, proc, made, trainAwaiting, thread, trainLeft>>
  BY DEF Training!Writes, Training!disk, Training!trainer
<1>2. TrainFrame
  BY <1>1, SameFrame
<1>3. i \in Handler'
  BY <1>2, KeptGrows, TrainRest
<1>4. pc \in {"idle", "payload"}
  OBVIOUS
<1> HIDE DEF i, pc
<1>5. r \in Handler' /\ r.pc # "run"
  BY <1>3, <1>4 DEF Handler
<1> HIDE DEF r
<1>6. HandlersOK'
  BY <1>1, <1>2, <1>5, OneMoves DEF TrainInv
<1>7. trainWorker[w].copy \in KeptFile'
  BY <1>2, KeptGrows DEF TrainInv, HandlersOK, Handler
<1>8. FilesOK'
  BY <1>1, <1>2, <1>7, KeptGrows DEF TrainInv, FilesOK
<1> QED
  BY <1>1, <1>6, <1>8, OnlyHandlers DEF TrainInv

LEMMA ThreadKeeps ==
  ASSUME TrainInv,
         \/ Training!ThreadReads \/ Training!ThreadLocks
         \/ \E changed \in BOOLEAN : Training!ThreadWrites(changed)
  PROVE  TrainInv'
<1>1. UNCHANGED <<external, checkpoints, kept, tornCopies, loras, proc, made, trainAwaiting, trainWorker>>
  BY DEF Training!ThreadReads, Training!ThreadLocks, Training!ThreadWrites, Training!disk, Training!trainer
<1>9. trainLeft' \in TrainLeft
  <2>1. \/ trainLeft' = trainLeft
        \/ trainLeft.refreshes > 0 /\ trainLeft' = [trainLeft EXCEPT !.refreshes = @ - 1]
    BY DEF Training!ThreadReads, Training!ThreadLocks, Training!ThreadWrites
  <2> QED
    BY <2>1 DEF TrainInv, TrainLeft
<1>2. TrainFrame
  BY <1>1, SameFrame
<1> DEFINE i == Training!Idle
           i1 == [i EXCEPT !.pc = "read"]
           r == [i1 EXCEPT !.copy = file]
           l == [thread EXCEPT !.pc = "locked"]
<1>3. /\ thread' = r \/ thread' = l \/ thread' = i \/ thread' = thread
      /\ file' = file \/ file' = thread.copy
  <2>1. CASE Training!ThreadReads
    <3>1. thread' = [i EXCEPT !.pc = "read", !.copy = file] /\ file' = file
      BY <2>1 DEF Training!ThreadReads
    <3>2. [i EXCEPT !.pc = "read", !.copy = file] = r
      BY Zenon
    <3> QED
      BY <3>1, <3>2
  <2>2. CASE Training!ThreadLocks
    BY <2>2 DEF Training!ThreadLocks
  <2>3. CASE \E changed \in BOOLEAN : Training!ThreadWrites(changed)
    BY <2>3 DEF Training!ThreadWrites
  <2> QED
    BY <2>1, <2>2, <2>3
<1>4. file \in KeptFile' /\ thread \in Handler' /\ i \in Handler'
  BY <1>2, KeptGrows, TrainRest DEF TrainInv, FilesOK
<1> HIDE DEF i
<1>5. i1 \in Handler' /\ l \in Handler' /\ thread.copy \in KeptFile'
  BY <1>4 DEF Handler
<1> HIDE DEF i1, l
<1>6. r \in Handler'
  BY <1>4, <1>5 DEF Handler
<1> HIDE DEF r
<1>7. FilesOK'
  BY <1>1, <1>2, <1>3, <1>4, <1>5, <1>6, KeptGrows DEF TrainInv, FilesOK
<1>8. HandlersOK'
  BY <1>1, <1>2, NoneMoves DEF TrainInv
<1> QED
  BY <1>1, <1>7, <1>8, <1>9, OnlyHandlers DEF TrainInv

LEMMA TrainerKeeps ==
  ASSUME TrainInv, NEW id \in Training!JobIds,
         \/ Training!Saves(id) \/ Training!Reaped(id)
         \/ \E bad \in BOOLEAN : Training!Exits(id, bad)
  PROVE  TrainInv'
<1>1. UNCHANGED <<file, external, kept, tornCopies, loras, trainAwaiting, trainWorker, thread, trainLeft>>
  BY DEF Training!Saves, Training!Reaped, Training!Exits, Training!disk
<1>2. CASE Training!Saves(id)
  <2>1. PICK k \in Training!Models :
          checkpoints' = checkpoints \cup {<<id, k>>} /\ made' = made \cup {<<id, k>>}
    BY <1>2 DEF Training!Saves
  <2>2. proc[id] = "running" /\ proc' = proc
    BY <1>2 DEF Training!Saves
  <2>3. TrainFrame
    BY <1>1, <2>1, <2>2 DEF TrainFrame, Training!ModelsOf
  <2>4. ProcessesOK'
    <3>1. <<id, k>> \in Training!Model
      BY DEF Training!Model
    <3>2. \A m \in checkpoints' : proc[m[1]] # "none"
      BY <2>1, <2>2 DEF TrainInv, ProcessesOK
    <3> QED
      BY <2>1, <2>2, <3>1, <3>2 DEF TrainInv, ProcessesOK
  <2>5. CheckpointsKept'
    BY <1>1, <2>1 DEF TrainInv, CheckpointsKept
  <2> QED
    BY <1>1, <2>3, <2>4, <2>5, FilesStay, NoneMoves DEF TrainInv
<1>3. CASE ~Training!Saves(id)
  <2>1. /\ \/ proc[id] = "running" /\ proc' = [proc EXCEPT ![id] = "zombie"]
           \/ proc[id] = "zombie" /\ proc' = [proc EXCEPT ![id] = "gone"]
        /\ UNCHANGED <<checkpoints, made>>
    BY <1>3 DEF Training!Reaped, Training!Exits, Training!disk
  <2>2. /\ proc' \in [Training!JobIds -> {"none", "running", "zombie", "gone"}]
        /\ \A i \in Training!JobIds : /\ proc'[i] # "none" <=> proc[i] # "none"
                                      /\ proc[i] = "gone" => proc'[i] = "gone"
    BY <2>1 DEF TrainInv, ProcessesOK
  <2>3. TrainFrame
    BY <1>1, <2>1, <2>2 DEF TrainFrame
  <2>4. ProcessesOK'
    BY <2>1, <2>2 DEF TrainInv, ProcessesOK, Training!Model
  <2> QED
    BY <1>1, <2>1, <2>3, <2>4, FilesStay, NoneMoves, KeptStay DEF TrainInv
<1> QED
  BY <1>2, <1>3

LEMMA ComfyKeeps ==
  ASSUME TrainInv, Training!ComfyWorks \/ UNCHANGED Training!vars
  PROVE  TrainInv'
<1>1. UNCHANGED <<file, external, checkpoints, kept, tornCopies, loras, proc, made, trainAwaiting, trainWorker,
                  thread>>
  BY DEF Training!ComfyWorks, Training!vars, Training!disk, Training!trainer
<1>2. TrainFrame
  BY <1>1, SameFrame
<1>3. trainLeft' \in TrainLeft
  <2>1. trainLeft' = trainLeft \/ trainLeft' = [trainLeft EXCEPT !.busy = FALSE]
    BY DEF Training!ComfyWorks, Training!vars
  <2>2. ASSUME NEW b \in BOOLEAN, trainLeft' = [trainLeft EXCEPT !.busy = b]
        PROVE  trainLeft' \in TrainLeft
    BY <2>2 DEF TrainInv, TrainLeft
  <2>3. FALSE \in BOOLEAN
    OBVIOUS
  <2> QED
    BY <2>1, <2>2, <2>3 DEF TrainInv
<1> QED
  BY <1>1, <1>2, <1>3, FilesStay, NoneMoves, ProcessesStay, KeptStay DEF TrainInv

LEMMA TrainCrashKeeps ==
  ASSUME TrainInv, NEW survives \in BOOLEAN, Training!Crash(survives)
  PROVE  TrainInv'
<1> DEFINE i == Training!Idle
<1>1. /\ UNCHANGED <<file, external, checkpoints, kept, loras, made>>
      /\ tornCopies \subseteq tornCopies'
      /\ trainWorker' = [w \in Training!Workers |-> i] /\ trainAwaiting' = i /\ thread' = i
  BY DEF Training!Crash
<1>2. proc' = [id \in Training!JobIds |->
                CASE proc[id] = "running" -> IF survives THEN "running" ELSE "gone"
                  [] proc[id] = "zombie" -> "gone"
                  [] OTHER -> proc[id]]
  BY DEF Training!Crash
<1>3. /\ proc' \in [Training!JobIds -> {"none", "running", "zombie", "gone"}]
      /\ \A id \in Training!JobIds : /\ proc'[id] # "none" <=> proc[id] # "none"
                                     /\ proc[id] = "gone" => proc'[id] = "gone"
  BY <1>2 DEF TrainInv, ProcessesOK
<1>4. TrainFrame
  BY <1>1, <1>3 DEF TrainFrame
<1>5. ProcessesOK'
  BY <1>1, <1>3 DEF TrainInv, ProcessesOK, Training!Model
<1>6. i \in Handler' /\ i.pc = "idle"
  BY <1>4, KeptGrows, TrainRest DEF Training!Idle
<1> HIDE DEF i
<1>7. FilesOK'
  BY <1>1, <1>4, <1>6, KeptGrows DEF TrainInv, FilesOK
<1>8. HandlersOK'
  <2>1. ASSUME NEW w \in Training!Workers
        PROVE  RunOK(w)'
    BY <1>1, <1>6, MovesOK
  <2> QED
    BY <1>1, <1>6, <2>1 DEF HandlersOK
<1>9. trainLeft' \in TrainLeft
  <2>1. trainLeft.crashes > 0 /\ trainLeft' = [trainLeft EXCEPT !.crashes = @ - 1]
    BY DEF Training!Crash
  <2> QED
    BY <2>1 DEF TrainInv, TrainLeft
<1> QED
  BY <1>1, <1>4, <1>5, <1>7, <1>8, <1>9, KeptStay DEF TrainInv

LEMMA TrainNextKeeps ==
  ASSUME TrainInv, [Training!Next]_(Training!vars)
  PROVE  TrainInv'
<1>1. CASE Training!Requests
  <2>1. CASE Training!Poll
    BY <2>1, PayloadKeeps DEF Training!Workers
  <2> QED
    BY <1>1, <2>1, RequestsKeep DEF Training!Requests
<1>2. ASSUME NEW w \in Training!Workers, Training!Steps(w)
      PROVE  TrainInv'
  <2>1. CASE Training!PayloadReads(w) \/ Training!PayloadRefreshes(w)
    BY <2>1, PayloadKeeps
  <2>2. CASE Training!Stock(w) \/ Training!CopiesModel(w) \/ Training!RemovesJobDir(w)
    BY <2>2, StockKeeps, CopiesModelKeeps, RemovesJobDirKeeps
  <2>3. CASE Training!EnsureEpochModels(w) \/ Training!Raises(w) \/ Training!Awaits(w) \/ Training!Writes(w)
    BY <2>3, EnsuresKeeps, AwaitsKeeps, WritesKeeps
  <2>4. CASE \/ \E n \in UploadSizes, ok \in BOOLEAN : Training!UploadsImages(w, n, ok)
             \/ \E activate \in BOOLEAN : Training!UploadsLora(w, activate)
             \/ \E approved \in 0..MinApproved, prepared \in BOOLEAN : Training!Launch(w, approved, prepared)
    BY <2>4, UploadsImagesKeeps, UploadsLoraKeeps, LaunchKeeps
  <2> QED
    BY <1>2, <2>1, <2>2, <2>3, <2>4 DEF Training!Steps
<1>3. CASE \E ok \in BOOLEAN : Training!Resumes(ok)
  BY <1>3, ResumesKeeps
<1>4. CASE Training!Others \/ UNCHANGED Training!vars
  BY <1>4, ThreadKeeps, TrainerKeeps, ComfyKeeps, TrainCrashKeeps DEF Training!Others
<1> QED
  BY <1>1, <1>2, <1>3, <1>4 DEF Training!Next

LEMMA TrainStarts ==
  ASSUME Training!Init
  PROVE  TrainInv
<1> DEFINE i == Training!Idle
<1>1. /\ file = Training!EmptyFile /\ thread = i /\ trainAwaiting = i
      /\ trainWorker = [w \in Training!Workers |-> i] /\ made = {}
      /\ external = 0 /\ proc = [id \in Training!JobIds |-> "none"] /\ checkpoints = {}
      /\ trainLeft \in TrainingStories
  BY DEF Training!Init
<1>2. i \in Handler /\ file \in KeptFile /\ i.pc = "idle"
  BY <1>1, TrainRest DEF Training!Idle
<1> HIDE DEF i
<1>3. FilesOK
  BY <1>1, <1>2 DEF FilesOK
<1>4. HandlersOK
  BY <1>1, <1>2 DEF HandlersOK, RunOK
<1>5. 0 \in 0..MaxJobs /\ \A id \in Training!JobIds : ~(id <= 0)
  BY TrainingsAssumption DEF Training!JobIds
<1>6. ProcessesOK
  <2>1. \A id \in Training!JobIds : proc[id] # "none" <=> id <= 0
    BY <1>1, <1>5
  <2> QED
    BY <1>1, <1>5, <2>1 DEF ProcessesOK
<1>7. trainLeft \in TrainLeft
  BY <1>1, TrainingsAssumption DEF TrainLeft, Ask
<1> QED
  BY <1>1, <1>3, <1>4, <1>6, <1>7 DEF TrainInv, CheckpointsKept

LEMMA StudioStepOfTraining ==
  ASSUME [StudioNext]_studioVars
  PROVE  [Training!Next]_(Training!vars)
BY DEF StudioNext, studioVars, trainingVars, Training!vars

(* No checkpoint of a training is ever lost: whoever finalises it, on      *)
(* whatever copy of profile.json and however many of them at once, and     *)
(* wherever the node crashes, only a training whose process is gone is     *)
(* finalised, and the job's directory goes when every checkpoint that was  *)
(* found in it has its copy.  What profile.json says is copied is there,   *)
(* and a bootstrap LoRA it calls ready is there for ComfyUI.               *)
THEOREM ModelsKept == StudioSpec => []TrainedModelsKept
<1>1. StudioInit => TrainInv
  BY TrainStarts DEF StudioInit
<1>2. TrainInv /\ [StudioNext]_studioVars => TrainInv'
  BY TrainNextKeeps, StudioStepOfTraining
<1>3. TrainInv => TrainedModelsKept
  BY DEF TrainInv, FilesOK, KeptFile, KeptJob, CheckpointsKept, TrainedModelsKept, Training!TrainedModelsKept
<1> QED
  BY <1>1, <1>2, <1>3, PTL DEF StudioSpec

-----------------------------------------------------------------------------
(* Avatar batches                                                          *)

LEMMA Induction ==
  ASSUME NEW G, 0 \in G, \A k \in Nat : k \in G => k + 1 \in G
  PROVE  \A k \in Nat : k \in G
<1> DEFINE D == Nat \ G
<1> SUFFICES ASSUME D # {} PROVE FALSE
  OBVIOUS
<1>1. D \subseteq Nat
  OBVIOUS
<1>2. PICK k \in D : \A j \in D : ~ (<<j, k>> \in OpToRel(<, Nat))
  BY <1>1, NatLessThanWellFounded, WFMin, Zenon
<1>3. k \in Nat /\ k # 0 /\ k - 1 \in Nat
  <2>1. k \in Nat /\ k # 0
    OBVIOUS
  <2> QED
    BY <2>1
<1>4. k - 1 \in D
  <2>1. k - 1 \in G => k \in G
    BY <1>3
  <2> QED
    BY <1>2, <1>3, <2>1
<1>5. ~(k - 1 < k)
  <2>1. <<k - 1, k>> \notin OpToRel(<, Nat)
    BY <1>2, <1>4, Zenon
  <2> QED
    BY <1>3, <2>1, Zenon DEF OpToRel
<1> QED
  BY <1>3, <1>5

(* The images of the batches in a queue. *)
RendersIn(q) == {e \in q : e.what = "render"}

LEMMA RendersCounted ==
  ASSUME NEW q, IsFiniteSet(q), NEW e
  PROVE  /\ IsFiniteSet(q \cup {e}) /\ Cardinality(q) \in Nat
         /\ Cardinality(RendersIn(q)) \in Nat /\ Cardinality(RendersIn(q \cup {e})) \in Nat
         /\ Cardinality(RendersIn(q)) <= Cardinality(q)
         /\ Cardinality(RendersIn(q \cup {e})) <= Cardinality(RendersIn(q)) + 1
<1> DEFINE R == RendersIn(q)
           S == RendersIn(q \cup {e})
<1>1. R \subseteq q /\ S \subseteq R \cup {e}
  BY DEF RendersIn
<1> HIDE DEF R, S
<1>2. IsFiniteSet(R) /\ Cardinality(R) <= Cardinality(q) /\ Cardinality(q) \in Nat /\ Cardinality(R) \in Nat
  BY <1>1, FS_Subset, FS_CardinalityType
<1>3. /\ IsFiniteSet(q \cup {e}) /\ IsFiniteSet(R \cup {e})
      /\ Cardinality(R \cup {e}) = IF e \in R THEN Cardinality(R) ELSE Cardinality(R) + 1
  BY <1>2, FS_AddElement
<1>4. IsFiniteSet(S) /\ Cardinality(S) <= Cardinality(R \cup {e}) /\ Cardinality(S) \in Nat
  BY <1>1, <1>3, FS_Subset, FS_CardinalityType
<1>5. Cardinality(S) <= Cardinality(R) + 1
  BY <1>2, <1>3, <1>4
<1> QED
  BY <1>2, <1>3, <1>4, <1>5 DEF R, S

LEMMA FewerRenders ==
  ASSUME NEW q, IsFiniteSet(q), NEW r, IsFiniteSet(r), RendersIn(r) \subseteq q
  PROVE  /\ Cardinality(RendersIn(r)) \in Nat /\ Cardinality(RendersIn(q)) \in Nat
         /\ Cardinality(RendersIn(r)) <= Cardinality(RendersIn(q))
<1>1. RendersIn(r) \subseteq RendersIn(q) /\ RendersIn(q) \subseteq q
  BY DEF RendersIn
<1> QED
  BY <1>1, FS_Subset, FS_CardinalityType

(* The intermediate state of a refresh. *)
ScanFields ==
  {"prev", "upd", "batches", "bulk", "dirty", "torso", "snap", "queue", "outputs", "images", "placeholders",
   "room", "submitted", "blind", "aged", "accepts"}
IsScan(st) == st = [x \in ScanFields |-> st[x]]

RenderOf(st, k) == [prompt |-> FreshPrompt(st.queue), seed |-> st.prev[k].seed, what |-> "render"]

LEMMA SubmitAdds ==
  ASSUME NEW st, IsScan(st), NEW k
  PROVE  /\ IsScan(Submit(st, k))
         /\ Submit(st, k).queue = st.queue \cup {RenderOf(st, k)}
         /\ Submit(st, k).room = st.room - 1 /\ Submit(st, k).submitted = TRUE
         /\ Submit(st, k).snap = st.snap /\ Submit(st, k).blind = st.blind
BY DEF Submit, RenderOf, IsScan, ScanFields

(* A scan of the batches, while the queue can be read. *)
ScanOK(st, blind) ==
  /\ IsScan(st) /\ st.blind = blind /\ IsFiniteSet(st.queue)
  /\ ~blind => Cardinality(RendersIn(st.queue)) <= Limit

LEMMA NextBeforeImportKeeps ==
  ASSUME NEW st, NEW blind \in BOOLEAN, ScanOK(st, blind), NEW i
  PROVE  ScanOK(NextBeforeImport(st, i), blind)
<1> DEFINE next == {k \in DOMAIN st.prev : k # i /\ Waiting(st.prev[k])}
           first == CHOOSE x \in next : \A y \in next : x <= y
<1>1. CASE NextBeforeImport(st, i) = st
  BY <1>1
<1>2. CASE NextBeforeImport(st, i) = Submit(st, first) /\ Room(Snapshot(st.queue, st.blind)) > 0
  <2> HIDE DEF next, first
  <2> DEFINE e == RenderOf(st, first)
  <2>0. IsScan(st) /\ st.blind = blind
    BY DEF ScanOK
  <2>1. Submit(st, first).queue = st.queue \cup {e}
    BY <2>0, SubmitAdds
  <2>2. IsScan(Submit(st, first)) /\ Submit(st, first).blind = blind
    BY <2>0, SubmitAdds
  <2> HIDE DEF e
  <2>3. IsFiniteSet(st.queue)
    BY DEF ScanOK
  <2>4. ASSUME ~blind
        PROVE  Cardinality(RendersIn(st.queue \cup {e})) <= Limit
    <3>1. Snapshot(st.queue, st.blind).queue = st.queue
      BY <2>4 DEF Snapshot, ScanOK
    <3>2. Cardinality(st.queue) \in Nat
      BY <2>3, FS_CardinalityType
    <3>3. Cardinality(st.queue) < Limit
      BY <1>2, <3>1, <3>2, BatchesAssumption DEF Room
    <3>4. /\ Cardinality(RendersIn(st.queue)) \in Nat /\ Cardinality(RendersIn(st.queue \cup {e})) \in Nat
          /\ Cardinality(RendersIn(st.queue)) <= Cardinality(st.queue)
          /\ Cardinality(RendersIn(st.queue \cup {e})) <= Cardinality(RendersIn(st.queue)) + 1
      BY <2>3, RendersCounted
    <3> QED
      BY <3>2, <3>3, <3>4, BatchesAssumption
  <2>5. IsFiniteSet(st.queue \cup {e})
    BY <2>3, RendersCounted
  <2> QED
    BY <1>2, <2>1, <2>2, <2>4, <2>5 DEF ScanOK
<1> QED
  BY <1>1, <1>2 DEF NextBeforeImport

LEMMA ScanItemKeeps ==
  ASSUME NEW st, NEW blind \in BOOLEAN, ScanOK(st, blind), NEW i
  PROVE  ScanOK(ScanItem(st, i), blind)
<1> DEFINE next == NextBeforeImport(st, i)
           r == ScanItem(st, i)
<1>1. ScanOK(next, blind)
  BY NextBeforeImportKeeps
<1>2. \/ IsScan(r) /\ r.queue = st.queue /\ r.blind = st.blind
      \/ IsScan(r) /\ r.queue = next.queue /\ r.blind = next.blind
  <2> DEFINE it == st.prev[i]
             s == it.seed
             rendered == [it EXCEPT !.status = "rendered_pending_import"]
             missing == [it EXCEPT !.status = "pending", !.file = "placeholder"]
             imported == [it EXCEPT !.status = "completed", !.file = "image"]
             pngs == IF st.torso /\ it.kind = "preview" THEN {LastPng} ELSE {}
  <2>1. IsScan(st) /\ IsScan(next)
    BY <1>1 DEF ScanOK
  <2> HIDE DEF next
  <2>2. \/ r = [st EXCEPT !.upd = Append(@, imported), !.dirty = @ \/ ~IsDone(it)]
        \/ r = [st EXCEPT !.upd = Append(@, it)]
        \/ r = [st EXCEPT !.upd = Append(@, missing), !.placeholders = @ \cup {s}, !.dirty = TRUE]
        \/ r = [next EXCEPT !.upd = Append(@, rendered), !.dirty = TRUE]
        \/ r = [next EXCEPT !.upd = Append(@, imported), !.images = @ \cup {s} \cup pngs,
                            !.placeholders = @ \ {s}, !.outputs = @ \ {s}, !.dirty = TRUE]
    BY Zenon DEF ScanItem, next
  <2> HIDE DEF it, s, rendered, missing, imported, pngs, r
  <2> QED
    BY <2>1, <2>2 DEF IsScan, ScanFields
<1> HIDE DEF next, r
<1> QED
  BY <1>1, <1>2 DEF ScanOK, r

(* The recursion over the previews of a batch. *)
ScanTo(n, st, items, f) ==
  \A i \in 0..n : f[i] = IF i = 0 THEN ScanStart(st, items)
                         ELSE IF i \in DOMAIN items THEN ScanItem(f[i - 1], i) ELSE f[i - 1]

LEMMA ScanIsDefined ==
  ASSUME NEW st, NEW items
  PROVE  \A n \in Nat : \E f : ScanTo(n, st, items, f)
<1> DEFINE G == {n \in Nat : \E f : ScanTo(n, st, items, f)}
<1>1. 0 \in G
  <2>1. ScanTo(0, st, items, [i \in {0} |-> ScanStart(st, items)])
    BY DEF ScanTo
  <2> QED
    BY <2>1
<1>2. ASSUME NEW k \in Nat, k \in G
      PROVE  k + 1 \in G
  <2>1. PICK f : ScanTo(k, st, items, f)
    BY <1>2
  <2> DEFINE last == IF k + 1 \in DOMAIN items THEN ScanItem(f[k], k + 1) ELSE f[k]
             g == [i \in 0..(k + 1) |-> IF i = k + 1 THEN last ELSE f[i]]
  <2>2. g[k + 1] = last /\ \A i \in 0..k : g[i] = f[i]
    OBVIOUS
  <2> HIDE DEF g
  <2>3. ScanTo(k + 1, st, items, g)
    <3> SUFFICES ASSUME NEW i \in 0..(k + 1)
                 PROVE  g[i] = IF i = 0 THEN ScanStart(st, items)
                               ELSE IF i \in DOMAIN items THEN ScanItem(g[i - 1], i) ELSE g[i - 1]
      BY DEF ScanTo
    <3>1. CASE i = k + 1
      <4>1. i # 0 /\ i - 1 = k /\ k \in 0..k
        BY <3>1
      <4>2. g[i - 1] = f[k]
        BY <2>2, <4>1
      <4> QED
        BY <2>2, <3>1, <4>1, <4>2
    <3>2. CASE i \in 0..k /\ i # 0
      <4>1. i - 1 \in 0..k
        BY <3>2
      <4>2. g[i] = f[i] /\ g[i - 1] = f[i - 1]
        BY <2>2, <3>2, <4>1
      <4> QED
        BY <2>1, <3>2, <4>2 DEF ScanTo
    <3>3. CASE i = 0
      BY <2>1, <2>2, <3>3 DEF ScanTo
    <3> QED
      BY <3>1, <3>2, <3>3
  <2> QED
    BY <2>3
<1> HIDE DEF G
<1>3. \A n \in Nat : n \in G
  BY <1>1, <1>2, Induction
<1> QED
  BY <1>3 DEF G

LEMMA ScanBatchKeeps ==
  ASSUME NEW st, NEW blind \in BOOLEAN, ScanOK(st, blind), NEW items
  PROVE  ScanOK(ScanBatch(st, items), blind)
<1> DEFINE After(f) == [i \in 0..MaxSeeds |->
                          IF i = 0 THEN ScanStart(st, items)
                          ELSE IF i \in DOMAIN items THEN ScanItem(f[i - 1], i) ELSE f[i - 1]]
           after == CHOOSE f : f = After(f)
<1>1. MaxSeeds \in Nat
  BY BatchesAssumption
<1>2. \E f : f = After(f)
  <2>1. PICK f : ScanTo(MaxSeeds, st, items, f)
    BY <1>1, ScanIsDefined
  <2> DEFINE g == [i \in 0..MaxSeeds |-> f[i]]
  <2>2. \A i \in 0..MaxSeeds : i # 0 => g[i - 1] = f[i - 1]
    BY <1>1
  <2>3. \A i \in 0..MaxSeeds : f[i] = IF i = 0 THEN ScanStart(st, items)
                                      ELSE IF i \in DOMAIN items THEN ScanItem(g[i - 1], i) ELSE g[i - 1]
    BY <2>1, <2>2 DEF ScanTo
  <2>4. g = After(g)
    BY <2>3
  <2> QED
    BY <2>4
<1>3. after = After(after)
  BY <1>2
<1>4. ScanBatch(st, items) = [after[MaxSeeds] EXCEPT !.batches = Append(@, after[MaxSeeds].upd)]
  BY DEF ScanBatch
<1>5. ScanTo(MaxSeeds, st, items, after)
  <2> HIDE DEF after
  <2> QED
    BY <1>3 DEF ScanTo
<1> HIDE DEF after
<1> DEFINE G == {k \in Nat : k <= MaxSeeds => ScanOK(after[k], blind)}
<1>6. 0 \in G
  <2>1. after[0] = ScanStart(st, items)
    BY <1>1, <1>5 DEF ScanTo
  <2>2. IsScan(ScanStart(st, items)) /\ ScanStart(st, items).queue = st.queue /\ ScanStart(st, items).blind = st.blind
    BY DEF ScanStart, ScanOK, IsScan, ScanFields
  <2> QED
    BY <2>1, <2>2 DEF ScanOK
<1>7. ASSUME NEW k \in Nat, k \in G
      PROVE  k + 1 \in G
  <2> SUFFICES ASSUME k + 1 <= MaxSeeds
               PROVE  ScanOK(after[k + 1], blind)
    OBVIOUS
  <2>1. k + 1 \in 0..MaxSeeds /\ k + 1 # 0 /\ (k + 1) - 1 = k /\ k <= MaxSeeds
    BY <1>1
  <2>2. ScanOK(after[k], blind)
    BY <1>7, <2>1
  <2>3. after[k + 1] = IF k + 1 \in DOMAIN items THEN ScanItem(after[k], k + 1) ELSE after[k]
    BY <1>5, <2>1 DEF ScanTo
  <2> QED
    BY <2>2, <2>3, ScanItemKeeps
<1> HIDE DEF G
<1>8. MaxSeeds \in G
  BY <1>1, <1>6, <1>7, Induction
<1>9. ScanOK(after[MaxSeeds], blind)
  BY <1>1, <1>8 DEF G
<1> DEFINE done == after[MaxSeeds]
           batches == Append(done.batches, done.upd)
<1>10. ScanBatch(st, items) = [done EXCEPT !.batches = batches] /\ ScanOK(done, blind)
  BY <1>4, <1>9
<1> HIDE DEF done, batches
<1> QED
  BY <1>10 DEF ScanOK, IsScan, ScanFields

(* The recursion over the batches. *)
ScansTo(n, st, batches, f) ==
  \A i \in 0..n : f[i] = IF i = 0 THEN st ELSE ScanBatch(f[i - 1], batches[i])

LEMMA ScansAreDefined ==
  ASSUME NEW st, NEW batches
  PROVE  \A n \in Nat : \E f : ScansTo(n, st, batches, f)
<1> DEFINE G == {n \in Nat : \E f : ScansTo(n, st, batches, f)}
<1>1. 0 \in G
  <2>1. ScansTo(0, st, batches, [i \in {0} |-> st])
    BY DEF ScansTo
  <2> QED
    BY <2>1
<1>2. ASSUME NEW k \in Nat, k \in G
      PROVE  k + 1 \in G
  <2>1. PICK f : ScansTo(k, st, batches, f)
    BY <1>2
  <2> DEFINE last == ScanBatch(f[k], batches[(k + 1)])
             g == [i \in 0..(k + 1) |-> IF i = k + 1 THEN last ELSE f[i]]
  <2>2. g[k + 1] = last /\ \A i \in 0..k : g[i] = f[i]
    OBVIOUS
  <2> HIDE DEF g
  <2>3. ScansTo(k + 1, st, batches, g)
    <3> SUFFICES ASSUME NEW i \in 0..(k + 1)
                 PROVE  g[i] = IF i = 0 THEN st ELSE ScanBatch(g[i - 1], batches[i])
      BY DEF ScansTo
    <3>1. CASE i = k + 1
      <4>1. i # 0 /\ i - 1 = k /\ k \in 0..k
        BY <3>1
      <4>2. g[i - 1] = f[k]
        BY <2>2, <4>1
      <4> QED
        BY <2>2, <3>1, <4>1, <4>2
    <3>2. CASE i \in 0..k /\ i # 0
      <4>1. i - 1 \in 0..k
        BY <3>2
      <4>2. g[i] = f[i] /\ g[i - 1] = f[i - 1]
        BY <2>2, <3>2, <4>1
      <4> QED
        BY <2>1, <3>2, <4>2 DEF ScansTo
    <3>3. CASE i = 0
      BY <2>1, <2>2, <3>3 DEF ScansTo
    <3> QED
      BY <3>1, <3>2, <3>3
  <2> QED
    BY <2>3
<1> HIDE DEF G
<1>3. \A n \in Nat : n \in G
  BY <1>1, <1>2, Induction
<1> QED
  BY <1>3 DEF G

LEMMA ScanBatchesKeeps ==
  ASSUME NEW st, NEW blind \in BOOLEAN, ScanOK(st, blind), NEW batches, Len(batches) \in Nat
  PROVE  ScanOK(ScanBatches(st, batches), blind)
<1> DEFINE n == Len(batches)
<1>1. n \in Nat
  OBVIOUS
<1>0. ScanBatches(st, batches) =
        LET after[i \in 0..n] == IF i = 0 THEN st ELSE ScanBatch(after[i - 1], batches[i]) IN after[n]
  BY DEF ScanBatches
<1> HIDE DEF n
<1> DEFINE After(f) == [i \in 0..n |-> IF i = 0 THEN st ELSE ScanBatch(f[i - 1], batches[i])]
           after == CHOOSE f : f = After(f)
<1>2. \E f : f = After(f)
  <2>1. PICK f : ScansTo(n, st, batches, f)
    BY <1>1, ScansAreDefined
  <2> DEFINE g == [i \in 0..n |-> f[i]]
  <2>2. \A i \in 0..n : i # 0 => g[i - 1] = f[i - 1]
    BY <1>1
  <2>3. \A i \in 0..n : f[i] = IF i = 0 THEN st ELSE ScanBatch(g[i - 1], batches[i])
    BY <2>1, <2>2 DEF ScansTo
  <2>4. g = After(g)
    BY <2>3
  <2> QED
    BY <2>4
<1>3. after = After(after)
  BY <1>2
<1>4. ScanBatches(st, batches) = after[n]
  BY <1>0
<1>5. ScansTo(n, st, batches, after)
  <2> HIDE DEF after
  <2> QED
    BY <1>3 DEF ScansTo
<1> HIDE DEF after
<1> DEFINE G == {k \in Nat : k <= n => ScanOK(after[k], blind)}
<1>6. 0 \in G
  <2>1. after[0] = st
    BY <1>1, <1>5 DEF ScansTo
  <2> QED
    BY <2>1
<1>7. ASSUME NEW k \in Nat, k \in G
      PROVE  k + 1 \in G
  <2> SUFFICES ASSUME k + 1 <= n
               PROVE  ScanOK(after[k + 1], blind)
    OBVIOUS
  <2>1. k + 1 \in 0..n /\ k + 1 # 0 /\ (k + 1) - 1 = k /\ k <= n
    BY <1>1
  <2>2. ScanOK(after[k], blind)
    BY <1>7, <2>1
  <2>3. after[k + 1] = ScanBatch(after[k], batches[k + 1])
    BY <1>5, <2>1 DEF ScansTo
  <2> QED
    BY <2>2, <2>3, ScanBatchKeeps
<1> HIDE DEF G
<1>8. n \in G
  BY <1>1, <1>6, <1>7, Induction
<1>9. ScanOK(after[n], blind)
  BY <1>1, <1>8 DEF G
<1> QED
  BY <1>4, <1>9

LEMMA BatchesAreTuples ==
  ASSUME NEW prof, NEW sec
  PROVE  Len(Batches(prof, sec)) \in {3, 5}
BY DEF Batches

(* Filling the room that is left: what is in the queue and what may still  *)
(* be submitted is within the limit.                                       *)
FillOK(st, from) ==
  /\ IsScan(st) /\ st.blind = from.blind /\ st.snap = from.snap
  /\ IsFiniteSet(st.queue) /\ st.room \in Nat
  /\ Cardinality(RendersIn(st.queue)) + st.room <= Limit
  /\ ~st.submitted => st.queue = from.queue

LEMMA SubmitIfRoomKeeps ==
  ASSUME NEW st, NEW from, FillOK(st, from), NEW i
  PROVE  FillOK(SubmitIfRoom(st, i), from)
<1>1. CASE SubmitIfRoom(st, i) = st
  BY <1>1
<1>2. CASE SubmitIfRoom(st, i) = [st EXCEPT !.dirty = TRUE]
  BY <1>2 DEF FillOK, IsScan, ScanFields
<1>3. CASE SubmitIfRoom(st, i) = Submit(st, i) /\ st.room > 0
  <2> DEFINE e == RenderOf(st, i)
             r == Submit(st, i)
  <2>1. IsScan(st) /\ IsFiniteSet(st.queue) /\ st.room \in Nat
    BY DEF FillOK
  <2>2. /\ IsScan(r) /\ r.queue = st.queue \cup {e} /\ r.room = st.room - 1 /\ r.submitted = TRUE
        /\ r.snap = st.snap /\ r.blind = st.blind
    BY <2>1, SubmitAdds
  <2> HIDE DEF e, r
  <2> DEFINE q == st.queue \cup {e}
  <2>3. /\ IsFiniteSet(q) /\ Cardinality(RendersIn(st.queue)) \in Nat
        /\ Cardinality(RendersIn(q)) \in Nat
        /\ Cardinality(RendersIn(q)) <= Cardinality(RendersIn(st.queue)) + 1
    BY <2>1, RendersCounted
  <2> HIDE DEF q
  <2>6. r.queue = q
    BY <2>2 DEF q
  <2>4. r.room \in Nat /\ Cardinality(RendersIn(r.queue)) + r.room <= Limit
    <3>1. r.room \in Nat /\ r.room + 1 = st.room
      BY <1>3, <2>1, <2>2
    <3>2. Cardinality(RendersIn(st.queue)) + st.room <= Limit
      BY DEF FillOK
    <3>3. Cardinality(RendersIn(q)) + r.room <= Limit
      BY <2>1, <2>3, <3>1, <3>2, BatchesAssumption
    <3> QED
      BY <2>6, <3>1, <3>3
  <2>5. FillOK(r, from)
    BY <2>2, <2>3, <2>4, <2>6 DEF FillOK
  <2> QED
    BY <1>3, <2>5 DEF r
<1> QED
  BY <1>1, <1>2, <1>3 DEF SubmitIfRoom

FillTo(n, st, f) ==
  \A i \in 0..n : f[i] = IF i = 0 THEN st ELSE SubmitIfRoom(f[i - 1], i)

LEMMA FillIsDefined ==
  ASSUME NEW st
  PROVE  \A n \in Nat : \E f : FillTo(n, st, f)
<1> DEFINE G == {n \in Nat : \E f : FillTo(n, st, f)}
<1>1. 0 \in G
  <2>1. FillTo(0, st, [i \in {0} |-> st])
    BY DEF FillTo
  <2> QED
    BY <2>1
<1>2. ASSUME NEW k \in Nat, k \in G
      PROVE  k + 1 \in G
  <2>1. PICK f : FillTo(k, st, f)
    BY <1>2
  <2> DEFINE last == SubmitIfRoom(f[k], (k + 1))
             g == [i \in 0..(k + 1) |-> IF i = k + 1 THEN last ELSE f[i]]
  <2>2. g[k + 1] = last /\ \A i \in 0..k : g[i] = f[i]
    OBVIOUS
  <2> HIDE DEF g
  <2>3. FillTo(k + 1, st, g)
    <3> SUFFICES ASSUME NEW i \in 0..(k + 1)
                 PROVE  g[i] = IF i = 0 THEN st ELSE SubmitIfRoom(g[i - 1], i)
      BY DEF FillTo
    <3>1. CASE i = k + 1
      <4>1. i # 0 /\ i - 1 = k /\ k \in 0..k
        BY <3>1
      <4>2. g[i - 1] = f[k]
        BY <2>2, <4>1
      <4> QED
        BY <2>2, <3>1, <4>1, <4>2
    <3>2. CASE i \in 0..k /\ i # 0
      <4>1. i - 1 \in 0..k
        BY <3>2
      <4>2. g[i] = f[i] /\ g[i - 1] = f[i - 1]
        BY <2>2, <3>2, <4>1
      <4> QED
        BY <2>1, <3>2, <4>2 DEF FillTo
    <3>3. CASE i = 0
      BY <2>1, <2>2, <3>3 DEF FillTo
    <3> QED
      BY <3>1, <3>2, <3>3
  <2> QED
    BY <2>3
<1> HIDE DEF G
<1>3. \A n \in Nat : n \in G
  BY <1>1, <1>2, Induction
<1> QED
  BY <1>3 DEF G

LEMMA SubmitWaitingKeeps ==
  ASSUME NEW st, NEW from, FillOK(st, from)
  PROVE  FillOK(SubmitWaiting(st), from)
<1>1. MaxSeeds \in Nat
  BY BatchesAssumption
<1> DEFINE After(f) == [i \in 0..MaxSeeds |-> IF i = 0 THEN st ELSE SubmitIfRoom(f[i - 1], i)]
           after == CHOOSE f : f = After(f)
<1>2. \E f : f = After(f)
  <2>1. PICK f : FillTo(MaxSeeds, st, f)
    BY <1>1, FillIsDefined
  <2> DEFINE g == [i \in 0..MaxSeeds |-> f[i]]
  <2>2. \A i \in 0..MaxSeeds : i # 0 => g[i - 1] = f[i - 1]
    BY <1>1
  <2>3. \A i \in 0..MaxSeeds : f[i] = IF i = 0 THEN st ELSE SubmitIfRoom(g[i - 1], i)
    BY <2>1, <2>2 DEF FillTo
  <2>4. g = After(g)
    BY <2>3
  <2> QED
    BY <2>4
<1>3. after = After(after)
  BY <1>2
<1>4. SubmitWaiting(st) = after[MaxSeeds]
  BY DEF SubmitWaiting
<1>5. FillTo(MaxSeeds, st, after)
  <2> HIDE DEF after
  <2> QED
    BY <1>3 DEF FillTo
<1> HIDE DEF after
<1> DEFINE G == {k \in Nat : k <= MaxSeeds => FillOK(after[k], from)}
<1>6. 0 \in G
  <2>1. after[0] = st
    BY <1>1, <1>5 DEF FillTo
  <2> QED
    BY <2>1
<1>7. ASSUME NEW k \in Nat, k \in G
      PROVE  k + 1 \in G
  <2> SUFFICES ASSUME k + 1 <= MaxSeeds
               PROVE  FillOK(after[k + 1], from)
    OBVIOUS
  <2>1. k + 1 \in 0..MaxSeeds /\ k + 1 # 0 /\ (k + 1) - 1 = k /\ k <= MaxSeeds
    BY <1>1
  <2>2. FillOK(after[k], from)
    BY <1>7, <2>1
  <2>3. after[k + 1] = SubmitIfRoom(after[k], k + 1)
    BY <1>5, <2>1 DEF FillTo
  <2> QED
    BY <2>2, <2>3, SubmitIfRoomKeeps
<1> HIDE DEF G
<1>8. MaxSeeds \in G
  BY <1>1, <1>6, <1>7, Induction
<1>9. FillOK(after[MaxSeeds], from)
  BY <1>1, <1>8 DEF G
<1> QED
  BY <1>4, <1>9

(* A dispatch of the batches: what they have in the queue was there when   *)
(* the queue was looked at, until a batch submits.                         *)
DispatchOK(st) ==
  /\ IsScan(st) /\ IsFiniteSet(st.queue) /\ IsFiniteSet(st.snap.queue)
  /\ Cardinality(RendersIn(st.queue)) <= Limit
  /\ ~st.submitted => RendersIn(st.queue) \subseteq st.snap.queue

LEMMA DispatchBatchKeeps ==
  ASSUME NEW st, DispatchOK(st), NEW items
  PROVE  DispatchOK(DispatchBatch(st, items))
<1> DEFINE recovered == [i \in DOMAIN items |-> Requeued(st, items[i])]
           changed == st.dirty \/ recovered # items
           st1 == [st EXCEPT !.prev = recovered, !.room = Room(st.snap), !.dirty = changed]
           st2 == SubmitWaiting(st1)
<1>1. \/ DispatchBatch(st, items) = [st EXCEPT !.prev = items]
      \/ DispatchBatch(st, items) = st1
      \/ DispatchBatch(st, items) = st2 /\ ~st.submitted
  BY Zenon DEF DispatchBatch
<1> HIDE DEF recovered, changed
<1>2. /\ IsScan(st1) /\ st1.queue = st.queue /\ st1.snap = st.snap /\ st1.submitted = st.submitted
      /\ st1.room = Room(st.snap)
  BY DEF DispatchOK, IsScan, ScanFields
<1> HIDE DEF st1
<1>3. CASE DispatchBatch(st, items) = [st EXCEPT !.prev = items]
  BY <1>3 DEF DispatchOK, IsScan, ScanFields
<1>4. CASE DispatchBatch(st, items) = st1
  BY <1>2, <1>4 DEF DispatchOK
<1>5. CASE DispatchBatch(st, items) = st2 /\ ~st.submitted
  <2>1. /\ IsFiniteSet(st.queue) /\ IsFiniteSet(st.snap.queue)
        /\ Cardinality(RendersIn(st.queue)) <= Limit /\ RendersIn(st.queue) \subseteq st.snap.queue
    BY <1>5 DEF DispatchOK
  <2>2. /\ Cardinality(RendersIn(st.queue)) \in Nat /\ Cardinality(st.snap.queue) \in Nat
        /\ Cardinality(RendersIn(st.queue)) <= Cardinality(st.snap.queue)
    <3>1. RendersIn(st.queue) \subseteq st.queue
      BY DEF RendersIn
    <3> QED
      BY <2>1, <3>1, FS_Subset, FS_CardinalityType
  <2>3. Room(st.snap) \in Nat /\ Cardinality(RendersIn(st.queue)) + Room(st.snap) <= Limit
    BY <2>1, <2>2, BatchesAssumption DEF Room
  <2>4. FillOK(st1, st1)
    BY <1>2, <2>1, <2>3 DEF FillOK
  <2>5. FillOK(st2, st1)
    BY <2>4, SubmitWaitingKeeps
  <2> HIDE DEF st2
  <2>6. Cardinality(RendersIn(st2.queue)) <= Limit
    <3>1. RendersIn(st2.queue) \subseteq st2.queue
      BY DEF RendersIn
    <3>2. Cardinality(RendersIn(st2.queue)) \in Nat
      BY <2>5, <3>1, FS_Subset, FS_CardinalityType DEF FillOK
    <3> QED
      BY <2>5, <3>2, BatchesAssumption DEF FillOK
  <2> QED
    BY <1>2, <1>5, <2>1, <2>5, <2>6 DEF FillOK, DispatchOK
<1> QED
  BY <1>1, <1>3, <1>4, <1>5

LEMMA DispatchNextKeeps ==
  ASSUME NEW st, DispatchOK(st), NEW items
  PROVE  DispatchOK(DispatchNext(st, items))
<1> DEFINE again == [st EXCEPT !.submitted = FALSE, !.snap = Snapshot(st.queue, FALSE)]
           ready == IF st.torso /\ st.submitted THEN again ELSE st
           done == DispatchBatch(ready, items)
           batches == Append(done.batches, done.prev)
<1>1. DispatchOK(again)
  <2>1. Snapshot(st.queue, FALSE).queue = st.queue
    BY DEF Snapshot
  <2>2. RendersIn(st.queue) \subseteq st.queue
    BY DEF RendersIn
  <2>3. IsScan(again) /\ again.queue = st.queue /\ again.snap.queue = st.queue
    BY <2>1 DEF DispatchOK, IsScan, ScanFields
  <2> HIDE DEF again
  <2> QED
    BY <2>2, <2>3 DEF DispatchOK
<1>2. DispatchOK(ready)
  BY <1>1
<1> HIDE DEF ready
<1>3. DispatchOK(done)
  BY <1>2, DispatchBatchKeeps
<1>4. DispatchNext(st, items) = [done EXCEPT !.batches = batches]
  BY Zenon DEF DispatchNext, ready
<1> HIDE DEF done, batches
<1> QED
  BY <1>3, <1>4 DEF DispatchOK, IsScan, ScanFields

DispatchesTo(n, st, batches, f) ==
  \A i \in 0..n : f[i] = IF i = 0 THEN [st EXCEPT !.batches = <<batches[1]>>] ELSE DispatchNext(f[i - 1], batches[i + 1])

LEMMA DispatchesAreDefined ==
  ASSUME NEW st, NEW batches
  PROVE  \A n \in Nat : \E f : DispatchesTo(n, st, batches, f)
<1> DEFINE G == {n \in Nat : \E f : DispatchesTo(n, st, batches, f)}
<1>1. 0 \in G
  <2>1. DispatchesTo(0, st, batches, [i \in {0} |-> [st EXCEPT !.batches = <<batches[1]>>]])
    BY DEF DispatchesTo
  <2> QED
    BY <2>1
<1>2. ASSUME NEW k \in Nat, k \in G
      PROVE  k + 1 \in G
  <2>1. PICK f : DispatchesTo(k, st, batches, f)
    BY <1>2
  <2> DEFINE last == DispatchNext(f[k], batches[(k + 1) + 1])
             g == [i \in 0..(k + 1) |-> IF i = k + 1 THEN last ELSE f[i]]
  <2>2. g[k + 1] = last /\ \A i \in 0..k : g[i] = f[i]
    OBVIOUS
  <2> HIDE DEF g
  <2>3. DispatchesTo(k + 1, st, batches, g)
    <3> SUFFICES ASSUME NEW i \in 0..(k + 1)
                 PROVE  g[i] = IF i = 0 THEN [st EXCEPT !.batches = <<batches[1]>>] ELSE DispatchNext(g[i - 1], batches[i + 1])
      BY DEF DispatchesTo
    <3>1. CASE i = k + 1
      <4>1. i # 0 /\ i - 1 = k /\ k \in 0..k
        BY <3>1
      <4>2. g[i - 1] = f[k]
        BY <2>2, <4>1
      <4> QED
        BY <2>2, <3>1, <4>1, <4>2
    <3>2. CASE i \in 0..k /\ i # 0
      <4>1. i - 1 \in 0..k
        BY <3>2
      <4>2. g[i] = f[i] /\ g[i - 1] = f[i - 1]
        BY <2>2, <3>2, <4>1
      <4> QED
        BY <2>1, <3>2, <4>2 DEF DispatchesTo
    <3>3. CASE i = 0
      BY <2>1, <2>2, <3>3 DEF DispatchesTo
    <3> QED
      BY <3>1, <3>2, <3>3
  <2> QED
    BY <2>3
<1> HIDE DEF G
<1>3. \A n \in Nat : n \in G
  BY <1>1, <1>2, Induction
<1> QED
  BY <1>3 DEF G

LEMMA DispatchBatchesKeeps ==
  ASSUME NEW st, DispatchOK(st), NEW batches, Len(batches) \in Nat \ {0}
  PROVE  DispatchOK(DispatchBatches(st, batches))
<1> DEFINE n == Len(batches) - 1
<1>1. n \in Nat
  OBVIOUS
<1>0. DispatchBatches(st, batches) =
        LET after[i \in 0..n] == IF i = 0 THEN [st EXCEPT !.batches = <<batches[1]>>]
                                 ELSE DispatchNext(after[i - 1], batches[i + 1])
        IN  after[n]
  BY DEF DispatchBatches
<1> HIDE DEF n
<1> DEFINE After(f) == [i \in 0..n |-> IF i = 0 THEN [st EXCEPT !.batches = <<batches[1]>>] ELSE DispatchNext(f[i - 1], batches[i + 1])]
           after == CHOOSE f : f = After(f)
<1>2. \E f : f = After(f)
  <2>1. PICK f : DispatchesTo(n, st, batches, f)
    BY <1>1, DispatchesAreDefined
  <2> DEFINE g == [i \in 0..n |-> f[i]]
  <2>2. \A i \in 0..n : i # 0 => g[i - 1] = f[i - 1]
    BY <1>1
  <2>3. \A i \in 0..n : f[i] = IF i = 0 THEN [st EXCEPT !.batches = <<batches[1]>>] ELSE DispatchNext(g[i - 1], batches[i + 1])
    BY <2>1, <2>2 DEF DispatchesTo
  <2>4. g = After(g)
    BY <2>3
  <2> QED
    BY <2>4
<1>3. after = After(after)
  BY <1>2
<1>4. DispatchBatches(st, batches) = after[n]
  BY <1>0
<1>5. DispatchesTo(n, st, batches, after)
  <2> HIDE DEF after
  <2> QED
    BY <1>3 DEF DispatchesTo
<1> HIDE DEF after
<1> DEFINE G == {k \in Nat : k <= n => DispatchOK(after[k])}
<1>6. 0 \in G
  <2>1. after[0] = [st EXCEPT !.batches = <<batches[1]>>]
    BY <1>1, <1>5 DEF DispatchesTo
  <2> QED
    BY <2>1 DEF DispatchOK, IsScan, ScanFields
<1>7. ASSUME NEW k \in Nat, k \in G
      PROVE  k + 1 \in G
  <2> SUFFICES ASSUME k + 1 <= n
               PROVE  DispatchOK(after[k + 1])
    OBVIOUS
  <2>1. k + 1 \in 0..n /\ k + 1 # 0 /\ (k + 1) - 1 = k /\ k <= n
    BY <1>1
  <2>2. DispatchOK(after[k])
    BY <1>7, <2>1
  <2>3. after[k + 1] = DispatchNext(after[k], batches[k + 2])
    BY <1>5, <2>1 DEF DispatchesTo
  <2> QED
    BY <2>2, <2>3, DispatchNextKeeps
<1> HIDE DEF G
<1>8. n \in G
  BY <1>1, <1>6, <1>7, Induction
<1>9. DispatchOK(after[n])
  BY <1>1, <1>8 DEF G
<1> QED
  BY <1>4, <1>9

(* The queue, the lock and the workers. *)
IsComfy(c) == c = [up |-> c.up, queue |-> c.queue, outputs |-> c.outputs, cut |-> c.cut]
WorkerFields == {"pc", "section", "copy", "dirty", "snap", "able"}
IsWorker(r) == r = [x \in WorkerFields |-> r[x]]
Holding == {"scan", "look", "dispatch", "records", "vision", "write"}

(* A refresh holds the lock from its first scan to its last write-back. *)
LockHeld ==
  /\ worker = [w \in Workers |-> worker[w]]
  /\ \A w \in Workers : IsWorker(worker[w]) /\ (worker[w].pc \in Holding => lock = w)

(* What the batches have in the queue is within the limit, and was there   *)
(* when the refresh that submits looked at the queue.                      *)
QueueOK ==
  /\ IsFiniteSet(comfy.queue) /\ Cardinality(RendersIn(comfy.queue)) <= Limit
  /\ \A w \in Workers : worker[w].pc = "dispatch" =>
       IsFiniteSet(worker[w].snap.queue) /\ RendersIn(comfy.queue) \subseteq worker[w].snap.queue

BatchesInv == IsComfy(comfy) /\ LockHeld /\ (blinds # "was" => QueueOK)

(* Steps of a worker that does not hold the lock, of a handler and of      *)
(* ComfyUI, which add no image of the batches.                             *)
LEMMA QuietKeeps ==
  ASSUME BatchesInv, NEW w \in Workers, NEW r, IsWorker(r), r.pc \notin Holding,
         worker' = worker \/ worker' = [worker EXCEPT ![w] = r],
         UNCHANGED <<lock, blinds>>, IsComfy(comfy'),
         IsFiniteSet(comfy.queue) => IsFiniteSet(comfy'.queue),
         RendersIn(comfy'.queue) \subseteq comfy.queue
  PROVE  BatchesInv'
<1>1. \A x \in Workers : worker'[x] = worker[x] \/ (x = w /\ worker'[x] = r)
  BY DEF BatchesInv, LockHeld
<1>2. worker' = [x \in Workers |-> worker'[x]]
  BY DEF BatchesInv, LockHeld
<1>3. LockHeld'
  BY <1>1, <1>2 DEF BatchesInv, LockHeld
<1>4. ASSUME blinds # "was"
      PROVE  QueueOK'
  <2>1. QueueOK
    BY <1>4 DEF BatchesInv
  <2>2. RendersIn(comfy'.queue) \subseteq RendersIn(comfy.queue)
    BY DEF RendersIn
  <2>3. IsFiniteSet(comfy'.queue) /\ IsFiniteSet(comfy.queue)
    BY <2>1 DEF QueueOK
  <2>4. /\ Cardinality(RendersIn(comfy'.queue)) <= Cardinality(RendersIn(comfy.queue))
        /\ Cardinality(RendersIn(comfy'.queue)) \in Nat /\ Cardinality(RendersIn(comfy.queue)) \in Nat
    BY <2>3, FewerRenders
  <2>5. Cardinality(RendersIn(comfy'.queue)) <= Limit
    BY <2>1, <2>4, BatchesAssumption DEF QueueOK
  <2>6. \A x \in Workers : worker'[x].pc = "dispatch" => worker'[x] = worker[x]
    BY <1>1 DEF Holding
  <2> QED
    BY <2>1, <2>2, <2>3, <2>5, <2>6 DEF QueueOK
<1> QED
  BY <1>3, <1>4 DEF BatchesInv

(* Steps of the refresh that holds the lock. *)
LEMMA HolderKeeps ==
  ASSUME BatchesInv, NEW w \in Workers, \A x \in Workers \ {w} : worker[x].pc \notin Holding,
         NEW r, IsWorker(r), worker' = [worker EXCEPT ![w] = r],
         r.pc \in Holding => lock' = w, IsComfy(comfy'),
         blinds' # "was" =>
           /\ IsFiniteSet(comfy'.queue) /\ Cardinality(RendersIn(comfy'.queue)) <= Limit
           /\ r.pc = "dispatch" => IsFiniteSet(r.snap.queue) /\ RendersIn(comfy'.queue) \subseteq r.snap.queue
  PROVE  BatchesInv'
<1>1. worker'[w] = r /\ \A x \in Workers \ {w} : worker'[x] = worker[x]
  BY DEF BatchesInv, LockHeld
<1>2. worker' = [x \in Workers |-> worker'[x]]
  BY DEF BatchesInv, LockHeld
<1>3. LockHeld'
  BY <1>1, <1>2 DEF BatchesInv, LockHeld
<1>4. blinds' # "was" => QueueOK'
  BY <1>1 DEF QueueOK, Holding
<1> QED
  BY <1>3, <1>4 DEF BatchesInv

LEMMA HolderIsAlone ==
  ASSUME BatchesInv, NEW w \in Workers, worker[w].pc \in Holding
  PROVE  lock = w /\ IsWorker(worker[w]) /\ \A x \in Workers \ {w} : worker[x].pc \notin Holding
BY DEF BatchesInv, LockHeld

(* What is added to a queue. *)
LEMMA CutoutsAreFinite ==
  ASSUME NEW S, S \subseteq Seeds
  PROVE  IsFiniteSet(CutoutEntries(S)) /\ RendersIn(CutoutEntries(S)) = {}
<1>1. IsFiniteSet(S)
  <2>1. MaxSeeds \in Int /\ 1 \in Int
    BY BatchesAssumption
  <2>2. IsFiniteSet(1..MaxSeeds)
    BY <2>1, FS_Interval
  <2> QED
    BY <2>2, FS_Subset DEF Seeds
<1>2. IsFiniteSet(CutoutEntries(S))
  <2> DEFINE E == CutoutEntries(S)
             f == [s \in S |-> [prompt |-> NoPrompt, seed |-> s, what |-> "cutout"]]
  <2>1. f \in Surjection(S, E)
    BY DEF Surjection, CutoutEntries
  <2> HIDE DEF E, f
  <2>2. IsFiniteSet(E)
    BY <1>1, <2>1, FS_Surjection
  <2> QED
    BY <2>2 DEF E
<1>3. RendersIn(CutoutEntries(S)) = {}
  BY DEF RendersIn, CutoutEntries
<1> QED
  BY <1>2, <1>3

LEMMA NoMoreRenders ==
  ASSUME NEW q, NEW more, IsFiniteSet(more), RendersIn(more) = {}
  PROVE  /\ IsFiniteSet(q) => IsFiniteSet(q \cup more)
         /\ RendersIn(q \cup more) \subseteq q
<1>1. IsFiniteSet(q) => IsFiniteSet(q \cup more)
  BY FS_Union
<1>2. RendersIn(q \cup more) \subseteq q
  BY DEF RendersIn
<1> QED
  BY <1>1, <1>2

(* What handlers and ComfyUI leave of the queue. *)
NoRenderAdded ==
  /\ IsComfy(comfy')
  /\ IsFiniteSet(comfy.queue) => IsFiniteSet(comfy'.queue)
  /\ RendersIn(comfy'.queue) \subseteq comfy.queue

LEMMA SameQueue ==
  ASSUME BatchesInv, IsComfy(comfy'), comfy'.queue \subseteq comfy.queue
  PROVE  NoRenderAdded
BY FS_Subset DEF NoRenderAdded, RendersIn

LEMMA QueueGrows ==
  ASSUME BatchesInv, NEW more, IsFiniteSet(more), RendersIn(more) = {}, NEW gone,
         comfy' = [comfy EXCEPT !.queue = @ \cup more] \/ comfy' = [comfy EXCEPT !.queue = @ \cup more, !.cut = gone]
  PROVE  NoRenderAdded
<1>1. IsComfy(comfy') /\ comfy'.queue = comfy.queue \cup more
  BY DEF BatchesInv, IsComfy
<1> QED
  BY <1>1, NoMoreRenders DEF NoRenderAdded

(* A handler only hands its answer to a refresh. *)
Quiet ==
  /\ UNCHANGED <<lock, blinds>> /\ NoRenderAdded
  /\ \/ worker' = worker
     \/ worker' = [worker EXCEPT !["loop"].pc = "payload"]
     \/ worker' = [worker EXCEPT !["pool"].pc = "payload"]

LEMMA PlainHandler ==
  ASSUME BatchesInv, UNCHANGED <<lock, blinds, comfy>>,
         \/ worker' = worker
         \/ worker' = [worker EXCEPT !["loop"].pc = "payload"]
         \/ worker' = [worker EXCEPT !["pool"].pc = "payload"]
  PROVE  Quiet
BY SameQueue DEF Quiet, BatchesInv

LEMMA QuietIsKept ==
  ASSUME BatchesInv, Quiet
  PROVE  BatchesInv'
<1>1. ASSUME NEW w \in Workers, worker' = [worker EXCEPT ![w].pc = "payload"]
      PROVE  BatchesInv'
  <2> DEFINE r == [worker[w] EXCEPT !.pc = "payload"]
  <2>1. IsWorker(r) /\ r.pc \notin Holding
    BY DEF BatchesInv, LockHeld, IsWorker, WorkerFields, Holding
  <2>2. worker' = [worker EXCEPT ![w] = r]
    BY <1>1
  <2> HIDE DEF r
  <2> QED
    BY <2>1, <2>2, QuietKeeps DEF Quiet, NoRenderAdded
<1>2. CASE worker' = worker
  <2> DEFINE r == IdleWorker
  <2>1. IsWorker(r) /\ r.pc \notin Holding
    BY DEF IdleWorker, IsWorker, WorkerFields, Holding
  <2> HIDE DEF r
  <2>2. "loop" \in Workers
    BY DEF Workers
  <2> QED
    BY <1>2, <2>1, <2>2, QuietKeeps DEF Quiet, NoRenderAdded
<1> QED
  BY <1>1, <1>2 DEF Quiet, Workers

LEMMA PreviewKeeps ==
  ASSUME BatchesInv, NEW sec, PreviewResumes(sec)
  PROVE  Quiet
<1> DEFINE more == {[prompt |-> FreshPrompt(comfy.queue), seed |-> drawn + 1, what |-> "preview"]}
<1>1. IsFiniteSet(more) /\ RendersIn(more) = {}
  <2>1. IsFiniteSet(more)
    BY FS_Singleton
  <2>2. RendersIn(more) = {}
    BY DEF RendersIn
  <2> QED
    BY <2>1, <2>2
<1>2. comfy' = [comfy EXCEPT !.queue = @ \cup more]
  BY DEF PreviewResumes
<1>3. UNCHANGED <<lock, blinds>> /\ worker' = [worker EXCEPT !["loop"].pc = "payload"]
  BY DEF PreviewResumes, Answer
<1> HIDE DEF more
<1> QED
  BY <1>1, <1>2, <1>3, QueueGrows DEF Quiet

LEMMA NextPoseKeeps ==
  ASSUME BatchesInv, NEW accepts, NextPose(accepts)
  PROVE  Quiet
<1>1. PICK records : comfy' = [comfy EXCEPT !.queue = @ \cup CutoutEntries(SeedsWith("submitted", records))]
  BY DEF NextPose
<1> DEFINE more == CutoutEntries(SeedsWith("submitted", records))
<1>2. IsFiniteSet(more) /\ RendersIn(more) = {}
  BY CutoutsAreFinite DEF SeedsWith
<1>3. UNCHANGED <<lock, blinds>> /\ worker' = [worker EXCEPT !["loop"].pc = "payload"]
  BY DEF NextPose, Answer
<1>4. comfy' = [comfy EXCEPT !.queue = @ \cup more]
  BY <1>1
<1> HIDE DEF more
<1> QED
  BY <1>2, <1>3, <1>4, QueueGrows DEF Quiet

LEMMA HandlersKeep ==
  ASSUME BatchesInv, Handlers
  PROVE  BatchesInv'
<1>1. CASE GetProfile
  BY <1>1, PlainHandler, QuietIsKept DEF GetProfile
<1>2. ASSUME NEW mode, NEW keep, NEW replaced, NEW anchored, NEW choice,
             SeedBatch(mode, keep, replaced, anchored, choice)
      PROVE  BatchesInv'
  BY <1>2, PlainHandler, QuietIsKept DEF SeedBatch, Answer
<1>3. ASSUME NEW ok, NEW no, NEW preserve, NEW save, JitterBatch(ok, no, preserve, save)
      PROVE  BatchesInv'
  BY <1>3, PlainHandler, QuietIsKept DEF JitterBatch, Answer
<1>4. ASSUME NEW p, Generate(p) \/ GenerateAwaits(p) \/ ResetPose(p) \/ RetryVision(p)
      PROVE  BatchesInv'
  BY <1>4, PlainHandler, QuietIsKept DEF Generate, GeneratePose, GenerateAwaits, ResetPose, RetryVision, Answer
<1>5. ASSUME NEW p, NEW i, NEW approve, ReviewItem(p, i, approve)
      PROVE  BatchesInv'
  BY <1>5, PlainHandler, QuietIsKept DEF ReviewItem, Answer
<1>6. ASSUME NEW accepts, NextPose(accepts)
      PROVE  BatchesInv'
  BY <1>6, NextPoseKeeps, QuietIsKept
<1>7. CASE GenerateResumes \/ ReviewResumes \/ TorsoGenerateResumes \/ StartFails
  BY <1>7, PlainHandler, QuietIsKept
     DEF GenerateResumes, GeneratePose, ReviewResumes, TorsoGenerateResumes, TorsoGenerates, StartFails, Answer
<1>8. CASE HeadEpochReview \/ TorsoEpochReview \/ HeadPreview \/ TorsoPreview
  BY <1>8, PlainHandler, QuietIsKept
     DEF HeadEpochReview, TorsoEpochReview, ReviewAwaits, HeadPreview, TorsoPreview, PreviewAwaits
<1>9. CASE HeadPreviewPosted \/ TorsoPreviewPosted
  BY <1>9, PreviewKeeps, QuietIsKept DEF HeadPreviewPosted, TorsoPreviewPosted
<1>10. ASSUME NEW i, HeadSelectReview(i) \/ TorsoSelectReview(i)
       PROVE  BatchesInv'
  BY <1>10, PlainHandler, QuietIsKept DEF HeadSelectReview, TorsoSelectReview, SelectReview, Answer
<1>11. CASE TorsoGenerate \/ TorsoGenerateAwaits \/ TorsoReset
  BY <1>11, PlainHandler, QuietIsKept DEF TorsoGenerate, TorsoGenerates, TorsoGenerateAwaits, TorsoReset, Answer
<1>12. ASSUME NEW i, NEW approve, TorsoReviewItem(i, approve)
       PROVE  BatchesInv'
  BY <1>12, PlainHandler, QuietIsKept DEF TorsoReviewItem, Answer
<1> QED
  BY <1>1, <1>2, <1>3, <1>4, <1>5, <1>6, <1>7, <1>8, <1>9, <1>10, <1>11, <1>12 DEF Handlers

LEMMA QueueShrinks ==
  ASSUME BatchesInv, ComfyRenders \/ ComfyStops \/ ComfyStarts
  PROVE  BatchesInv'
<1>1. UNCHANGED <<worker, lock, blinds>>
  BY DEF ComfyRenders, ComfyStops, ComfyStarts
<1>2. IsComfy(comfy') /\ comfy'.queue \subseteq comfy.queue
  BY DEF ComfyRenders, ComfyStops, ComfyStarts, BatchesInv, IsComfy
<1> QED
  BY <1>1, <1>2, SameQueue, QuietIsKept DEF Quiet

LEMMA ReadsKeep ==
  ASSUME BatchesInv, NEW w \in Workers, ThreadReads \/ PayloadReads(w)
  PROVE  BatchesInv'
<1> DEFINE r == [IdleWorker EXCEPT !.pc = "read", !.copy = profile]
<1>1. PICK x \in Workers : worker' = [worker EXCEPT ![x] = r]
  BY DEF ThreadReads, PayloadReads, Workers
<1>2. IsWorker(r) /\ r.pc \notin Holding
  <2>1. IsWorker(IdleWorker)
    BY DEF IdleWorker, IsWorker, WorkerFields
  <2> QED
    BY <2>1 DEF IsWorker, WorkerFields, Holding
<1>3. UNCHANGED <<lock, blinds, comfy>>
  BY DEF ThreadReads, PayloadReads
<1>4. NoRenderAdded
  BY <1>3, SameQueue DEF BatchesInv
<1> HIDE DEF r
<1> QED
  BY <1>1, <1>2, <1>3, <1>4, QuietKeeps DEF NoRenderAdded

(* The holder's other steps. *)
LEMMA HolderWithoutRenders ==
  ASSUME BatchesInv, NEW w \in Workers, \A x \in Workers \ {w} : worker[x].pc \notin Holding,
         NEW r, IsWorker(r), r.pc # "dispatch", worker' = [worker EXCEPT ![w] = r],
         r.pc \in Holding => lock' = w, blinds' = blinds, NoRenderAdded
  PROVE  BatchesInv'
<1>1. ASSUME blinds' # "was"
      PROVE  IsFiniteSet(comfy'.queue) /\ Cardinality(RendersIn(comfy'.queue)) <= Limit
  <2>1. QueueOK
    BY <1>1 DEF BatchesInv
  <2>2. IsFiniteSet(comfy'.queue) /\ IsFiniteSet(comfy.queue) /\ RendersIn(comfy'.queue) \subseteq comfy.queue
    BY <2>1 DEF QueueOK, NoRenderAdded
  <2>3. /\ Cardinality(RendersIn(comfy'.queue)) <= Cardinality(RendersIn(comfy.queue))
        /\ Cardinality(RendersIn(comfy'.queue)) \in Nat /\ Cardinality(RendersIn(comfy.queue)) \in Nat
    BY <2>2, FewerRenders
  <2> QED
    BY <2>1, <2>2, <2>3, BatchesAssumption DEF QueueOK
<1> QED
  BY <1>1, HolderKeeps DEF NoRenderAdded

(* The steps of a refresh. *)
LEMMA LockKeeps ==
  ASSUME BatchesInv, NEW w \in Workers, TakeLock(w)
  PROVE  BatchesInv'
<1>1. UNCHANGED <<comfy, blinds>>
  BY DEF TakeLock
<1>2. CASE lock = "none"
  <2> DEFINE r == [worker[w] EXCEPT !.pc = "scan", !.section = FirstSection(w)]
  <2>1. worker' = [worker EXCEPT ![w] = r] /\ lock' = w
    BY <1>2 DEF TakeLock
  <2>2. \A x \in Workers \ {w} : worker[x].pc \notin Holding
    BY <1>2 DEF BatchesInv, LockHeld, Workers
  <2>3. IsWorker(r) /\ r.pc = "scan"
    BY DEF BatchesInv, LockHeld, IsWorker, WorkerFields
  <2>4. IsComfy(comfy') /\ (blinds' # "was" => IsFiniteSet(comfy'.queue) /\ Cardinality(RendersIn(comfy'.queue)) <= Limit)
    BY <1>1 DEF BatchesInv, QueueOK
  <2> HIDE DEF r
  <2> QED
    BY <2>1, <2>2, <2>3, <2>4, HolderKeeps
<1>3. CASE lock # "none"
  <2>1. worker' = [worker EXCEPT ![w] = IdleWorker] /\ lock' = lock
    BY <1>3 DEF TakeLock
  <2>2. IsWorker(IdleWorker) /\ IdleWorker.pc \notin Holding
    BY DEF IdleWorker, IsWorker, WorkerFields, Holding
  <2>3. NoRenderAdded
    BY <1>1, SameQueue DEF BatchesInv
  <2> QED
    BY <1>1, <2>1, <2>2, <2>3, QuietKeeps DEF NoRenderAdded
<1> QED
  BY <1>2, <1>3

LEMMA ScanKeeps ==
  ASSUME BatchesInv, NEW w \in Workers, NEW blind \in BOOLEAN, NEW accepts \in BOOLEAN, Scan(w, blind, accepts)
  PROVE  BatchesInv'
<1> DEFINE from == FreshScan(w, blind, FALSE, accepts)
           st == ScanBatches(from, Batches(worker[w].copy, worker[w].section))
           r == [worker[w] EXCEPT !.pc = "look", !.dirty = st.dirty,
                   !.copy = WithBatches(worker[w].copy, worker[w].section, st.batches)]
<1>1. worker[w].pc = "scan" /\ CountBlind(blind) /\ lock' = lock
  BY DEF Scan
<1>2. worker' = [worker EXCEPT ![w] = r] /\ comfy' = [comfy EXCEPT !.queue = st.queue, !.outputs = st.outputs]
  BY DEF Scan
<1>3. lock = w /\ IsWorker(worker[w]) /\ \A x \in Workers \ {w} : worker[x].pc \notin Holding
  BY <1>1, HolderIsAlone DEF Holding
<1>4. IsScan(from) /\ from.blind = blind /\ from.queue = comfy.queue
  BY DEF FreshScan, IsScan, ScanFields
<1>5. ASSUME blinds' # "was"
      PROVE  IsFiniteSet(st.queue) /\ Cardinality(RendersIn(st.queue)) <= Limit
  <2>1. ~blind /\ blinds # "was"
    BY <1>1, <1>5 DEF CountBlind
  <2>2. ScanOK(from, blind)
    BY <1>4, <2>1 DEF ScanOK, BatchesInv, QueueOK
  <2>3. Len(Batches(worker[w].copy, worker[w].section)) \in Nat
    BY BatchesAreTuples
  <2> HIDE DEF from
  <2>4. ScanOK(st, blind)
    BY <2>2, <2>3, ScanBatchesKeeps
  <2> QED
    BY <2>1, <2>4 DEF ScanOK
<1> HIDE DEF from, st
<1>6. IsWorker(r) /\ r.pc = "look"
  BY <1>3 DEF IsWorker, WorkerFields
<1>7. IsComfy(comfy') /\ comfy'.queue = st.queue
  BY <1>2 DEF BatchesInv, IsComfy
<1> HIDE DEF r
<1> QED
  BY <1>1, <1>2, <1>3, <1>5, <1>6, <1>7, HolderKeeps

LEMMA LookKeeps ==
  ASSUME BatchesInv, NEW w \in Workers, NEW blind \in BOOLEAN, Look(w, blind)
  PROVE  BatchesInv'
<1> DEFINE snap == Snapshot(comfy.queue, blind)
           r == [worker[w] EXCEPT !.pc = "dispatch", !.snap = snap]
<1>1. worker[w].pc = "look" /\ CountBlind(blind) /\ lock' = lock /\ comfy' = comfy
  BY DEF Look
<1>2. worker' = [worker EXCEPT ![w] = r]
  BY DEF Look
<1>3. lock = w /\ IsWorker(worker[w]) /\ \A x \in Workers \ {w} : worker[x].pc \notin Holding
  BY <1>1, HolderIsAlone DEF Holding
<1>4. ASSUME blinds' # "was"
      PROVE  QueueOK /\ snap.queue = comfy.queue
  BY <1>1, <1>4 DEF CountBlind, Snapshot, BatchesInv
<1> HIDE DEF snap
<1>5. IsWorker(r) /\ r.pc = "dispatch" /\ r.snap = snap
  BY <1>3 DEF IsWorker, WorkerFields
<1>6. IsComfy(comfy')
  BY <1>1 DEF BatchesInv
<1> HIDE DEF r
<1>7. blinds' # "was" =>
        /\ IsFiniteSet(comfy'.queue) /\ Cardinality(RendersIn(comfy'.queue)) <= Limit
        /\ IsFiniteSet(r.snap.queue) /\ RendersIn(comfy'.queue) \subseteq r.snap.queue
  BY <1>1, <1>4, <1>5 DEF QueueOK, RendersIn
<1> QED
  BY <1>1, <1>2, <1>3, <1>5, <1>6, <1>7, HolderKeeps

LEMMA DispatchKeeps ==
  ASSUME BatchesInv, NEW w \in Workers, NEW aged \in BOOLEAN, NEW accepts \in BOOLEAN, Dispatch(w, aged, accepts)
  PROVE  BatchesInv'
<1> DEFINE from == FreshScan(w, FALSE, aged, accepts)
           b == Batches(worker[w].copy, worker[w].section)
           st == DispatchBatches(from, b)
           pc == IF worker[w].section = "head" THEN "records" ELSE "write"
           able == worker[w].snap.up /\ aged /\ accepts
           r == [worker[w] EXCEPT !.pc = pc, !.dirty = st.dirty, !.snap = NoSnapshot, !.able = able,
                   !.copy = WithBatches(worker[w].copy, worker[w].section, st.batches)]
<1>1. worker[w].pc = "dispatch" /\ lock' = lock /\ blinds' = blinds
  BY DEF Dispatch
<1>2. worker' = [worker EXCEPT ![w] = r] /\ comfy' = [comfy EXCEPT !.queue = st.queue]
  BY DEF Dispatch
<1>3. lock = w /\ IsWorker(worker[w]) /\ \A x \in Workers \ {w} : worker[x].pc \notin Holding
  BY <1>1, HolderIsAlone DEF Holding
<1>4. IsScan(from) /\ from.queue = comfy.queue /\ from.snap = worker[w].snap /\ ~from.submitted
  BY DEF FreshScan, IsScan, ScanFields
<1>5. ASSUME blinds # "was"
      PROVE  IsFiniteSet(st.queue) /\ Cardinality(RendersIn(st.queue)) <= Limit
  <2>1. DispatchOK(from)
    BY <1>1, <1>4, <1>5 DEF DispatchOK, BatchesInv, QueueOK
  <2>2. Len(b) \in Nat \ {0}
    <3>1. Len(b) \in {3, 5}
      BY BatchesAreTuples
    <3> DEFINE n == Len(b)
    <3> HIDE DEF n
    <3>2. n \in {3, 5} => n \in Nat \ {0}
      OBVIOUS
    <3> QED
      BY <3>1, <3>2 DEF n
  <2> HIDE DEF from, b
  <2>3. DispatchOK(st)
    BY <2>1, <2>2, DispatchBatchesKeeps
  <2> QED
    BY <2>3 DEF DispatchOK
<1>6. pc \in {"records", "write"}
  OBVIOUS
<1> HIDE DEF from, b, st, pc, able
<1>7. IsWorker(r) /\ r.pc = pc
  BY <1>3 DEF IsWorker, WorkerFields
<1>8. IsComfy(comfy') /\ comfy'.queue = st.queue
  BY <1>2 DEF BatchesInv, IsComfy
<1> HIDE DEF r
<1> QED
  BY <1>1, <1>2, <1>3, <1>5, <1>6, <1>7, <1>8, HolderKeeps

LEMMA RecordsKeep ==
  ASSUME BatchesInv, NEW w \in Workers, NEW accepts, NEW settled, RefreshRecords(w, accepts, settled)
  PROVE  BatchesInv'
<1> DEFINE c == worker[w].copy
           submitted == RecordCount(c, "submitted")
           st == FoldLeft(RefreshPoseRecords,
                   [recs |-> <<>>, poses |-> <<>>, dirty |-> worker[w].dirty,
                    cut |-> comfy.cut, cutouts |-> cutouts,
                    capacity |-> IF submitted >= CutoutLimit THEN 0 ELSE CutoutLimit - submitted,
                    accepts |-> accepts], c.poses)
           sent == SeedsWith("pending", Records(c.poses)) \cap SeedsWith("submitted", Records(st.poses))
           review == settled /\ \E p \in 1..NumPoses : ReviewDue(c.poses[p])
           pc == IF review THEN "vision" ELSE "write"
           copy == [c EXCEPT !.poses = st.poses]
<1>1. /\ worker' = [worker EXCEPT ![w] = [@ EXCEPT !.pc = pc, !.dirty = st.dirty, !.able = FALSE, !.copy = copy]]
      /\ \/ comfy' = [comfy EXCEPT !.up = FALSE, !.queue = {}, !.cut = st.cut]
         \/ comfy' = [comfy EXCEPT !.queue = @ \cup CutoutEntries(sent), !.cut = st.cut]
  BY DEF RefreshRecords
<1>6. sent \subseteq Seeds
  BY DEF SeedsWith
<1>7. pc \in {"vision", "write"}
  OBVIOUS
<1> HIDE DEF c, submitted, st, sent, review, pc, copy
<1> DEFINE r == [worker[w] EXCEPT !.pc = pc, !.dirty = st.dirty, !.able = FALSE, !.copy = copy]
<1>2. worker[w].pc = "records" /\ lock' = lock /\ blinds' = blinds /\ worker' = [worker EXCEPT ![w] = r]
  BY <1>1 DEF RefreshRecords
<1>3. lock = w /\ IsWorker(worker[w]) /\ \A x \in Workers \ {w} : worker[x].pc \notin Holding
  BY <1>2, HolderIsAlone DEF Holding
<1>4. IsWorker(r) /\ r.pc = pc
  BY <1>3 DEF IsWorker, WorkerFields
<1>5. NoRenderAdded
  <2>1. CASE comfy' = [comfy EXCEPT !.up = FALSE, !.queue = {}, !.cut = st.cut]
    <3>1. IsComfy(comfy') /\ comfy'.queue = {}
      BY <2>1 DEF BatchesInv, IsComfy
    <3> QED
      BY <3>1, SameQueue
  <2>2. CASE comfy' = [comfy EXCEPT !.queue = @ \cup CutoutEntries(sent), !.cut = st.cut]
    <3>1. IsFiniteSet(CutoutEntries(sent)) /\ RendersIn(CutoutEntries(sent)) = {}
      BY <1>6, CutoutsAreFinite
    <3> QED
      BY <2>2, <3>1, QueueGrows
  <2> QED
    BY <1>1, <2>1, <2>2
<1> HIDE DEF r
<1> QED
  BY <1>2, <1>3, <1>4, <1>5, <1>7, HolderWithoutRenders

LEMMA VisionKeeps ==
  ASSUME BatchesInv, NEW w \in Workers, NEW verdict, NEW restarts, VisionEnds(w, verdict, restarts)
  PROVE  BatchesInv'
<1>1. PICK poses : worker' = [worker EXCEPT ![w] = [@ EXCEPT !.pc = "write", !.dirty = TRUE, !.copy.poses = poses]]
  BY DEF VisionEnds
<1> DEFINE r == [worker[w] EXCEPT !.pc = "write", !.dirty = TRUE, !.copy.poses = poses]
<1>2. worker[w].pc = "vision" /\ lock' = lock /\ blinds' = blinds /\ worker' = [worker EXCEPT ![w] = r]
  BY <1>1 DEF VisionEnds
<1>3. lock = w /\ IsWorker(worker[w]) /\ \A x \in Workers \ {w} : worker[x].pc \notin Holding
  BY <1>2, HolderIsAlone DEF Holding
<1>4. IsWorker(r) /\ r.pc = "write"
  BY <1>3 DEF IsWorker, WorkerFields
<1>5. NoRenderAdded
  <2>1. IsComfy(comfy') /\ comfy'.queue = comfy.queue
    BY DEF VisionEnds, BatchesInv, IsComfy
  <2> QED
    BY <2>1, SameQueue
<1> HIDE DEF r
<1> QED
  BY <1>2, <1>3, <1>4, <1>5, HolderWithoutRenders

LEMMA WriteKeeps ==
  ASSUME BatchesInv, NEW w \in Workers, WriteBack(w)
  PROVE  BatchesInv'
<1> DEFINE next == [worker[w] EXCEPT !.pc = "scan", !.section = "torso", !.dirty = FALSE, !.able = FALSE]
           r == IF TorsoDue(w) THEN next ELSE IdleWorker
<1>1. /\ worker[w].pc = "write" /\ blinds' = blinds /\ comfy' = comfy
      /\ worker' = [worker EXCEPT ![w] = r]
      /\ TorsoDue(w) => lock' = w
  BY DEF WriteBack
<1>2. lock = w /\ IsWorker(worker[w]) /\ \A x \in Workers \ {w} : worker[x].pc \notin Holding
  BY <1>1, HolderIsAlone DEF Holding
<1>3. IsWorker(next) /\ next.pc = "scan"
  BY <1>2 DEF IsWorker, WorkerFields
<1>4. IsWorker(IdleWorker) /\ IdleWorker.pc = "idle"
  BY DEF IdleWorker, IsWorker, WorkerFields
<1>5. NoRenderAdded
  BY <1>1, SameQueue DEF BatchesInv
<1> HIDE DEF next
<1>6. IsWorker(r) /\ r.pc # "dispatch" /\ (r.pc \in Holding => lock' = w)
  BY <1>1, <1>3, <1>4 DEF Holding
<1> HIDE DEF r
<1> QED
  BY <1>1, <1>2, <1>5, <1>6, HolderWithoutRenders

LEMMA RefreshKeeps ==
  ASSUME BatchesInv, NEW w \in Workers, Refresh(w)
  PROVE  BatchesInv'
BY LockKeeps, WriteKeeps, ScanKeeps, LookKeeps, DispatchKeeps, RecordsKeep, VisionKeeps DEF Refresh

LEMMA BatchesNextKeeps ==
  ASSUME BatchesInv, [Next]_vars
  PROVE  BatchesInv'
<1>1. CASE UNCHANGED vars
  BY <1>1 DEF vars, files, BatchesInv, LockHeld, QueueOK, Workers, IsComfy, IsWorker
<1>2. CASE Next
  <2>1. ASSUME NEW w \in Workers, PayloadReads(w) \/ Refresh(w)
        PROVE  BatchesInv'
    BY <2>1, ReadsKeep, RefreshKeeps
  <2>2. "loop" \in Workers
    BY DEF Workers
  <2> QED
    BY <1>2, <2>1, <2>2, HandlersKeep, ReadsKeep, QueueShrinks DEF Next
<1> QED
  BY <1>1, <1>2

LEMMA BatchesInit ==
  ASSUME Init
  PROVE  BatchesInv
<1> DEFINE sent == {x \in ToSet(AllItems(profile)) : x.status = "submitted"}
           EntryOf(it) == [prompt |-> it.prompt, seed |-> it.seed, what |-> "render"]
           f == [it \in sent |-> EntryOf(it)]
<1>1. IsFiniteSet(sent) /\ Cardinality(sent) <= Limit
  <2>1. PICK sc \in Scenarios : profile = sc.profile
    BY DEF Init
  <2> QED
    BY <2>1, BatchesAssumption
<1>2. comfy.queue = {EntryOf(it) : it \in sent} /\ IsComfy(comfy)
  BY DEF Init, IsComfy
<1>3. f \in Surjection(sent, comfy.queue)
  BY <1>2 DEF Surjection
<1> HIDE DEF sent, f, EntryOf
<1>4. IsFiniteSet(comfy.queue) /\ Cardinality(comfy.queue) <= Cardinality(sent)
  BY <1>1, <1>3, FS_Surjection
<1>5. Cardinality(RendersIn(comfy.queue)) <= Limit
  <2>1. RendersIn(comfy.queue) \subseteq comfy.queue
    BY DEF RendersIn
  <2>2. /\ Cardinality(RendersIn(comfy.queue)) <= Cardinality(comfy.queue)
        /\ Cardinality(RendersIn(comfy.queue)) \in Nat
        /\ Cardinality(comfy.queue) \in Nat /\ Cardinality(sent) \in Nat
    BY <1>1, <1>4, <2>1, FS_Subset, FS_CardinalityType
  <2> QED
    BY <1>1, <1>4, <2>2, BatchesAssumption
<1>6. worker = [w \in Workers |-> IdleWorker]
  BY DEF Init
<1>7. IsWorker(IdleWorker) /\ IdleWorker.pc = "idle"
  BY DEF IdleWorker, IsWorker, WorkerFields
<1>8. LockHeld
  BY <1>6, <1>7 DEF LockHeld, Holding
<1>9. QueueOK
  BY <1>4, <1>5, <1>6, <1>7 DEF QueueOK
<1> QED
  BY <1>2, <1>8, <1>9 DEF BatchesInv

(* However the refreshes of handlers, of GETs and of the dispatch thread   *)
(* interleave, with early submissions while images are imported, prompts   *)
(* that ComfyUI forgot and copies that overwrite each other, ComfyUI never *)
(* holds more than Limit images of the batches, as long as no request for  *)
(* its queue has failed: _avatar_profile_refresh_lock keeps a second       *)
(* refresh from submitting between one's look at the queue and its         *)
(* dispatch.                                                               *)
THEOREM RendersLimited == StudioSpec => []OneRenderInFlight
<1>1. StudioInit => BatchesInv
  BY BatchesInit DEF StudioInit
<1>2. BatchesInv /\ [StudioNext]_studioVars => BatchesInv'
  <2>1. [StudioNext]_studioVars => [Next]_vars
    BY DEF StudioNext, studioVars
  <2> QED
    BY <2>1, BatchesNextKeeps
<1>3. BatchesInv => OneRenderInFlight
  BY DEF BatchesInv, QueueOK, OneRenderInFlight, RendersIn
<1> QED
  BY <1>1, <1>2, <1>3, PTL DEF StudioSpec
=============================================================================
