---------------------------- MODULE MCImageStudio ----------------------------
(* The image studio for TLC: the profiles, trainings and executions that   *)
(* each part starts from, and what may happen to them.                     *)
EXTENDS ImageStudio, TLC

-----------------------------------------------------------------------------
(* Profiles the avatar batches start from.                                 *)
Ready(seed, kind) ==
  [LocalPreview(seed, kind) EXCEPT !.status = "completed", !.file = "image"]

(* A profile whose seed batch has one image, which is selected.            *)
OneSeed ==
  [EmptyProfile EXCEPT !.seed = <<Ready(1, "seed")>>, !.selected = 1]

(* A profile with an approved image in its first pose.                     *)
OnePose ==
  [OneSeed EXCEPT !.poses[1].items = <<[Ready(2, "dataset") EXCEPT !.approved = TRUE]>>]

(* A profile with the anchor image of the torso.                           *)
OneAnchor == [EmptyProfile EXCEPT !.previews["torso"] = <<Ready(1, "preview")>>]
OneTorso == [OneAnchor EXCEPT !.torso = <<Ready(2, "dataset")>>]

(* A profile with an epoch review half way, and a new seed batch.          *)
HalfWay(sec) ==
  [EmptyProfile EXCEPT !.seed = <<LocalPreview(1, "seed")>>,
     !.review[sec] =
       <<[LocalPreview(2, "review") EXCEPT !.status = "rendered_pending_import", !.prompt = 1,
                                           !.file = "placeholder"],
         [LocalPreview(3, "review") EXCEPT !.status = "submitted", !.prompt = 2,
                                           !.file = "placeholder"]>>]

(* A profile whose last image of an epoch review is being rendered.        *)
LastOne ==
  [EmptyProfile EXCEPT !.review["head"] =
     <<[LocalPreview(1, "review") EXCEPT !.status = "submitted", !.prompt = 1,
                                         !.file = "placeholder"]>>]

Scenario(prof, requests, faults, blind) ==
  [profile |-> prof, requests |-> requests, stops |-> faults, blinds |-> blind]

BatchStories ==
  {Scenario(OneSeed, <<"generate", "review_item">>, 0, "never"),
   Scenario(OneSeed, <<"generate">>, 1, "never"),
   Scenario(OneSeed, <<"generate">>, 0, "may"),
   Scenario(OneSeed, <<"jitter_batch", "get">>, 0, "never"),
   Scenario(OneSeed, <<"seed_batch", "generate">>, 0, "never"),
   Scenario(OneSeed, <<"epoch_review">>, 1, "never"),
   Scenario(HalfWay("head"), <<"select_review">>, 0, "never"),
   Scenario(LastOne, <<"get", "select_review">>, 0, "never"),
   Scenario(OnePose, <<"next", "reset_pose">>, 1, "never"),
   Scenario(OnePose, <<"get", "retry_vision">>, 0, "never"),
   Scenario(OneAnchor, <<"torso_generate">>, 1, "never"),
   Scenario(OneTorso, <<"torso_review_item", "torso_generate">>, 0, "never"),
   Scenario(OneAnchor, <<"torso_epoch_review">>, 0, "never"),
   Scenario(HalfWay("torso"), <<"torso_select_review">>, 0, "never"),
   Scenario(OneAnchor, <<"torso_generate", "torso_reset">>, 0, "never"),
   Scenario(OneAnchor, <<"torso_preview", "torso_generate">>, 0, "never"),
   Scenario(OneAnchor, <<"preview">>, 1, "never")}
RestingBatches == Scenario(EmptyProfile, <<>>, 0, "never")
StudioScenarios == BatchStories \cup {RestingBatches}

(* Trainings of each section.                                              *)
Asks(op, slot) == [do |-> op, slot |-> slot]
Story(requests, refreshes, faults, busy) ==
  [requests |-> requests, refreshes |-> refreshes, crashes |-> faults, busy |-> busy]
TrainHead == <<Asks("upload", "head"), Asks("train", "head")>>
MCRestingTraining == Story(<<>>, 0, 0, FALSE)
MCTrainingStories ==
  {MCRestingTraining,
   Story(TrainHead, 1, 1, FALSE),
   Story(TrainHead \o <<Asks("epoch_review", "head")>>, 0, 0, TRUE),
   Story(TrainHead \o <<Asks("next", "head")>>, 0, 1, FALSE),
   Story(TrainHead \o <<Asks("train", "head")>>, 0, 0, FALSE),
   Story(<<Asks("generate", "head"), Asks("upload_lora", "head")>>, 0, 0, FALSE),
   Story(<<Asks("upload", "torso"), Asks("train", "torso"), Asks("approve", "torso")>>, 0, 1, FALSE),
   Story(<<Asks("train", "bootstrap"), Asks("approve", "torso")>>, 0, 0, FALSE)}

(* Direct executions with what else happens to the manual images.          *)
MCRestingImages ==
  [x \in {"starts", "submits", "others", "restarts", "gets", "blinds", "timeouts", "deletes",
          "acks", "ages", "cleanups"} |-> 0]
Happens(counts) == counts @@ MCRestingImages
MCImageStories ==
  {MCRestingImages,
   Happens([starts |-> 2]),
   Happens([starts |-> 1, gets |-> 1, deletes |-> 1, acks |-> 1]),
   Happens([starts |-> 1, others |-> 1, restarts |-> 1, blinds |-> 1, timeouts |-> 1]),
   Happens([starts |-> 1, others |-> 1, ages |-> 1, cleanups |-> 1]),
   Happens([starts |-> 1, others |-> 1, deletes |-> 1]),
   Happens([starts |-> 1, submits |-> 1, acks |-> 1])}

MCLifetimeOf == [a |-> "long_term", b |-> "short_lived"]
=============================================================================
