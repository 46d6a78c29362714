SPECIFICATION StudioSpec
CONSTANTS
  NumPoses = 1
  BatchSize = 1
  Required = 1
  BatchTarget = 1
  MinSeeds = 1
  Limit = 1
  CutoutLimit = 2
  Epochs = 2
  Scenarios <- StudioScenarios
  MaxSeeds = 4
  MinImages = 2
  MinApproved = 1
  UploadSizes = {1, 2}
  MaxJobs = 2
  MaxModels = 2
  TrainingStories <- MCTrainingStories
  RestingTraining <- MCRestingTraining
  Execs = {"a", "b"}
  Transparent = {"b"}
  LifetimeOf <- MCLifetimeOf
  WeatherMax = 1
  ImageStories <- MCImageStories
  RestingImages <- MCRestingImages
  Photos = {"photo"}
  MaxEvents = 2
CHECK_DEADLOCK FALSE
INVARIANTS OneRenderInFlight TrainedModelsKept DeliveredIsFresh DeliveredIsRecorded BodyPhotosKept
PROPERTIES ImagesArrive TrainingsSettle
