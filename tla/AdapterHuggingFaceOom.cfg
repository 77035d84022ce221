SPECIFICATION Spec
CONSTANTS
  Adapters = {"huggingface"}
  Devices = {"cpu", "cuda"}
  TextLimits = {5, 6, 7}
  TextLengths = {1, 6, 7}
  MaxBatchSize = 8
INVARIANTS
  LostDeviceEndsService
