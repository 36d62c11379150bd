SPECIFICATION EvidenceSpec
CONSTANTS
  Uploads = {1, 2}
  SweepLimit = 1
  MaxUploadFaults = 1
CHECK_DEADLOCK FALSE
PROPERTY UploadsSettle
