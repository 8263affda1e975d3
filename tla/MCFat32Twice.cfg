CONSTANTS
  Names = {"a", "b", "big"}
  bytes_per_sector = 1
  sectors_per_cluster = 2
  LastCluster = 6
  FatEntries = 8
  num_fats = 2
  FAT32_EOC = 99
  EOC_MIN = 92
  Volumes <- OneVolume
  EocCluster = 0
  Sizes = {1, 2, 4}
  MaxWrites = 2
  CallsPerOpen = 1
  CreateTwice = TRUE
SPECIFICATION Spec
INVARIANTS
  PublishedFilesKeepTheirBytes
