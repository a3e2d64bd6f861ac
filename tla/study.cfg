SPECIFICATION FairSpec
CONSTANTS
    kReaders = 3
    First = {2, 254, 255}
INVARIANTS TypeOK SearchEnds
PROPERTIES EveryReaderAsked PollingResumes
