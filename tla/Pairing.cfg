\* A lamp paired, reset and paired again, with Home Assistant restarting in between.
SPECIFICATION FairSpec
CONSTANTS
  p1 = p1
  p2 = p2
  p3 = p3
  Parts <- MCParts
  Zero = Zero
  App = App
  MaxFaults = 5
  MaxRestarts = 2
INVARIANTS TypeOK RegisteredIsRecorded
PROPERTIES RecordAsGenerated AddressKept ImplementsOwnership EndsUpPaired
