SPECIFICATION Spec
CONSTANTS
  vm1 = vm1
  vm2 = vm2
  Machines <- TwoMachines
  Caller = Caller
  Name <- DefaultName
  Extra = {"x"}
  Devices = {"default"}
  MaxRuns = 2
  MaxAdds = 1
  MaxCmds = 2
  MaxIrqs = 1
SYMMETRY MachineSymmetry
INVARIANTS ArgumentsAreOwn ConsoleOfThisRun QtestOfThisRun RefusedByAnother
PROPERTIES AnswersInStep
