CONSTANTS
  Words <- MCWords
  Colon = {"job:lat"}
  Labels = {"a", "b", "le"}
  TypeName <- MCTypeName
  Result <- MCResult
  Inputs <- MCInputs
  DefaultTypes <- MCDefaultTypes
  FunctionTypes <- MCFunctionTypes
  ApiFunctions <- MCApiFunctions
  Configs <- MCConfigs
SPECIFICATION Spec
INVARIANTS IInv StartsUnlessDuplicate ServedAsBuilt
