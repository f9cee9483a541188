CONSTANTS
    PCIAddressOf <- MCPCIAddressOf
    GpuLists <- MCGpuLists
    RequirementLists <- MCRequirementLists
    Availability <- MCAvailability
    Samples <- MCSamples
SPECIFICATION AlgorithmsSpec
INVARIANT NearestRankMethod
