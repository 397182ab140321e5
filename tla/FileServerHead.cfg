SPECIFICATION FileSpec
CONSTANTS
  HeadLen = 2
  ErrorLen = 2
  NoResponse = NoResponse
  NoPath = NoPath
  MaxSize = 2
  Chars = {"w", "x", "2"}
  Root <- RootW
  Paths <- SomePaths
  Listings <- SomeListings
INVARIANT HeadHasNoBody
