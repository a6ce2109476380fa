CONSTANTS
    PageArea = 480000
    Default <- MCDefault
    Policies <- MCPolicies
    Tops <- MCTops
    Rows <- MCRows
    Styles <- MCStyles
    Boxes <- MCBoxes
    Rasters <- MCRasters
    WordChars = 8
    Gutter = 18
    ColumnGap = 24
    MaxHeadingWords = 2
    Elements <- MCElements
    MaxElements = 4
    Slides <- MCSlides
    MaxSlides = 2
    NotesPart = 99
    Tags <- MCTags
    MaxNodes = 3
    Samples <- MCSamples
    Sources <- MCSources
SPECIFICATION Spec
INVARIANTS TypeOK SheetKept FlowKept HeadingsRanked PagesRoute
