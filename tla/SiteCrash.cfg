SPECIFICATION Spec
CONSTANTS
    s1 = s1  s2 = s2  css1 = css1  css2 = css2
    Stories = {s1, s2}
    Styles = {css1, css2}
    Archive = Archive
    Home = Home
    MaxBuilds = 3
SYMMETRY Symmetric
INVARIANTS HomeNeverAhead CachedPagesStyled OrphansOnlyByInterruption
PROPERTY LastGoodKept
