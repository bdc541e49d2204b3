\* parseCommandLine against the reference splitter, on every line of up to
\* five characters over two letters, blank, tab, the quotes and backslash.
CONSTANTS
    Letters <- MCLettersAB
    MaxLen = 5
SPECIFICATION Spec
INVARIANT PlainWordsSplit
