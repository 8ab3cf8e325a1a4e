SPECIFICATION BookSpec
CONSTANTS
  Values = {"a"}
  Books = {{1}}
PROPERTIES
  BookComesBack
