\* Pages of 8 words hold two history elements of 4.  A load, or a store that is
\* recorded, reads word 0 of the element first; a store that is not recorded
\* writes word 1, the campID.  campSampling, without stores to the last byte of
\* a page that are not recorded.
SPECIFICATION Spec
CONSTANTS
  PAGE_SIZE = 8
  SIZE_ELEM = 4
  Stride = 4
  NumPages = 3
  Touched = {0, 1, 4, 8, 9, 12, 16, 20}
  Blind = {1, 9}
  Values = {0, 1}
  Zero = 0
  Reading = Reading
  NoRequest = NoRequest
PROPERTIES
  BehavesAsFlatMemory
  EveryAccessEnds
